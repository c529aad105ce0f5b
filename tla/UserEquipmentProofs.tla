------------------------ MODULE UserEquipmentProofs ------------------------
(* Theorems about the UE program, for every battery and every link. *)
EXTENDS UserEquipment, SequenceTheorems, TLAPS

(* A level that is stored fits the type it is stored into. *)
LEMMA Int8Type == ASSUME NEW x \in Int PROVE Int8(x) \in Level
<1> DEFINE h == Width \div 2
<1>1. h \in Nat /\ Width = 2 * h /\ h > 0
  BY BatteryAssumption
<1>2. (x + h) % Width \in 0..(Width - 1)
  BY <1>1
<1> QED BY <1>1, <1>2 DEF Int8, Level

(* A thread goes where its program counter may be. *)
LEMMA GotoMain == ASSUME PcOK, NEW l \in MainPc, Goto("main", l) PROVE PcOK'
  BY DEF PcOK, Goto, Thread

(* The same for the battery thread. *)
LEMMA GotoBattery == ASSUME PcOK, NEW l \in BatteryPc, Goto("battery", l) PROVE PcOK'
  BY DEF PcOK, Goto, Thread

(* A killed process leaves both program counters in their types. *)
LEMMA KillType == ASSUME Kill PROVE PcOK'
  BY DEF PcOK, Kill, Thread, MainPc, BatteryPc

(* write(2): whichever way it ends, the counters and the link keep their types. *)
LEMMA WriteType ==
  ASSUME PcOK, LinkOK, NEW t \in Thread, NEW m \in Message, NEW ok, NEW failed,
         Write(t, m, ok, failed),
         IF t = "main" THEN ok \in MainPc /\ failed \in MainPc
                       ELSE ok \in BatteryPc /\ failed \in BatteryPc
  PROVE  PcOK' /\ LinkOK'
<1>1. CASE WriteOk(m) /\ Goto(t, ok)
  <2>1. PcOK'
    BY <1>1, GotoMain, GotoBattery DEF Thread
  <2>2. CASE outbox' = Append(outbox, m) /\ Len(outbox) < Capacity
    <3>1. outbox' \in Seq(Message) /\ Len(outbox') = Len(outbox) + 1 /\ Len(outbox) \in Nat
      BY <2>2, AppendProperties, LenProperties DEF LinkOK
    <3>2. Len(outbox') <= Capacity
      BY <2>2, <3>1, LinkAssumption
    <3> QED BY <1>1, <2>1, <3>1, <3>2 DEF LinkOK, WriteOk
  <2>3. CASE outbox' = outbox
    BY <1>1, <2>1, <2>3 DEF LinkOK, WriteOk
  <2> QED BY <1>1, <2>2, <2>3 DEF WriteOk
<1>2. CASE WriteFails /\ Goto(t, failed)
  <2>1. PcOK'
    BY <1>2, GotoMain, GotoBattery DEF Thread
  <2>2. LinkOK'
    BY <1>2 DEF LinkOK, WriteFails, link
  <2> QED BY <2>1, <2>2
<1>3. CASE WriteKills
  BY <1>3, KillType DEF LinkOK, WriteKills, Killed, link
<1> QED BY <1>1, <1>2, <1>3 DEF Write

(* Taking a message from a socket buffer. *)
LEMMA InboxType ==
  ASSUME LinkOK, inbox # <<>>
  PROVE  Head(inbox) \in FromEnb /\ Tail(inbox) \in Seq(FromEnb)
  BY HeadTailProperties DEF LinkOK

(* Taking a message from the buffer towards the eNodeB leaves it within its bound. *)
LEMMA OutboxType ==
  ASSUME LinkOK, outbox # <<>>
  PROVE  /\ Head(outbox) \in Message /\ Tail(outbox) \in Seq(Message)
         /\ Len(Tail(outbox)) <= Capacity
<1>1. /\ Head(outbox) \in Message /\ Tail(outbox) \in Seq(Message)
      /\ Len(Tail(outbox)) = Len(outbox) - 1
  BY HeadTailProperties DEF LinkOK
<1> QED BY <1>1, LinkAssumption DEF LinkOK

(* What the blocking recv of the handshake stores is a message. *)
LEMMA RecvHandshakeType ==
  ASSUME TypeOK, RecvHandshake
  PROVE  received' \in Message /\ inbox' \in Seq(FromEnb) /\ told' \in BOOLEAN
<1>1. CASE inbox # <<>>
  <2>1. received' \in Message /\ inbox' \in Seq(FromEnb)
    BY <1>1, InboxType DEF RecvHandshake, TypeOK, Message
  <2>2. told' \in BOOLEAN
    BY <1>1 DEF RecvHandshake
  <2> QED BY <2>1, <2>2
<1>2. CASE inbox = <<>>
  BY <1>2 DEF RecvHandshake, TypeOK, DataOK, LinkOK
<1> QED BY <1>1, <1>2

(* check_battery_status, by either thread. *)
LEMMA NotifyType == ASSUME TypeOK, NEW t \in Thread, NotifyStep(t) PROVE TypeOK'
<1> USE DEF TypeOK, DataOK, battery, link
<1> DEFINE Own == IF t = "main" THEN MainPc ELSE BatteryPc
<1>g. ASSUME NEW l \in Own, Goto(t, l) PROVE PcOK'
  BY <1>g, GotoMain, GotoBattery DEF Thread
<1>o. Notify \subseteq Own /\ AfterCheck(t) \in Own
  BY DEF AfterCheck, MainPc, BatteryPc, MainLoop, Thread
<1> HIDE DEF Own
<1>1. CASE check_battery_status(t)
  BY <1>1, <1>g, <1>o DEF check_battery_status, BatteryOK, LinkOK, Notify
<1>2. CASE CheckSent(t)
  BY <1>2, <1>g, <1>o DEF CheckSent, BatteryOK, LinkOK, Notify
<1>3. CASE SetNotification(t)
  BY <1>3, <1>g, <1>o DEF SetNotification, BatteryOK, LinkOK, Notify, Message, FromUe
<1>4. CASE send_battery_notification(t)
  <2>1. PcOK' /\ LinkOK'
    BY <1>4, <1>o, WriteType DEF send_battery_notification, Own, Notify
  <2>2. BatteryOK'
    BY <1>4 DEF send_battery_notification, BatteryOK
  <2> QED BY <1>4, <2>1, <2>2 DEF send_battery_notification
<1>5. CASE NotificationSent(t)
  BY <1>5, <1>g, <1>o DEF NotificationSent, BatteryOK, LinkOK
<1> QED BY <1>1, <1>2, <1>3, <1>4, <1>5 DEF NotifyStep

(* Every step of the main thread, of the battery thread and of the eNodeB      *)
(* keeps the types.                                                            *)
LEMMA MainType == ASSUME TypeOK, MainStep PROVE TypeOK'
<1> USE DEF TypeOK, DataOK, battery, link
<1> /\ Handshake \subseteq MainPc /\ Notify \subseteq MainPc /\ MainLoop \subseteq MainPc
    /\ {"join", "off_write", "exit", "exited"} \subseteq MainPc
  BY DEF MainPc, Ending
<1> "main" \in Thread
  BY DEF Thread
<1>1. CASE init_connection
  BY <1>1, GotoMain DEF init_connection, BatteryOK, LinkOK, Handshake
<1>2. CASE send_prach_preamble
  BY <1>2, WriteType DEF send_prach_preamble, BatteryOK, Handshake, Message, FromUe
<1>3. CASE send_rrc_connection_request
  BY <1>3, WriteType DEF send_rrc_connection_request, BatteryOK, Handshake, Message, FromUe
<1>4. CASE send_rrc_setup_complete
  BY <1>4, WriteType DEF send_rrc_setup_complete, BatteryOK, Handshake, Message, FromUe
<1>5. CASE receive_prach_response
  <2>1. PcOK'
    BY <1>5, GotoMain DEF receive_prach_response, Handshake
  <2>2. received' \in Message /\ inbox' \in Seq(FromEnb) /\ told' \in BOOLEAN
    BY <1>5, RecvHandshakeType DEF receive_prach_response
  <2> QED BY <1>5, <2>1, <2>2 DEF receive_prach_response, BatteryOK, LinkOK
<1>6. CASE receive_rrc_setup
  <2>1. PcOK'
    BY <1>6, GotoMain DEF receive_rrc_setup, Handshake
  <2>2. received' \in Message /\ inbox' \in Seq(FromEnb) /\ told' \in BOOLEAN
    BY <1>6, RecvHandshakeType DEF receive_rrc_setup
  <2> QED BY <1>6, <2>1, <2>2 DEF receive_rrc_setup, BatteryOK, LinkOK
<1>7. CASE StartBatteryThread
  BY <1>7 DEF StartBatteryThread, PcOK, BatteryOK, LinkOK, Thread, MainLoop, BatteryPc
<1>8. CASE check_for_shutdown("main")
  BY <1>8, GotoMain DEF check_for_shutdown, BatteryOK, LinkOK, MainLoop
<1>9. CASE RecvMessage
  <2>1. PcOK'
    BY <1>9, GotoMain DEF RecvMessage, MainLoop
  <2>2. message' \in Message /\ inbox' \in Seq(FromEnb)
    BY <1>9, InboxType DEF RecvMessage, LinkOK, Message
  <2>3. told' \in BOOLEAN
    BY <1>9 DEF RecvMessage
  <2> QED BY <1>9, <2>1, <2>2, <2>3 DEF RecvMessage, BatteryOK, LinkOK
<1>10. CASE Switch
  BY <1>10, GotoMain, KillType DEF Switch, SwitchTo, Download, Killed, BatteryOK, LinkOK, MainLoop
<1>11. CASE receive_ping
  BY <1>11, GotoMain DEF receive_ping, BatteryOK, LinkOK, MainLoop, Message, FromUe
<1>12. CASE SetPong
  BY <1>12, GotoMain DEF SetPong, BatteryOK, LinkOK, MainLoop, Message, FromUe
<1>13. CASE SetReport
  BY <1>13, GotoMain DEF SetReport, BatteryOK, LinkOK, MainLoop, Message, FromUe
<1>14. CASE EndOfIteration
  BY <1>14, GotoMain DEF EndOfIteration, BatteryOK, LinkOK, MainLoop, Message, FromUe
<1>15. CASE send_pong
  BY <1>15, WriteType DEF send_pong, OnError, BatteryOK, MainLoop, Notify
<1>16. CASE send_measurement_report
  BY <1>16, WriteType DEF send_measurement_report, OnError, BatteryOK, MainLoop, Notify
<1>17. CASE send_ue_off_signal
  BY <1>17, WriteType DEF send_ue_off_signal, OnError, BatteryOK, MainLoop, Notify
<1>18. CASE NotifyStep("main")
  BY <1>18, NotifyType
<1>19. CASE decrease_after_ping \/ DrainElse
  BY <1>19, GotoMain DEF decrease_after_ping, DrainElse, BatteryOK, LinkOK, MainLoop
<1>20. CASE DrainToZero
  BY <1>20, GotoMain, BatteryAssumption DEF DrainToZero, BatteryOK, LinkOK, MainLoop, Level
<1>21. CASE DrainLoad
  BY <1>21, GotoMain, BatteryAssumption DEF DrainLoad, BatteryOK, LinkOK, MainLoop, Level
<1>22. CASE DrainStore
  BY <1>22, GotoMain, Int8Type DEF DrainStore, BatteryOK, LinkOK, MainLoop
<1>23. CASE JoinBatteryThread
  BY <1>23, GotoMain DEF JoinBatteryThread, BatteryOK, LinkOK, Message, FromUe
<1>24. CASE Exit
  BY <1>24, GotoMain DEF Exit, BatteryOK, LinkOK
<1> QED BY <1>1, <1>2, <1>3, <1>4, <1>5, <1>6, <1>7, <1>8, <1>9, <1>10, <1>11, <1>12, <1>13, <1>14, <1>15, <1>16, <1>17, <1>18, <1>19, <1>20, <1>21, <1>22, <1>23, <1>24 DEF MainStep

(* The steps of battery_thread keep the types; power_percentage by Int8Type. *)
LEMMA BatteryType == ASSUME TypeOK, BatteryStep PROVE TypeOK'
<1> USE DEF TypeOK, DataOK, battery, link
<1> "battery" \in Thread
  BY DEF Thread
<1>1. CASE check_for_shutdown("battery")
  BY <1>1, GotoBattery DEF check_for_shutdown, BatteryOK, LinkOK, BatteryPc, Notify
<1>2. CASE NotifyStep("battery")
  BY <1>2, NotifyType
<1>3. CASE update_battery
  BY <1>3, GotoBattery DEF update_battery, BatteryOK, LinkOK, BatteryPc
<1>4. CASE LevelLoad
  BY <1>4, GotoBattery, BatteryAssumption DEF LevelLoad, BatteryOK, LinkOK, BatteryPc, Level
<1>5. CASE LevelStore
  BY <1>5, GotoBattery, Int8Type DEF LevelStore, BatteryOK, LinkOK, BatteryPc
<1>6. CASE LevelClip
  BY <1>6, GotoBattery DEF LevelClip, BatteryOK, LinkOK, BatteryPc, Turn
<1>7. CASE ResetSent
  <2>1. PcOK'
    BY <1>7, GotoBattery DEF ResetSent, BatteryPc, Turn
  <2>2. notes' \in [Thread -> Nat]
    BY <1>7 DEF ResetSent
  <2> QED BY <1>7, <2>1, <2>2 DEF ResetSent, BatteryOK, LinkOK
<1>8. CASE ClipLevel
  BY <1>8, GotoBattery, BatteryAssumption DEF ClipLevel, BatteryOK, LinkOK, BatteryPc, Turn, Level
<1>9. CASE SetCharging
  BY <1>9, GotoBattery DEF SetCharging, BatteryOK, LinkOK, BatteryPc, Turn
<1> QED BY <1>1, <1>2, <1>3, <1>4, <1>5, <1>6, <1>7, <1>8, <1>9 DEF BatteryStep

(* SIGINT, fatal or handled, keeps the types. *)
LEMMA SignalType == ASSUME TypeOK, signal_handler PROVE TypeOK'
<1> USE DEF TypeOK, DataOK, BatteryOK, LinkOK, battery, link
<1>1. \A l \in DOMAIN OnError : OnError[l] \in MainPc
  BY DEF OnError, MainPc, MainLoop, Ending
<1>2. PcOK'
  BY <1>1, KillType, GotoMain DEF signal_handler, Killed, PcOK
<1> QED BY <1>2 DEF signal_handler, Killed

(* What the eNodeB does to the connection keeps the types. *)
LEMMA EnbType ==
  ASSUME TypeOK, EnbReceive \/ EnbClose \/ \E m \in Unsolicited : EnbSend(m)
  PROVE  TypeOK'
<1> USE DEF TypeOK, PcOK, DataOK, BatteryOK, LinkOK, battery
<1>1. CASE EnbReceive
  <2>1. outbox' \in Seq(Message) /\ Len(outbox') <= Capacity
    BY <1>1, OutboxType DEF EnbReceive
  <2>2. inbox' \in Seq(FromEnb) /\ peer' \in {"up", "closed", "reset"}
    <3>1. \A r \in FromEnb : Append(inbox, r) \in Seq(FromEnb)
      OBVIOUS
    <3>2. "random_access_response" \in FromEnb /\ "rrc_setup" \in FromEnb
      BY DEF FromEnb
    <3> QED BY <1>1, <3>1, <3>2 DEF EnbReceive
  <2> QED BY <1>1, <2>1, <2>2 DEF EnbReceive
<1>2. CASE EnbClose
  BY <1>2, LinkAssumption DEF EnbClose
<1>3. CASE \E m \in Unsolicited : EnbSend(m)
  BY <1>3, LinkAssumption DEF EnbSend, FromEnb
<1> QED BY <1>1, <1>2, <1>3

(* main() starts well typed. *)
LEMMA TypeInit == Init => TypeOK
<1> SUFFICES ASSUME Init PROVE TypeOK
  OBVIOUS
<1>1. PcOK
  BY DEF Init, PcOK, Thread, MainPc, BatteryPc, Handshake
<1>2. DataOK
  BY DEF Init, DataOK, Message, FromUe
<1>3. BatteryOK
  <2>1. FULL \in Level
    BY BatteryAssumption DEF Level
  <2>2. tmp \in [Thread -> Int] /\ notes \in [Thread -> Nat]
    BY DEF Init
  <2> QED BY <2>1, <2>2 DEF Init, BatteryOK
<1>4. LinkOK
  BY LinkAssumption DEF Init, LinkOK
<1> QED BY <1>1, <1>2, <1>3, <1>4 DEF TypeOK

(* Every step of the system keeps the types. *)
LEMMA TypeStep == TypeOK /\ [Next]_vars => TypeOK'
<1> SUFFICES ASSUME TypeOK, [Next]_vars PROVE TypeOK'
  OBVIOUS
<1>1. CASE UNCHANGED vars
  BY <1>1 DEF vars, battery, link, TypeOK, PcOK, DataOK, BatteryOK, LinkOK
<1> QED BY <1>1, MainType, BatteryType, SignalType, EnbType DEF Next, Ended

(* Type correctness of the UE program: in particular a program counter, a    *)
(* buffer and the battery level (an int8_t) never leave their types.         *)
THEOREM TypeCorrect == Spec => []TypeOK
  BY TypeInit, TypeStep, PTL DEF Spec

-----------------------------------------------------------------------------
(* The two threads live together only between create and join. *)
LEMMA GotoJoin ==
  ASSUME PcOK, JoinInv, NEW l, Goto("main", l),
         \/ pc["main"] \in Handshake /\ l \in Handshake \cup {"exit"}
         \/ pc["main"] \in Ending /\ l \in Ending
         \/ l \notin Handshake \cup Ending
  PROVE  JoinInv'
  BY DEF PcOK, JoinInv, Goto, Thread, Handshake, Ending

(* A killed process satisfies the thread order vacuously. *)
LEMMA KillJoin == ASSUME Kill PROVE JoinInv'
  BY DEF JoinInv, Kill, Thread, Handshake, Ending

(* A write by the main thread respects the order of handshake, loop and ending. *)
LEMMA WriteJoin ==
  ASSUME PcOK, JoinInv, NEW m, NEW ok, NEW failed, Write("main", m, ok, failed),
         \/ pc["main"] \in Handshake /\ {ok, failed} \subseteq Handshake \cup {"exit"}
         \/ pc["main"] \in Ending /\ {ok, failed} \subseteq Ending
         \/ {ok, failed} \cap (Handshake \cup Ending) = {}
  PROVE  JoinInv'
  BY GotoJoin, KillJoin DEF Write, WriteKills, Killed

(* The main thread creates and joins the battery thread in order. *)
LEMMA MainJoin == ASSUME TypeOK, JoinInv, MainStep PROVE JoinInv'
<1> USE DEF TypeOK
<1>1. CASE init_connection
  BY <1>1, GotoJoin DEF init_connection, Handshake, Ending
<1>2. CASE receive_prach_response
  BY <1>2, GotoJoin DEF receive_prach_response, Handshake, Ending
<1>3. CASE receive_rrc_setup
  BY <1>3, GotoJoin DEF receive_rrc_setup, Handshake, Ending
<1>4. CASE check_for_shutdown("main")
  BY <1>4, GotoJoin DEF check_for_shutdown, Handshake, Ending
<1>5. CASE RecvMessage
  BY <1>5, GotoJoin DEF RecvMessage, Handshake, Ending
<1>6. CASE receive_ping
  BY <1>6, GotoJoin DEF receive_ping, Handshake, Ending
<1>7. CASE SetPong
  BY <1>7, GotoJoin DEF SetPong, Handshake, Ending
<1>8. CASE SetReport
  BY <1>8, GotoJoin DEF SetReport, Handshake, Ending
<1>9. CASE EndOfIteration
  BY <1>9, GotoJoin DEF EndOfIteration, Handshake, Ending
<1>10. CASE decrease_after_ping \/ DrainElse
  BY <1>10, GotoJoin DEF decrease_after_ping, DrainElse, Handshake, Ending
<1>11. CASE DrainToZero
  BY <1>11, GotoJoin DEF DrainToZero, Handshake, Ending
<1>12. CASE DrainLoad
  BY <1>12, GotoJoin DEF DrainLoad, Handshake, Ending
<1>13. CASE DrainStore
  BY <1>13, GotoJoin DEF DrainStore, Handshake, Ending
<1>14. CASE Exit
  BY <1>14, GotoJoin DEF Exit, Handshake, Ending
<1>15. CASE send_prach_preamble
  BY <1>15, WriteJoin DEF send_prach_preamble, Handshake, Ending
<1>16. CASE send_rrc_connection_request
  BY <1>16, WriteJoin DEF send_rrc_connection_request, Handshake, Ending
<1>17. CASE send_rrc_setup_complete
  BY <1>17, WriteJoin DEF send_rrc_setup_complete, Handshake, Ending
<1>18. CASE send_pong
  BY <1>18, WriteJoin DEF send_pong, OnError, Handshake, Ending
<1>19. CASE send_measurement_report
  BY <1>19, WriteJoin DEF send_measurement_report, OnError, Handshake, Ending
<1>20. CASE send_ue_off_signal
  BY <1>20, WriteJoin DEF send_ue_off_signal, OnError, Handshake, Ending
<1>21. CASE StartBatteryThread
  BY <1>21 DEF StartBatteryThread, JoinInv, Thread, Handshake, Ending
<1>22. CASE JoinBatteryThread
  BY <1>22 DEF JoinBatteryThread, JoinInv, PcOK, Goto, Thread, Handshake, Ending
<1>23. CASE Switch
  BY <1>23, GotoJoin, KillJoin DEF Switch, SwitchTo, Download, Killed, Handshake, Ending
<1>24. CASE NotifyStep("main")
  BY <1>24, GotoJoin, WriteJoin DEF NotifyStep, check_battery_status, CheckSent, SetNotification,
     send_battery_notification, NotificationSent, AfterCheck, Handshake, Ending
<1> QED BY <1>1, <1>2, <1>3, <1>4, <1>5, <1>6, <1>7, <1>8, <1>9, <1>10, <1>11, <1>12, <1>13, <1>14, <1>15, <1>16, <1>17, <1>18, <1>19, <1>20, <1>21, <1>22, <1>23, <1>24 DEF MainStep

(* A step of the battery thread finds it running and leaves the main thread     *)
(* where it is.                                                                *)
LEMMA BatteryJoin == ASSUME TypeOK, JoinInv, BatteryStep PROVE JoinInv'
<1>1. /\ pc["battery"] \notin {"idle", "done"}
      /\ Kill \/ \E l \in BatteryPc : Goto("battery", l)
  <2>1. CASE check_for_shutdown("battery")
    BY <2>1 DEF check_for_shutdown, BatteryPc, Notify
  <2>2. CASE NotifyStep("battery")
    BY <2>2 DEF NotifyStep, check_battery_status, CheckSent, SetNotification,
       send_battery_notification, NotificationSent, AfterCheck, Write, WriteKills, Killed,
       BatteryPc, Notify
  <2>3. CASE update_battery \/ LevelLoad \/ LevelStore
    BY <2>3 DEF update_battery, LevelLoad, LevelStore, BatteryPc
  <2>4. CASE LevelClip \/ ResetSent \/ ClipLevel \/ SetCharging
    BY <2>4 DEF LevelClip, ResetSent, ClipLevel, SetCharging, BatteryPc, Turn
  <2> QED BY <2>1, <2>2, <2>3, <2>4 DEF BatteryStep
<1> QED BY <1>1, KillJoin DEF JoinInv, Goto, TypeOK, PcOK, Thread

(* Every step keeps the thread order. *)
LEMMA JoinStep == TypeOK /\ JoinInv /\ [Next]_vars => JoinInv'
<1> SUFFICES ASSUME TypeOK, JoinInv, [Next]_vars PROVE JoinInv'
  OBVIOUS
<1>1. CASE signal_handler
  <2>1. \A l \in DOMAIN OnError : \/ l = "off_write" /\ OnError[l] = "exit"
                                 \/ OnError[l] \notin Handshake \cup Ending
    BY DEF OnError, Handshake, Ending
  <2>2. CASE UNCHANGED pc
    BY <2>2 DEF JoinInv
  <2>3. CASE Kill
    BY <2>3, KillJoin
  <2>4. CASE pc["main"] \in DOMAIN OnError /\ Goto("main", OnError[pc["main"]])
    BY <2>1, <2>4, GotoJoin DEF TypeOK, Ending
  <2> QED BY <1>1, <2>2, <2>3, <2>4 DEF signal_handler, Killed
<1>2. CASE EnbReceive \/ EnbClose \/ Ended \/ (\E m \in Unsolicited : EnbSend(m))
           \/ UNCHANGED vars
  BY <1>2 DEF EnbReceive, EnbClose, Ended, EnbSend, vars, JoinInv
<1> QED BY <1>1, <1>2, MainJoin, BatteryJoin DEF Next

(* The battery thread runs only between pthread_create and pthread_join. *)
LEMMA JoinCorrect == Spec => []JoinInv
<1>1. Init => JoinInv
  BY DEF Init, JoinInv, Handshake, Ending
<1> QED BY <1>1, JoinStep, TypeCorrect, PTL DEF Spec

-----------------------------------------------------------------------------
(* A step that leaves the notifications alone: no thread leaves note_sent     *)
(* (unless the process dies) and none gets on its way to a notification.      *)
Quiet ==
  /\ UNCHANGED <<sent, notes>>
  /\ \A t \in Thread : \/ pc'[t] \in {pc[t], "killed"}
                       \/ /\ pc[t] \notin {"note_sent", "killed"}
                          /\ pc'[t] \notin {"low", "high", "note_write"}

(* A quiet step preserves the invariant on notifications. *)
LEMMA QuietKeepsNotes == ASSUME NoteInv, Quiet PROVE NoteInv'
<1> SUFFICES ASSUME NEW t \in Thread
             PROVE  /\ notes[t] = 0 \/ (notes[t] = 1 /\ (sent \/ pc'[t] \in {"note_sent", "killed"}))
                    /\ pc'[t] \in {"low", "high", "note_write"} => notes[t] = 0
  BY DEF NoteInv, Quiet
<1>1. \/ pc'[t] \in {pc[t], "killed"}
      \/ pc[t] \notin {"note_sent", "killed"} /\ pc'[t] \notin {"low", "high", "note_write"}
  BY DEF Quiet
<1>2. /\ notes[t] = 0 \/ (notes[t] = 1 /\ (sent \/ pc[t] \in {"note_sent", "killed"}))
      /\ pc[t] \in {"low", "high", "note_write"} => notes[t] = 0
  BY DEF NoteInv
<1> QED BY <1>1, <1>2

(* A step that moves one thread elsewhere is quiet. *)
LEMMA GotoQuiet ==
  ASSUME PcOK, NEW t \in Thread, NEW l, Goto(t, l), UNCHANGED <<sent, notes>>,
         pc[t] \notin {"note_sent", "killed"}, l \notin {"low", "high", "note_write"}
  PROVE  Quiet
  BY DEF PcOK, Quiet, Goto

(* The death of the process is quiet. *)
LEMMA KillQuiet == ASSUME Kill, UNCHANGED <<sent, notes>> PROVE Quiet
  BY DEF Quiet, Kill

(* A write outside the notifications is quiet. *)
LEMMA WriteQuiet ==
  ASSUME PcOK, NEW t \in Thread, NEW m, NEW ok, NEW failed, Write(t, m, ok, failed),
         UNCHANGED <<sent, notes>>, pc[t] \notin {"note_sent", "killed"},
         {ok, failed} \cap {"low", "high", "note_write"} = {}
  PROVE  Quiet
  BY GotoQuiet, KillQuiet DEF Write, WriteKills, Killed

(* Every step of the main thread outside check_battery_status is quiet. *)
LEMMA MainQuiet == ASSUME TypeOK, JoinInv, MainStep, ~NotifyStep("main") PROVE Quiet
<1> USE DEF TypeOK, battery
<1> "main" \in Thread
  BY DEF Thread
<1>1. CASE init_connection
  BY <1>1, GotoQuiet DEF init_connection
<1>2. CASE receive_prach_response
  BY <1>2, GotoQuiet DEF receive_prach_response
<1>3. CASE receive_rrc_setup
  BY <1>3, GotoQuiet DEF receive_rrc_setup
<1>4. CASE check_for_shutdown("main")
  BY <1>4, GotoQuiet DEF check_for_shutdown
<1>5. CASE RecvMessage
  BY <1>5, GotoQuiet DEF RecvMessage
<1>6. CASE receive_ping
  BY <1>6, GotoQuiet DEF receive_ping
<1>7. CASE SetPong
  BY <1>7, GotoQuiet DEF SetPong
<1>8. CASE SetReport
  BY <1>8, GotoQuiet DEF SetReport
<1>9. CASE EndOfIteration
  BY <1>9, GotoQuiet DEF EndOfIteration
<1>10. CASE decrease_after_ping \/ DrainElse
  BY <1>10, GotoQuiet DEF decrease_after_ping, DrainElse
<1>11. CASE DrainToZero
  BY <1>11, GotoQuiet DEF DrainToZero
<1>12. CASE DrainLoad
  BY <1>12, GotoQuiet DEF DrainLoad
<1>13. CASE DrainStore
  BY <1>13, GotoQuiet DEF DrainStore
<1>14. CASE JoinBatteryThread
  BY <1>14, GotoQuiet DEF JoinBatteryThread
<1>15. CASE Exit
  BY <1>15, GotoQuiet DEF Exit
<1>16. CASE send_prach_preamble
  BY <1>16, WriteQuiet DEF send_prach_preamble
<1>17. CASE send_rrc_connection_request
  BY <1>17, WriteQuiet DEF send_rrc_connection_request
<1>18. CASE send_rrc_setup_complete
  BY <1>18, WriteQuiet DEF send_rrc_setup_complete
<1>19. CASE send_pong
  BY <1>19, WriteQuiet DEF send_pong, OnError
<1>20. CASE send_measurement_report
  BY <1>20, WriteQuiet DEF send_measurement_report, OnError
<1>21. CASE send_ue_off_signal
  BY <1>21, WriteQuiet DEF send_ue_off_signal, OnError
<1>22. CASE StartBatteryThread
  BY <1>22 DEF StartBatteryThread, Quiet, JoinInv, Handshake, Thread
<1>23. CASE Switch
  BY <1>23, GotoQuiet, KillQuiet DEF Switch, SwitchTo, Download, Killed
<1> QED BY <1>1, <1>2, <1>3, <1>4, <1>5, <1>6, <1>7, <1>8, <1>9, <1>10, <1>11, <1>12, <1>13, <1>14, <1>15, <1>16, <1>17, <1>18, <1>19, <1>20, <1>21, <1>22, <1>23 DEF MainStep

(* So are the steps of the battery thread, the signal and the eNodeB. *)
LEMMA OtherQuiet ==
  ASSUME TypeOK,
         \/ BatteryStep /\ ~NotifyStep("battery") /\ ~ResetSent
         \/ signal_handler \/ EnbReceive \/ EnbClose \/ Ended
         \/ \E m \in Unsolicited : EnbSend(m)
  PROVE  Quiet
<1> USE DEF TypeOK, battery
<1> "battery" \in Thread /\ "main" \in Thread
  BY DEF Thread
<1>1. CASE check_for_shutdown("battery")
  BY <1>1, GotoQuiet DEF check_for_shutdown
<1>2. CASE update_battery
  BY <1>2, GotoQuiet DEF update_battery
<1>3. CASE LevelLoad
  BY <1>3, GotoQuiet DEF LevelLoad
<1>4. CASE LevelStore
  BY <1>4, GotoQuiet DEF LevelStore
<1>5. CASE signal_handler
  <2>1. \A l \in DOMAIN OnError : /\ l \notin {"note_sent", "killed"}
                                 /\ OnError[l] \notin {"low", "high", "note_write"}
    BY DEF OnError
  <2> QED BY <1>5, <2>1, GotoQuiet, KillQuiet DEF signal_handler, Killed, Quiet
<1>6. CASE EnbReceive \/ EnbClose \/ Ended \/ \E m \in Unsolicited : EnbSend(m)
  BY <1>6 DEF EnbReceive, EnbClose, Ended, EnbSend, vars, Quiet
<1>7. CASE LevelClip \/ ClipLevel \/ SetCharging
  BY <1>7, GotoQuiet DEF LevelClip, ClipLevel, SetCharging
<1> QED BY <1>1, <1>2, <1>3, <1>4, <1>5, <1>6, <1>7 DEF BatteryStep

(* The steps that touch the record of notifications. *)
LEMMA NotifyKeepsNotes ==
  ASSUME TypeOK, NoteInv, NEW t \in Thread, NotifyStep(t) PROVE NoteInv'
<1> USE DEF TypeOK, battery
<1>1. CASE check_battery_status(t)
  BY <1>1, GotoQuiet, QuietKeepsNotes DEF check_battery_status, AfterCheck
<1>2. CASE CheckSent(t)
  <2>1. CASE sent
    BY <1>2, <2>1, GotoQuiet, QuietKeepsNotes DEF CheckSent, AfterCheck
  <2>2. CASE ~sent
    BY <1>2, <2>2 DEF CheckSent, NoteInv, PcOK, Goto
  <2> QED BY <2>1, <2>2
<1>3. CASE SetNotification(t)
  BY <1>3 DEF SetNotification, NoteInv, PcOK, Goto
<1>4. CASE send_battery_notification(t)
  BY <1>4 DEF send_battery_notification, Write, WriteKills, Killed, Kill, Goto, AfterCheck,
              NoteInv, PcOK, BatteryOK
<1>5. CASE NotificationSent(t)
  BY <1>5 DEF NotificationSent, AfterCheck, NoteInv, PcOK, Goto
<1> QED BY <1>1, <1>2, <1>3, <1>4, <1>5 DEF NotifyStep

(* At empty and full the flag and the counters are reset together. *)
LEMMA ResetKeepsNotes == ASSUME NoteInv, ResetSent PROVE NoteInv'
  BY DEF ResetSent, NoteInv

(* Every step preserves the invariant on notifications. *)
LEMMA NoteStep == TypeOK /\ JoinInv /\ NoteInv /\ [Next]_vars => NoteInv'
<1> SUFFICES ASSUME TypeOK, JoinInv, NoteInv, [Next]_vars PROVE NoteInv'
  OBVIOUS
<1>1. CASE UNCHANGED vars
  BY <1>1 DEF vars, battery, NoteInv
<1>2. CASE Next
  <2>1. \/ NotifyStep("main") \/ NotifyStep("battery") \/ ResetSent \/ Quiet
    BY <1>2, MainQuiet, OtherQuiet DEF Next
  <2> QED BY <2>1, NotifyKeepsNotes, ResetKeepsNotes, QuietKeepsNotes DEF Thread
<1> QED BY <1>1, <1>2

(* Neither thread notifies the eNodeB twice before the battery turns, however *)
(* the two unlocked executions of check_battery_status interleave.            *)
THEOREM NotificationsAreSingle == Spec => []OneNotePerThread
<1>1. Init => NoteInv
  BY DEF Init, NoteInv
<1>2. NoteInv => OneNotePerThread
  BY DEF NoteInv, OneNotePerThread
<1> QED BY <1>1, <1>2, NoteStep, TypeCorrect, JoinCorrect, PTL DEF Spec

-----------------------------------------------------------------------------
(* ue_off is the UE's last word: once main() is past send_ue_off_signal the   *)
(* battery thread has been joined and nothing is written any more.            *)
THEOREM UeOffIsLast == Spec => NothingAfterUeOff
<1>1. TypeOK /\ JoinInv /\ [Next]_vars =>
        [pc["main"] \in {"exit", "exited"} => Len(outbox') <= Len(outbox)]_vars
  <2> SUFFICES ASSUME TypeOK, JoinInv, Next, pc["main"] \in {"exit", "exited"}
               PROVE  Len(outbox') <= Len(outbox)
    OBVIOUS
  <2>1. CASE outbox' = outbox
    BY <2>1 DEF TypeOK, LinkOK
  <2>2. CASE EnbReceive
    <3>1. outbox # <<>> /\ outbox' = Tail(outbox)
      BY <2>2 DEF EnbReceive
    <3>2. Len(Tail(outbox)) = Len(outbox) - 1
      BY <3>1, HeadTailProperties DEF TypeOK, LinkOK
    <3> QED BY <3>1, <3>2 DEF TypeOK, LinkOK
  <2>3. CASE EnbClose
    BY <2>3 DEF EnbClose, TypeOK, LinkOK
  <2>4. ~BatteryStep
    <3>1. pc["battery"] \in {"idle", "done"}
      BY DEF JoinInv, Ending
    <3> QED BY <3>1 DEF BatteryStep, check_for_shutdown, NotifyStep, check_battery_status,
          CheckSent, SetNotification, send_battery_notification, NotificationSent,
          update_battery, LevelLoad, LevelStore, LevelClip, ResetSent, ClipLevel, SetCharging
  <2>5. MainStep => Exit
    BY DEF MainStep, init_connection, send_prach_preamble, receive_prach_response,
       send_rrc_connection_request, receive_rrc_setup, send_rrc_setup_complete,
       StartBatteryThread, check_for_shutdown, RecvMessage, Switch, receive_ping, SetPong,
       send_pong, SetReport, send_measurement_report, EndOfIteration, NotifyStep,
       check_battery_status, CheckSent, SetNotification, send_battery_notification,
       NotificationSent, decrease_after_ping, DrainElse, DrainToZero, DrainLoad, DrainStore,
       JoinBatteryThread, send_ue_off_signal
  <2>6. CASE Exit \/ signal_handler \/ Ended \/ \E m \in Unsolicited : EnbSend(m)
    BY <2>1, <2>6 DEF Exit, signal_handler, Ended, EnbSend, vars, link
  <2> QED BY <2>2, <2>3, <2>4, <2>5, <2>6 DEF Next
<1> QED BY <1>1, TypeCorrect, JoinCorrect, PTL DEF Spec, NothingAfterUeOff

-----------------------------------------------------------------------------
(* The steps that write what they find in the shared buffer, and the messages *)
(* that start or end a session.                                               *)
Writing == {"pong_write", "report_write", "note_write"}
Session == {"random_access_request", "rrc_request", "ue_off"}

(* Nobody is about to write the buffer while it holds such a message.         *)
StrayInv == (\E t \in Thread : pc[t] \in Writing) => message \notin Session

(* A step after which the buffer is harmless, or nobody is to write it, or    *)
(* after which it is as before and nobody new is to write it.                 *)
Mild ==
  \/ message' \notin Session
  \/ \A t \in Thread : pc'[t] \notin Writing
  \/ message' = message /\ \A t \in Thread : pc'[t] \in Writing => pc'[t] = pc[t]

(* A thread that goes elsewhere and leaves the buffer alone is mild. *)
LEMMA GotoMild ==
  ASSUME PcOK, NEW t \in Thread, NEW l, Goto(t, l), UNCHANGED message, l \notin Writing
  PROVE  Mild
  BY DEF PcOK, Goto, Mild

(* So is a process that dies. *)
LEMMA KillMild == ASSUME Kill PROVE Mild
  BY DEF Kill, Mild, Writing

(* And a write that goes on elsewhere. *)
LEMMA WriteMild ==
  ASSUME PcOK, NEW t \in Thread, NEW m, NEW ok, NEW failed, Write(t, m, ok, failed),
         UNCHANGED message, ok \notin Writing, failed \notin Writing
  PROVE  Mild
  BY GotoMild, KillMild DEF Write, WriteKills, Killed

(* A request of the handshake is written while there is no battery thread.   *)
LEMMA RequestMild ==
  ASSUME PcOK, JoinInv, pc["main"] \in Handshake, NEW m, NEW ok, NEW failed,
         Write("main", m, ok, failed), ok \notin Writing, failed \notin Writing
  PROVE  Mild
<1>1. CASE Kill
  BY <1>1, KillMild
<1>2. ASSUME NEW l, l \notin Writing, Goto("main", l) PROVE Mild
  <2>1. pc'["main"] = l /\ pc'["battery"] = "idle"
    BY <1>2 DEF PcOK, Goto, Thread, JoinInv
  <2> QED BY <1>2, <2>1 DEF Mild, Thread, Writing
<1> QED BY <1>1, <1>2 DEF Write, WriteKills, Killed

(* check_battery_status in either thread. *)
LEMMA NotifyMild == ASSUME TypeOK, NEW t \in Thread, NotifyStep(t) PROVE Mild
<1> USE DEF TypeOK
<1>0. AfterCheck(t) \notin Writing
  BY DEF AfterCheck, Writing
<1>1. CASE check_battery_status(t)
  BY <1>0, <1>1, GotoMild DEF check_battery_status, Writing
<1>2. CASE CheckSent(t)
  BY <1>0, <1>2, GotoMild DEF CheckSent, Writing
<1>3. CASE SetNotification(t)
  BY <1>3 DEF SetNotification, Mild, Session
<1>4. CASE send_battery_notification(t)
  BY <1>0, <1>4, WriteMild DEF send_battery_notification, Writing
<1>5. CASE NotificationSent(t)
  BY <1>0, <1>5, GotoMild DEF NotificationSent
<1> QED BY <1>1, <1>2, <1>3, <1>4, <1>5 DEF NotifyStep

(* Every step of the main thread is mild: whoever is to write the buffer has  *)
(* just stored a message of its own there, the handshake is over before the   *)
(* battery thread runs, and ue_off is stored after it has been joined.        *)
LEMMA MainMild == ASSUME TypeOK, JoinInv, MainStep PROVE Mild
<1> USE DEF TypeOK
<1> "main" \in Thread
  BY DEF Thread
<1>1. CASE init_connection \/ receive_prach_response \/ receive_rrc_setup
  BY <1>1, GotoMild DEF init_connection, receive_prach_response, receive_rrc_setup, Writing
<1>2. CASE send_prach_preamble \/ send_rrc_connection_request
  BY <1>2, RequestMild DEF send_prach_preamble, send_rrc_connection_request, Handshake, Writing
<1>3. CASE send_rrc_setup_complete
  BY <1>3, WriteMild DEF send_rrc_setup_complete, Writing
<1>4. CASE StartBatteryThread
  BY <1>4 DEF StartBatteryThread, Mild, Writing
<1>5. CASE check_for_shutdown("main")
  BY <1>5, GotoMild DEF check_for_shutdown, Writing
<1>6. CASE RecvMessage
  <2>1. CASE socket = "open" /\ inbox # <<>>
    <3>1. message' \in FromEnb
      BY <1>6, <2>1, InboxType DEF RecvMessage
    <3> QED BY <3>1 DEF Mild, FromEnb, Session
  <2>2. CASE ~(socket = "open" /\ inbox # <<>>)
    BY <1>6, <2>2, GotoMild DEF RecvMessage, Writing
  <2> QED BY <2>1, <2>2
<1>7. CASE Switch
  BY <1>7, GotoMild, KillMild DEF Switch, SwitchTo, Download, Killed, Writing
<1>8. CASE SetPong \/ SetReport \/ EndOfIteration
  BY <1>8 DEF SetPong, SetReport, EndOfIteration, Mild, Session
<1>9. CASE receive_ping \/ decrease_after_ping \/ DrainElse
  BY <1>9, GotoMild DEF receive_ping, decrease_after_ping, DrainElse, battery, Writing
<1>10. CASE send_pong \/ send_measurement_report \/ send_ue_off_signal
  BY <1>10, WriteMild
  DEF send_pong, send_measurement_report, send_ue_off_signal, OnError, Writing
<1>11. CASE DrainToZero \/ DrainLoad \/ DrainStore
  BY <1>11, GotoMild DEF DrainToZero, DrainLoad, DrainStore, Writing
<1>12. CASE JoinBatteryThread
  <2>1. /\ pc'["main"] \in {"off_write", "exit"} /\ pc'["battery"] = "done"
    BY <1>12 DEF JoinBatteryThread, PcOK, Goto, Thread
  <2> QED BY <2>1 DEF Mild, Thread, Writing
<1>13. CASE Exit
  BY <1>13, GotoMild DEF Exit, Writing
<1>14. CASE NotifyStep("main")
  BY <1>14, NotifyMild
<1> QED BY <1>1, <1>2, <1>3, <1>4, <1>5, <1>6, <1>7, <1>8, <1>9, <1>10, <1>11, <1>12, <1>13, <1>14
        DEF MainStep

(* So are the steps of the battery thread, the signal and the eNodeB. *)
LEMMA OtherMild ==
  ASSUME TypeOK, \/ BatteryStep \/ signal_handler \/ EnbReceive \/ EnbClose \/ Ended
                 \/ \E m \in Unsolicited : EnbSend(m)
  PROVE  Mild
<1> USE DEF TypeOK
<1> "battery" \in Thread /\ "main" \in Thread
  BY DEF Thread
<1>1. CASE check_for_shutdown("battery") \/ update_battery
  BY <1>1, GotoMild DEF check_for_shutdown, update_battery, Writing
<1>2. CASE NotifyStep("battery")
  BY <1>2, NotifyMild
<1>3. CASE LevelLoad \/ LevelStore \/ LevelClip \/ ResetSent \/ ClipLevel \/ SetCharging
  BY <1>3, GotoMild DEF LevelLoad, LevelStore, LevelClip, ResetSent, ClipLevel, SetCharging, Writing
<1>4. CASE signal_handler
  <2>1. \A l \in DOMAIN OnError : OnError[l] \notin Writing
    BY DEF OnError, Writing
  <2>2. CASE pc' = pc
    BY <1>4, <2>2 DEF signal_handler, Mild
  <2> QED BY <1>4, <2>1, <2>2, GotoMild, KillMild DEF signal_handler, Killed
<1>5. CASE EnbReceive \/ EnbClose \/ Ended \/ \E m \in Unsolicited : EnbSend(m)
  BY <1>5 DEF EnbReceive, EnbClose, Ended, EnbSend, vars, Mild
<1> QED BY <1>1, <1>2, <1>3, <1>4, <1>5 DEF BatteryStep

(* The threads overwrite each other's messages, but none of them ever writes  *)
(* a session request or ue_off in the place of a pong, a report or a          *)
(* notification, however the main loop, the battery thread, SIGINT and the    *)
(* eNodeB's messages interleave.                                              *)
THEOREM StrayMessagesAreHarmless == Spec => []StrayIsHarmless
<1>1. Init => StrayInv
  BY DEF Init, StrayInv, Writing, Thread
<1>2. TypeOK /\ JoinInv /\ StrayInv /\ [Next]_vars => StrayInv'
  <2>1. ASSUME StrayInv, Mild PROVE StrayInv'
    BY <2>1 DEF StrayInv, Mild
  <2>2. ASSUME UNCHANGED vars PROVE Mild
    BY <2>2 DEF vars, Mild
  <2> QED BY <2>1, <2>2, MainMild, OtherMild DEF Next
<1>3. StrayInv => StrayIsHarmless
  BY DEF StrayInv, StrayIsHarmless, Writing, Session, Thread
<1> QED BY <1>1, <1>2, <1>3, TypeCorrect, JoinCorrect, PTL DEF Spec

=============================================================================
