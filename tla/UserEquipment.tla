--------------------------- MODULE UserEquipment ---------------------------
(***************************************************************************)
(* The UE program (clientLTE/): the main thread, which performs the random *)
(* access and RRC handshake and then polls the socket, and the battery     *)
(* thread.  The two share the buffer `message', the battery record and the *)
(* socket.  lock[0] is taken by the battery thread alone and lock[1] by    *)
(* nobody, so neither lock ever excludes anything and both are left out.   *)
(*                                                                         *)
(* A step ends before every store to memory the threads share and before   *)
(* every system call, and wherever a value read may be stale when it is    *)
(* used: between the test of the battery's level and the test of           *)
(* sent_notification, between two conditions on the level, and between the *)
(* load and the store of the level.                                        *)
(* A message is its type: the payload plays no part in this component      *)
(* (the RAPID that is echoed by the eNodeB always matches; the downloaded  *)
(* bytes and the radio measurements do not steer control).                 *)
(***************************************************************************)
EXTENDS Integers, Sequences

CONSTANTS
  FULL,       \* power_percentage of a full battery (100)
  STEP,       \* change per second in update_battery (12)
  DRAIN,      \* decrase_amount of decrease_after_ping (2)
  THRESHOLD,  \* low_battery_threshold (20)
  Width,      \* number of values of int8_t, the type of power_percentage (256)
  Capacity,   \* messages a socket buffer holds in each direction
  Unsolicited \* what the eNodeB sends without being asked

(* The battery's figures are positive, and one regular step from a legal   *)
(* level stays inside the type.                                            *)
ASSUME BatteryAssumption ==
  /\ FULL \in Nat \ {0} /\ STEP \in Nat \ {0} /\ DRAIN \in Nat \ {0}
  /\ THRESHOLD \in 0..FULL
  /\ Width \in Nat /\ Width % 2 = 0 /\ FULL + STEP < Width \div 2
ASSUME LinkAssumption ==
  /\ Capacity \in Nat \ {0}
  /\ Unsolicited \subseteq {"ping", "enb_off", "measurement_control_request",
                            "data_start", "data", "data_end"}

VARIABLES
  pc,        \* pc[t]: the next step of thread t
  running,   \* cleared by signal_handler
  socket,    \* socket_fd: "none", "open" or "closed"
  message,   \* message.message_type of the shared buffer; "none" is -1
  received,  \* received.message_type, written during the handshake only
  file,      \* file_to_recv: "garbage" (never assigned), "open" or "closed"
  power, low, charging, sent,   \* the fields of battery
  tmp,       \* tmp[t]: the level thread t has loaded and will store
  inbox,     \* messages on their way from the eNodeB
  outbox,    \* messages on their way to the eNodeB
  peer,      \* the eNodeB's end: "up", "closed", "reset" (it answered RST)
  xfer,      \* what the eNodeB has sent of its file: "none", "started", "ended"
  notes,     \* history: notes[t] counts the battery notifications thread t
             \* has written since the battery last turned (sent was reset)
  told       \* history: the UE has read enb_off from its socket

battery == <<power, low, charging, sent, notes>>
link    == <<inbox, outbox, peer, xfer>>
vars    == <<pc, running, socket, message, received, file, battery, tmp, link, told>>

-----------------------------------------------------------------------------
Thread == {"main", "battery"}

FromEnb == {"random_access_response", "rrc_setup", "ping", "enb_off",
            "measurement_control_request", "data_start", "data", "data_end"}
FromUe  == {"random_access_request", "rrc_request", "rrc_complete", "pong",
            "ue_battery_low", "ue_battery_high", "measurement_report", "ue_off"}
Message == FromEnb \cup FromUe \cup {"none"}

Handshake == {"connect", "preamble", "prach_response", "rrc_request",
              "rrc_setup", "rrc_complete", "create"}
Notify    == {"check", "is_low", "is_high", "low", "high", "note_write", "note_sent"}
MainLoop  == {"loop", "recv", "switch", "ping", "pong", "pong_write",
              "drain", "drain_else", "drain_zero", "drain_load", "drain_store",
              "report", "report_write", "end"}
Ending    == {"off_write", "exit", "exited"}
MainPc    == Handshake \cup Notify \cup MainLoop \cup Ending \cup {"join", "killed"}
Turn      == {"empty", "empty_level", "empty_charging",
              "full", "full_level", "full_charging"}
BatteryPc == Notify \cup Turn \cup {"idle", "loop", "tick", "load", "store", "clip",
                                    "clip_full", "done", "killed"}
Level     == -(Width \div 2) .. (Width \div 2 - 1)

(* What a stored level becomes: power_percentage is an int8_t. *)
Int8(x) == ((x + Width \div 2) % Width) - Width \div 2

Goto(t, l) == pc' = [pc EXCEPT ![t] = l]
Alive      == pc["main"] \notin {"exited", "killed"}
Kill       == pc' = [t \in Thread |-> "killed"]
Killed     == Kill /\ socket' = "closed"

(***************************************************************************)
(* write(socket_fd, m): blocks while the buffer is full; the first write   *)
(* after the eNodeB has gone is answered by RST; a write after an RST      *)
(* returns -1 if it is the first to report it, and otherwise raises        *)
(* SIGPIPE, which nobody handles; on a closed socket write returns -1.     *)
(***************************************************************************)
WriteOk(m) ==
  /\ socket = "open"
  /\ \/ peer = "up" /\ Len(outbox) < Capacity
        /\ outbox' = Append(outbox, m) /\ peer' = peer
     \/ peer = "closed" /\ peer' = "reset" /\ outbox' = outbox
  /\ UNCHANGED <<socket, inbox, xfer>>

WriteFails == /\ socket = "closed" \/ (socket = "open" /\ peer = "reset")
              /\ UNCHANGED <<socket, link>>
WriteKills == socket = "open" /\ peer = "reset" /\ Killed /\ UNCHANGED link

(* A write of m by thread t that goes on at ok, or at failed on -1. *)
Write(t, m, ok, failed) ==
  \/ WriteOk(m) /\ Goto(t, ok)
  \/ WriteFails /\ Goto(t, failed)
  \/ WriteKills

(* Where the main thread goes on when one of its writes returns -1. *)
OnError == [pong_write |-> "end", report_write |-> "end",
            note_write |-> "drain", off_write |-> "exit"]

-----------------------------------------------------------------------------
(* The handshake, by the main thread alone. *)

init_connection ==
  /\ pc["main"] = "connect"
  /\ \/ socket' = "open" /\ Goto("main", "preamble")
     \/ socket' = socket /\ Goto("main", "exit")
  /\ UNCHANGED <<running, message, received, file, battery, tmp, link, told>>

send_prach_preamble ==
  /\ pc["main"] = "preamble"
  /\ message' = "random_access_request"
  /\ Write("main", message', "prach_response", "exit")
  /\ UNCHANGED <<running, received, file, battery, tmp, told>>

(* A blocking recv that takes the next message, or sees the end of the     *)
(* stream, which leaves the buffer as it was.                              *)
RecvHandshake ==
  \/ /\ inbox # <<>>
     /\ received' = Head(inbox) /\ inbox' = Tail(inbox)
     /\ told' = (told \/ Head(inbox) = "enb_off")
  \/ /\ inbox = <<>> /\ peer # "up"
     /\ UNCHANGED <<received, inbox, told>>

receive_prach_response ==
  /\ pc["main"] = "prach_response"
  /\ RecvHandshake
  /\ Goto("main", IF received' = "random_access_response" THEN "rrc_request"
                                                          ELSE "exit")
  /\ UNCHANGED <<running, socket, message, file, battery, tmp, outbox, peer, xfer>>

send_rrc_connection_request ==
  /\ pc["main"] = "rrc_request"
  /\ message' = "rrc_request"
  /\ Write("main", message', "rrc_setup", "exit")
  /\ UNCHANGED <<running, received, file, battery, tmp, told>>

(* main() ignores what receive_rrc_setup returns: whatever message came, the *)
(* program goes on; only rrc_setup is answered.                              *)
receive_rrc_setup ==
  /\ pc["main"] = "rrc_setup"
  /\ RecvHandshake
  /\ Goto("main", IF received' = "rrc_setup" THEN "rrc_complete" ELSE "create")
  /\ UNCHANGED <<running, socket, message, file, battery, tmp, outbox, peer, xfer>>

send_rrc_setup_complete ==
  /\ pc["main"] = "rrc_complete"
  /\ received' = "rrc_complete"
  /\ Write("main", received', "create", "create")
  /\ UNCHANGED <<running, message, file, battery, tmp, told>>

(* sigaction and pthread_create. *)
StartBatteryThread ==
  /\ pc["main"] = "create"
  /\ pc' = [t \in Thread |-> "loop"]
  /\ UNCHANGED <<running, socket, message, received, file, battery, tmp, link, told>>

(* SIGINT: fatal until the handler is installed; the handler clears running, *)
(* and a blocked write it interrupts returns -1 (no SA_RESTART).             *)
signal_handler ==
  /\ Alive
  /\ \/ /\ pc["main"] \in Handshake
        /\ Killed /\ UNCHANGED running
     \/ /\ pc["main"] \notin Handshake
        /\ running' = FALSE
        /\ IF pc["main"] \in DOMAIN OnError /\ peer = "up" /\ Len(outbox) = Capacity
           THEN Goto("main", OnError[pc["main"]])
           ELSE UNCHANGED pc
        /\ UNCHANGED socket
  /\ UNCHANGED <<message, received, file, battery, tmp, link, told>>

-----------------------------------------------------------------------------
(* while (running && !check_for_shutdown(socket_fd, &received)), by either   *)
(* thread; check_for_shutdown closes the socket when it returns true.        *)
LoopOnFlagOfMain(t) ==   \* mutant: the battery thread's loop ignores running
  /\ pc[t] = "loop"
  /\ Goto(t, IF t = "main" THEN IF running THEN "recv" ELSE "join" ELSE "check")
  /\ UNCHANGED <<running, socket, message, received, file, battery, tmp, link, told>>

LoopOnFlagOnly(t) ==     \* mutant: the loops do not call check_for_shutdown
  /\ pc[t] = "loop"
  /\ Goto(t, IF t = "main" THEN IF running THEN "recv" ELSE "join"
                           ELSE IF running THEN "check" ELSE "done")
  /\ UNCHANGED <<running, socket, message, received, file, battery, tmp, link, told>>

check_for_shutdown(t) ==
  /\ pc[t] = "loop"
  /\ IF running /\ received # "enb_off"
     THEN Goto(t, IF t = "main" THEN "recv" ELSE "check")
     ELSE Goto(t, IF t = "main" THEN "join" ELSE "done")
  /\ socket' = IF running /\ received = "enb_off" THEN "closed" ELSE socket
  /\ UNCHANGED <<running, message, received, file, battery, tmp, link, told>>

(* recv with MSG_DONTWAIT, its result ignored. *)
RecvMessage ==
  /\ pc["main"] = "recv"
  /\ IF socket = "open" /\ inbox # <<>>
     THEN /\ message' = Head(inbox) /\ inbox' = Tail(inbox)
          /\ told' = (told \/ Head(inbox) = "enb_off")
     ELSE UNCHANGED <<message, inbox, told>>
  /\ Goto("main", "switch")
  /\ UNCHANGED <<running, socket, received, file, battery, tmp, outbox, peer, xfer>>

(* switch (message.message_type).  Writing through or closing a FILE pointer *)
(* that is not open is undefined: the process dies or carries on.            *)
SwitchTo(l) == Goto("main", l) /\ UNCHANGED <<socket, file>>
Download ==
  \/ /\ message = "data_start"
     /\ file' = "open" /\ Goto("main", "end") /\ UNCHANGED socket
  \/ /\ message = "data"
     /\ SwitchTo("end")
  \/ /\ message = "data_end"
     /\ file' = "closed" /\ Goto("main", "end") /\ UNCHANGED socket
  \/ /\ message \in {"data", "data_end"} /\ file # "open"
     /\ Killed /\ UNCHANGED file
Switch ==
  /\ pc["main"] = "switch"
  /\ \/ message = "ping" /\ SwitchTo("ping")
     \/ message = "measurement_control_request" /\ SwitchTo("report")
     \/ Download
     \/ /\ message \notin {"ping", "measurement_control_request",
                           "data_start", "data", "data_end"}
        /\ SwitchTo("end")
  /\ UNCHANGED <<running, message, received, battery, tmp, link, told>>

(* receive_ping reads the shared type again. *)
receive_ping ==
  /\ pc["main"] = "ping"
  /\ Goto("main", IF message = "ping" THEN "pong" ELSE "end")
  /\ UNCHANGED <<running, socket, message, received, file, battery, tmp, link, told>>

SetPong ==
  /\ pc["main"] = "pong"
  /\ message' = "pong" /\ Goto("main", "pong_write")
  /\ UNCHANGED <<running, socket, received, file, battery, tmp, link, told>>

(* The second half of send_pong: it writes what the buffer holds by now. *)
send_pong ==
  /\ pc["main"] = "pong_write"
  /\ Write("main", message, "check", OnError.pong_write)
  /\ UNCHANGED <<running, message, received, file, battery, tmp, told>>

SetReport ==
  /\ pc["main"] = "report"
  /\ message' = "measurement_report" /\ Goto("main", "report_write")
  /\ UNCHANGED <<running, socket, received, file, battery, tmp, link, told>>

send_measurement_report ==
  /\ pc["main"] = "report_write"
  /\ Write("main", message, "end", OnError.report_write)
  /\ UNCHANGED <<running, message, received, file, battery, tmp, told>>

(* message.message_type = -1 at the foot of the loop (after                  *)
(* set_current_signal_event, which touches only the main thread's cells).    *)
EndOfIteration ==
  /\ pc["main"] = "end"
  /\ message' = "none" /\ Goto("main", "loop")
  /\ UNCHANGED <<running, socket, received, file, battery, tmp, link, told>>

-----------------------------------------------------------------------------
(* check_battery_status, called by update_battery with STEP and by           *)
(* decrease_after_ping with DRAIN; the latter holds no lock.                 *)
Window(t) == IF t = "main" THEN DRAIN ELSE STEP
AfterCheck(t) == IF t = "main" THEN "drain" ELSE "tick"

check_battery_status(t) ==
  /\ pc[t] = "check"
  /\ LET w == Window(t)
         isLow  == power <= THRESHOLD /\ THRESHOLD - w < power /\ ~charging
         isHigh == power >= THRESHOLD /\ THRESHOLD + w > power /\ charging
     IN Goto(t, IF isLow THEN "is_low" ELSE IF isHigh THEN "is_high" ELSE AfterCheck(t))
  /\ UNCHANGED <<running, socket, message, received, file, battery, tmp, link, told>>

(* The branch taken: power_is_low is set, and sent_notification is read. *)
CheckSent(t) ==
  /\ pc[t] \in {"is_low", "is_high"}
  /\ low' = (pc[t] = "is_low")
  /\ Goto(t, IF sent THEN AfterCheck(t) ELSE IF low' THEN "low" ELSE "high")
  /\ UNCHANGED <<running, socket, message, received, file, power, charging, sent,
                 notes, tmp, link, told>>

SetNotification(t) ==
  /\ pc[t] \in {"low", "high"}
  /\ message' = IF pc[t] = "low" THEN "ue_battery_low" ELSE "ue_battery_high"
  /\ Goto(t, "note_write")
  /\ UNCHANGED <<running, socket, received, file, battery, tmp, link, told>>

(* The second half of send_low_battery_notification and                      *)
(* send_high_battery_notification.                                           *)
send_battery_notification(t) ==
  /\ pc[t] = "note_write"
  /\ Write(t, message, "note_sent", AfterCheck(t))
  /\ notes' = IF pc'[t] = "note_sent" THEN [notes EXCEPT ![t] = @ + 1] ELSE notes
  /\ UNCHANGED <<running, message, received, file, power, low, charging, sent, tmp, told>>

NotificationForgotten(t) ==   \* mutant: sent_notification is not set
  /\ pc[t] = "note_sent"
  /\ Goto(t, AfterCheck(t))
  /\ UNCHANGED <<running, socket, message, received, file, battery, tmp, link, told>>

NotificationSent(t) ==
  /\ pc[t] = "note_sent"
  /\ sent' = TRUE /\ Goto(t, AfterCheck(t))
  /\ UNCHANGED <<running, socket, message, received, file, power, low, charging,
                 notes, tmp, link, told>>

(* decrease_after_ping, after its check_battery_status: the level is read for *)
(* the first condition and again for the second, which may then fail as well. *)
decrease_after_ping ==
  /\ pc["main"] = "drain"
  /\ Goto("main", IF power - DRAIN < 0 THEN "drain_zero" ELSE "drain_else")
  /\ UNCHANGED <<running, socket, message, received, file, battery, tmp, link, told>>

DrainElse ==
  /\ pc["main"] = "drain_else"
  /\ Goto("main", IF power # 0 /\ power - DRAIN >= 0 THEN "drain_load" ELSE "end")
  /\ UNCHANGED <<running, socket, message, received, file, battery, tmp, link, told>>

DrainToZero ==
  /\ pc["main"] = "drain_zero"
  /\ power' = 0 /\ Goto("main", "end")
  /\ UNCHANGED <<running, socket, message, received, file, low, charging, sent, notes,
                 tmp, link, told>>

DrainLoad ==
  /\ pc["main"] = "drain_load"
  /\ tmp' = [tmp EXCEPT !["main"] = power - DRAIN] /\ Goto("main", "drain_store")
  /\ UNCHANGED <<running, socket, message, received, file, battery, link, told>>

DrainStore ==
  /\ pc["main"] = "drain_store"
  /\ power' = Int8(tmp["main"])
  /\ tmp' = [tmp EXCEPT !["main"] = 0] /\ Goto("main", "end")
  /\ UNCHANGED <<running, socket, message, received, file, low, charging, sent, notes,
                 link, told>>

-----------------------------------------------------------------------------
(* update_battery, after its check_battery_status: a second has passed since *)
(* starting_time, or not.                                                    *)
update_battery ==
  /\ pc["battery"] = "tick"
  /\ Goto("battery", "load") \/ Goto("battery", "clip")
  /\ UNCHANGED <<running, socket, message, received, file, battery, tmp, link, told>>

LevelLoad ==
  /\ pc["battery"] = "load"
  /\ tmp' = [tmp EXCEPT !["battery"] = IF charging THEN power + STEP ELSE power - STEP]
  /\ Goto("battery", "store")
  /\ UNCHANGED <<running, socket, message, received, file, battery, link, told>>

LevelStoreWide ==   \* mutant: power_percentage is not an int8_t
  /\ pc["battery"] = "store"
  /\ power' = tmp["battery"]
  /\ tmp' = [tmp EXCEPT !["battery"] = 0] /\ Goto("battery", "clip")
  /\ UNCHANGED <<running, socket, message, received, file, low, charging, sent, notes,
                 link, told>>

LevelStore ==
  /\ pc["battery"] = "store"
  /\ power' = Int8(tmp["battery"])
  /\ tmp' = [tmp EXCEPT !["battery"] = 0] /\ Goto("battery", "clip")
  /\ UNCHANGED <<running, socket, message, received, file, low, charging, sent, notes,
                 link, told>>

(* Is the battery empty, and if not, is it full?  Two reads of the level. *)
LevelClip ==
  /\ pc["battery"] \in {"clip", "clip_full"}
  /\ Goto("battery", IF pc["battery"] = "clip"
                     THEN IF power <= 0 THEN "empty" ELSE "clip_full"
                     ELSE IF power >= FULL THEN "full" ELSE "loop")
  /\ UNCHANGED <<running, socket, message, received, file, battery, tmp, link, told>>

(* The battery turns at empty and at full, in three stores. *)
ResetSent ==
  /\ pc["battery"] \in {"empty", "full"}
  /\ sent' = FALSE /\ notes' = [t \in Thread |-> 0]
  /\ Goto("battery", IF pc["battery"] = "empty" THEN "empty_level" ELSE "full_level")
  /\ UNCHANGED <<running, socket, message, received, file, power, low, charging, tmp,
                 link, told>>

ClipLevel ==
  /\ pc["battery"] \in {"empty_level", "full_level"}
  /\ IF pc["battery"] = "empty_level"
     THEN power' = 0 /\ Goto("battery", "empty_charging")
     ELSE power' = FULL /\ Goto("battery", "full_charging")
  /\ UNCHANGED <<running, socket, message, received, file, low, charging, sent, notes,
                 tmp, link, told>>

SetCharging ==
  /\ pc["battery"] \in {"empty_charging", "full_charging"}
  /\ charging' = (pc["battery"] = "empty_charging") /\ Goto("battery", "loop")
  /\ UNCHANGED <<running, socket, message, received, file, power, low, sent, notes,
                 tmp, link, told>>

-----------------------------------------------------------------------------
(* After the loop: pthread_join, then ue_off unless the buffer says enb_off. *)
NoJoin ==   \* mutant: the main thread does not wait for the battery thread
  /\ pc["main"] = "join"
  /\ message' = "ue_off" /\ Goto("main", "off_write")
  /\ UNCHANGED <<running, socket, received, file, battery, tmp, link, told>>

JoinBatteryThread ==
  /\ pc["main"] = "join"
  /\ pc["battery"] = "done"
  /\ IF message # "enb_off"
     THEN message' = "ue_off" /\ Goto("main", "off_write")
     ELSE message' = message /\ Goto("main", "exit")
  /\ UNCHANGED <<running, socket, received, file, battery, tmp, link, told>>

send_ue_off_signal ==
  /\ pc["main"] = "off_write"
  /\ Write("main", message, "exit", OnError.off_write)
  /\ UNCHANGED <<running, message, received, file, battery, tmp, told>>

(* return from main: the kernel closes the socket. *)
Exit ==
  /\ pc["main"] = "exit"
  /\ socket' = "closed" /\ Goto("main", "exited")
  /\ UNCHANGED <<running, message, received, file, battery, tmp, link, told>>

-----------------------------------------------------------------------------
(* The eNodeB as this UE sees it: parse_packet answers requests, closes on   *)
(* ue_off and only takes note of the rest; its other threads may send at any *)
(* time once the connection is accepted; it may close or exit at any time.   *)
(* An answer always finds room: the real buffers hold thousands of messages. *)
EnbReceive ==
  /\ Alive /\ peer = "up" /\ outbox # <<>>
  /\ outbox' = Tail(outbox)
  /\ LET m == Head(outbox)
         Reply(r) == inbox' = Append(inbox, r) /\ peer' = peer
     IN \/ m = "random_access_request" /\ Reply("random_access_response")
        \/ m = "rrc_request" /\ Reply("rrc_setup")
        \/ m = "ue_off" /\ peer' = "closed" /\ inbox' = inbox
        \/ /\ m \notin {"random_access_request", "rrc_request", "ue_off"}
           /\ UNCHANGED <<inbox, peer>>
  /\ UNCHANGED <<pc, running, socket, message, received, file, battery, tmp, xfer, told>>

EnbSend(m) ==
  /\ Alive /\ socket = "open" /\ peer = "up" /\ Len(inbox) < Capacity
  /\ \/ m \in {"ping", "measurement_control_request", "enb_off"} /\ xfer' = xfer
     \/ m = "data_start" /\ xfer = "none" /\ xfer' = "started"
     \/ m = "data" /\ xfer = "started" /\ xfer' = xfer
     \/ m = "data_end" /\ xfer = "started" /\ xfer' = "ended"
  /\ inbox' = Append(inbox, m)
  /\ UNCHANGED <<pc, running, socket, message, received, file, battery, tmp, outbox, peer, told>>

(* Closing with unread messages makes TCP answer RST at once. *)
EnbClose ==
  /\ Alive /\ socket = "open" /\ peer = "up"
  /\ peer' = IF outbox = <<>> THEN "closed" ELSE "reset"
  /\ outbox' = <<>>
  /\ UNCHANGED <<pc, running, socket, message, received, file, battery, tmp, inbox, xfer, told>>

-----------------------------------------------------------------------------
Init ==
  /\ pc = [main |-> "connect", battery |-> "idle"]
  /\ running = TRUE /\ socket = "none"
  /\ message = "random_access_request" /\ received = "random_access_request"
  /\ file = "garbage"
  /\ power = FULL /\ low = FALSE /\ charging = FALSE /\ sent = FALSE
  /\ tmp = [t \in Thread |-> 0] /\ notes = [t \in Thread |-> 0]
  /\ inbox = <<>> /\ outbox = <<>> /\ peer = "up" /\ xfer = "none" /\ told = FALSE

NotifyStep(t) == \/ check_battery_status(t) \/ CheckSent(t) \/ SetNotification(t)
                 \/ send_battery_notification(t) \/ NotificationSent(t)

MainStep ==
  \/ init_connection \/ send_prach_preamble \/ receive_prach_response
  \/ send_rrc_connection_request \/ receive_rrc_setup \/ send_rrc_setup_complete
  \/ StartBatteryThread \/ check_for_shutdown("main") \/ RecvMessage \/ Switch
  \/ receive_ping \/ SetPong \/ send_pong \/ SetReport \/ send_measurement_report
  \/ EndOfIteration \/ NotifyStep("main") \/ decrease_after_ping \/ DrainElse
  \/ DrainToZero \/ DrainLoad \/ DrainStore \/ JoinBatteryThread \/ send_ue_off_signal \/ Exit

BatteryStep ==
  \/ check_for_shutdown("battery") \/ NotifyStep("battery") \/ update_battery
  \/ LevelLoad \/ LevelStore \/ LevelClip \/ ResetSent \/ ClipLevel \/ SetCharging

(* The program has ended. *)
Ended == ~Alive /\ UNCHANGED vars

Next ==
  \/ MainStep \/ BatteryStep \/ signal_handler
  \/ EnbReceive \/ EnbClose \/ (\E m \in Unsolicited : EnbSend(m))
  \/ Ended

Spec == Init /\ [][Next]_vars

(* Both threads are runnable whenever they are not blocked in a call, and    *)
(* the eNodeB's epoll loop keeps reading its sockets.                        *)
FairSpec == Spec /\ WF_vars(MainStep) /\ WF_vars(BatteryStep) /\ WF_vars(EnbReceive)

-----------------------------------------------------------------------------
PcOK   == /\ pc \in [Thread -> MainPc \cup BatteryPc]
          /\ pc["main"] \in MainPc /\ pc["battery"] \in BatteryPc
DataOK == /\ running \in BOOLEAN /\ told \in BOOLEAN
          /\ message \in Message /\ received \in Message
          /\ file \in {"garbage", "open", "closed"}
BatteryOK == /\ power \in Level /\ low \in BOOLEAN /\ charging \in BOOLEAN
             /\ sent \in BOOLEAN
             /\ tmp \in [Thread -> Int] /\ notes \in [Thread -> Nat]
LinkOK == /\ socket \in {"none", "open", "closed"}
          /\ inbox \in Seq(FromEnb)
          /\ outbox \in Seq(Message) /\ Len(outbox) <= Capacity
          /\ peer \in {"up", "closed", "reset"} /\ xfer \in {"none", "started", "ended"}
TypeOK == PcOK /\ DataOK /\ BatteryOK /\ LinkOK

(* What keeps a thread to one notification: one it has written is on record  *)
(* in sent_notification, or is about to be, and no thread is on its way to   *)
(* write one having already written one.                                     *)
NoteInv ==
  \A t \in Thread :
    /\ notes[t] = 0 \/ (notes[t] = 1 /\ (sent \/ pc[t] \in {"note_sent", "killed"}))
    /\ pc[t] \in {"low", "high", "note_write"} => notes[t] = 0

(* The battery thread runs only between pthread_create and pthread_join.     *)
JoinInv ==
  /\ pc["main"] \in Handshake => pc["battery"] = "idle"
  /\ pc["main"] \in Ending => pc["battery"] \in {"idle", "done"}

(* No thread writes a second battery notification before the battery turns:  *)
(* although check_battery_status runs in both threads without mutual         *)
(* exclusion, sent_notification keeps each of them to one per half cycle.    *)
OneNotePerThread == \A t \in Thread : notes[t] <= 1

(* ue_off is the last thing a UE says: once send_ue_off_signal has returned  *)
(* nothing is written any more, by either thread.                            *)
NothingAfterUeOff ==
  [][pc["main"] \in {"exit", "exited"} => Len(outbox') <= Len(outbox)]_vars

(* The threads overwrite each other's messages in the shared buffer, but what *)
(* then goes out in place of a pong, a report or a notification is never one  *)
(* that starts or ends a session: the eNodeB would answer a stray request, or *)
(* close the connection on a stray ue_off.                                    *)
StrayIsHarmless ==
  pc["main"] \in {"pong_write", "report_write", "note_write"}
      \/ pc["battery"] = "note_write" =>
    message \notin {"random_access_request", "rrc_request", "ue_off"}

(* After SIGINT has cleared running the program ends: both loops notice,     *)
(* the join returns and no thread is left in a blocking call.                *)
SigintEnds == ~running ~> ~Alive

(* An enb_off that arrives in place of a handshake answer ends the program:  *)
(* check_for_shutdown sees it in both threads.                               *)
EarlyEnbOffEnds == received = "enb_off" ~> ~Alive

(* main.c, above the loop: "While running and have not received eNodeB       *)
(* shutdown message": having read enb_off the main thread reads no more.     *)
StopsAfterEnbOff == told => pc["main"] # "recv"

(* handle_messages.h and user_equipment.h: send_pong "sends ping complete    *)
(* (answer) to eNodeB", send_low_battery_notification and its counterpart    *)
(* send "notification to eNodeB": what a send function writes is the message *)
(* it has put into the buffer.                                               *)
SendsItsOwnMessage ==
  /\ pc["main"] = "pong_write" => message = "pong"
  /\ \A t \in Thread : pc[t] = "note_write" =>
                            message \in {"ue_battery_low", "ue_battery_high"}

(* user_equipment.h on check_battery_status: "Depends if it's low or high it *)
(* sends alert to eNodeB": a battery that update_battery finds empty has been *)
(* announced, by either thread.                                              *)
LowIsNotified ==
  pc["battery"] = "empty" /\ ~charging /\ socket = "open" /\ peer = "up" =>
    \E t \in Thread : notes[t] > 0

=============================================================================
