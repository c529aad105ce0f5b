----------------------------- MODULE KeepAlive -----------------------------
(***************************************************************************)
(* How the eNodeB keeps track of one client in time: the ping thread wakes *)
(* up every second, pings a client that has been silent for longer than    *)
(* its limit and kicks one that has been silent for longer than            *)
(* PING_TIMEOUT; the pongs the client sends back renew last_activity.      *)
(* Threads and descriptors are ENodeB's business, a client's own threads   *)
(* UserEquipment's; this module has their timing.                          *)
(*                                                                         *)
(* Times are whole seconds, as time(NULL) gives them, and relative: `idle' *)
(* is time(NULL) - last_activity.  Between accept_client and               *)
(* handle_random_access_request the fields of a client_t are whatever      *)
(* malloc found, so every comparison with them may go either way.          *)
(***************************************************************************)
EXTENDS Naturals, Sequences

CONSTANTS
  PING_TIME_NORMAL, PING_TIME_LOW_BATTERY, PING_TIMEOUT,
  Period,   \* seconds from one round of the ping thread to the next, at most
  Delay,    \* seconds until a live client's pong to a ping is handled, at most
  MaxLost   \* pings in a row a live client may leave unanswered

Limit == [OK |-> PING_TIME_NORMAL, LOW |-> PING_TIME_LOW_BATTERY]

(* packet_handler.h:10 asks that PING_TIMEOUT "should be bigger than          *)
(* PING_TIME_NORMAL and PING_TIME_LOW_BATTERY".  That is not enough: there   *)
(* has to be time for the pings that may be lost and for one answer.         *)
ASSUME TimingAssumption ==
  /\ PING_TIME_NORMAL \in Nat /\ PING_TIME_LOW_BATTERY \in Nat /\ PING_TIMEOUT \in Nat
  /\ Period \in Nat \ {0} /\ Delay \in Nat /\ MaxLost \in Nat
  /\ \A b \in {"OK", "LOW"} : PING_TIMEOUT + 1 >= Limit[b] + (MaxLost + 2) * Period + Delay

VARIABLES
  client,   \* "away", "accepted", "known" (random access handled), "left", "kicked"
  ue,       \* "live", or "silent": it has gone without closing its connection
  idle,     \* seconds since last_activity, once it is known
  battery,  \* battery_state; "garbage" until it is known
  round,    \* the ping thread: "sleep", "check" (it has pinged), "kick" (it has decided
            \* to kick), "kick_early" (it has decided on a client not known yet)
  slept,    \* seconds since its sleep began
  pings,    \* the ages of the pings a live client has not answered, oldest first
  lost      \* how many in a row it has left unanswered

vars == <<client, ue, idle, battery, round, slept, pings, lost>>

-----------------------------------------------------------------------------
Registered == client \in {"accepted", "known"}
Forget == idle' = 0 /\ battery' = "garbage" /\ pings' = <<>> /\ lost' = 0

accept_client ==
  /\ client = "away" /\ client' = "accepted"
  /\ UNCHANGED <<ue, idle, battery, round, slept, pings, lost>>

BatteryNotSet ==   \* mutant: battery_state is not initialised
  /\ client = "accepted" /\ ue = "live"
  /\ client' = "known" /\ idle' = 0
  /\ UNCHANGED <<ue, battery, round, slept, pings, lost>>

(* update_client_by_ra_rnti_data. *)
handle_random_access_request ==
  /\ client = "accepted" /\ ue = "live"
  /\ client' = "known" /\ idle' = 0 /\ battery' = "OK"
  /\ UNCHANGED <<ue, round, slept, pings, lost>>

(* The client's main loop answers the oldest ping, and handle_pong renews    *)
(* last_activity.                                                            *)
PongIgnored ==   \* mutant: handle_pong does not store the time
  /\ pings # <<>> /\ ue = "live"
  /\ pings' = Tail(pings) /\ lost' = 0
  /\ UNCHANGED <<client, ue, idle, battery, round, slept>>

handle_pong ==
  /\ pings # <<>> /\ ue = "live"
  /\ pings' = Tail(pings) /\ lost' = 0
  /\ idle' = 0
  /\ UNCHANGED <<client, ue, battery, round, slept>>

(* The pong does not come: the client's battery thread has overwritten the   *)
(* shared buffer before it was written (see UserEquipment).                  *)
PongLost ==
  /\ pings # <<>> /\ ue = "live" /\ lost < MaxLost
  /\ pings' = Tail(pings) /\ lost' = lost + 1
  /\ UNCHANGED <<client, ue, idle, battery, round, slept>>

handle_low_battery_request ==
  /\ client = "known" /\ ue = "live" /\ battery' = "LOW"
  /\ UNCHANGED <<client, ue, idle, round, slept, pings, lost>>

handle_high_battery_request ==
  /\ client = "known" /\ ue = "live" /\ battery' = "OK"
  /\ UNCHANGED <<client, ue, idle, round, slept, pings, lost>>

(* ue_off or the end of the stream: the client is closed and deleted. *)
handle_client_power_off ==
  /\ Registered /\ ue = "live" /\ client' = "left"
  /\ Forget /\ UNCHANGED <<ue, round, slept>>

FallSilent ==
  /\ Registered /\ ue = "live" /\ ue' = "silent"
  /\ pings' = <<>> /\ lost' = 0
  /\ UNCHANGED <<client, idle, battery, round, slept>>

-----------------------------------------------------------------------------
(* ping_and_timeout_in_thread: sleep(1), the iteration that pings, the       *)
(* iteration that kicks.  A ping is kept only if a pong may answer it: not   *)
(* one sent to a silent client, nor one sent by chance before the random     *)
(* access, which the client takes for the response and gives up.             *)
SendPing == pings' = IF ue = "live" THEN Append(pings, 0) ELSE pings

PingAtOnce ==   \* mutant: the thread does not sleep
  /\ round = "sleep"
  /\ round' = "check"
  /\ \/ client = "known" /\ idle > Limit[battery] /\ SendPing
     \/ client = "known" /\ idle <= Limit[battery] /\ UNCHANGED pings
     \/ client # "known" /\ UNCHANGED pings
  /\ UNCHANGED <<client, ue, idle, battery, slept, lost>>

ping_client ==
  /\ round = "sleep" /\ slept >= 1
  /\ round' = "check"
  /\ \/ client = "known" /\ idle > Limit[battery] /\ SendPing
     \/ client = "known" /\ idle <= Limit[battery] /\ UNCHANGED pings
     \/ client # "known" /\ UNCHANGED pings
  /\ UNCHANGED <<client, ue, idle, battery, slept, lost>>

(* The iteration that kicks.  Its callback reads last_activity, writes to the *)
(* log and only then closes and deletes: the handlers run in between.        *)
KickNormalOnly ==   \* mutant: a client on low battery is let off
  /\ round = "check"
  /\ \/ /\ client = "known" /\ battery = "OK" /\ idle > PING_TIMEOUT
        /\ round' = "kick" /\ UNCHANGED slept
     \/ client = "accepted" /\ round' = "kick_early" /\ UNCHANGED slept
     \/ /\ client = "known" => idle <= PING_TIMEOUT \/ battery = "LOW"
        /\ round' = "sleep" /\ slept' = 0
  /\ UNCHANGED <<client, ue, idle, battery, pings, lost>>

handle_client_inactivity ==
  /\ round = "check"
  /\ \/ client = "known" /\ idle > PING_TIMEOUT /\ round' = "kick" /\ UNCHANGED slept
     \/ client = "accepted" /\ round' = "kick_early" /\ UNCHANGED slept
     \/ /\ client = "known" => idle <= PING_TIMEOUT
        /\ round' = "sleep" /\ slept' = 0
  /\ UNCHANGED <<client, ue, idle, battery, pings, lost>>

Kick ==
  /\ round \in {"kick", "kick_early"}
  /\ round' = "sleep" /\ slept' = 0
  /\ \/ Registered /\ client' = "kicked" /\ Forget
     \/ ~Registered /\ UNCHANGED <<client, idle, battery, pings, lost>>
  /\ UNCHANGED ue

(* A second passes; the ping thread and a live client meet their deadlines.  *)
(* What is beyond the timeout stays there: idle counts no further.           *)
MaxIdle == PING_TIMEOUT + 1

Tick ==
  /\ slept < Period
  /\ \A i \in DOMAIN pings : pings[i] < Delay
  /\ slept' = slept + 1
  /\ pings' = [i \in DOMAIN pings |-> pings[i] + 1]
  /\ idle' = IF client = "known" /\ idle < MaxIdle THEN idle + 1 ELSE idle
  /\ UNCHANGED <<client, ue, battery, round, lost>>

-----------------------------------------------------------------------------
Init ==
  /\ client = "away" /\ ue = "live" /\ idle = 0 /\ battery = "garbage"
  /\ round = "sleep" /\ slept = 0 /\ pings = <<>> /\ lost = 0

Next ==
  \/ accept_client \/ handle_random_access_request \/ handle_pong \/ PongLost
  \/ handle_low_battery_request \/ handle_high_battery_request
  \/ handle_client_power_off \/ FallSilent
  \/ ping_client \/ handle_client_inactivity \/ Kick \/ Tick

Spec == Init /\ [][Next]_vars

(* Time passes, and the ping thread runs. *)
FairSpec ==
  /\ Spec
  /\ WF_vars(Tick) /\ WF_vars(ping_client) /\ WF_vars(handle_client_inactivity) /\ WF_vars(Kick)

-----------------------------------------------------------------------------
TypeOK ==
  /\ client \in {"away", "accepted", "known", "left", "kicked"} /\ ue \in {"live", "silent"}
  /\ idle \in 0..MaxIdle /\ battery \in {"OK", "LOW", "garbage"}
  /\ client = "known" => battery # "garbage"
  /\ round \in {"sleep", "check", "kick", "kick_early"} /\ slept \in 0..Period
  /\ pings \in Seq(0..Delay) /\ lost \in 0..MaxLost

(* A client that answers is not kicked for being silent, although single     *)
(* pongs may be lost and its pings are only sent once it has been idle: when *)
(* one is closed and deleted after its random access was handled, the round  *)
(* had read its last_activity before, while it held what malloc found there. *)
(* That kick the code does carry out; no other.                              *)
LiveIsKept ==
  [][client = "known" /\ ue = "live" /\ client' = "kicked" => round = "kick_early"]_vars

(* Pings pile up on a live client no faster than it answers them: since the  *)
(* thread pings again every round until a pong is handled, more than one may *)
(* be under way, but never more than the seconds an answer may take.         *)
PingsBounded == Len(pings) <= Delay + 1

(* A client that has gone without closing its connection is kicked, no       *)
(* matter in which state the ping thread was when it went.                   *)
SilentIsKicked == client = "known" /\ ue = "silent" ~> client = "kicked"
=============================================================================
