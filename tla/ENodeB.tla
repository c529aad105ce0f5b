------------------------------- MODULE ENodeB -------------------------------
(***************************************************************************)
(* The eNodeB program (serverLTE/): the main thread with its epoll loop    *)
(* and the ping, measurement and transfer threads, which share the map of  *)
(* clients without a lock.                                                 *)
(*                                                                         *)
(* A client_t is named by the connection it was made for.  The map is a    *)
(* dictionary from descriptors to clients (what HashMap shows it to be for *)
(* one thread); where an entry lies and which one follows it in its bucket *)
(* may be anything.  Time is abstract: a client may be due for a ping or   *)
(* for a kick whenever it is looked at.  A send never blocks.  A step ends *)
(* before every system call and every access to the map; hashmap_iter, the *)
(* store of a new entry and the doubling take several.                     *)
(***************************************************************************)
EXTENDS Naturals, Sequences, FiniteSets

CONSTANTS
  Conn,     \* the connections clients will make, each once
  None,     \* no connection
  Mail,     \* the types of the messages clients send
  Awake,    \* the threads that wake up; the others are still in their first sleep
  Interrupt, \* whether SIGINT may come
  MAX_SIZE  \* the max_size of a new map (96)

Dereferencing == {"rrc_request", "ue_battery_low", "ue_battery_high", "pong"}
ASSUME ServerAssumption ==
  /\ IsFiniteSet(Conn) /\ None \notin Conn
  /\ Mail \subseteq Dereferencing \cup {"random_access_request", "ue_off", "rrc_complete",
                                        "measurement_report"}
  /\ Awake \subseteq {"ping", "measure", "transfer"} /\ Interrupt \in BOOLEAN
  /\ MAX_SIZE \in Nat \ {0}

VARIABLES
  pc,        \* pc[t]: the next step of thread t
  todo, at,  \* todo[t], at[t]: the descriptors t's iteration has not come to, and the
             \* one whose entry it is at; 0 if at none, or if the entry has been emptied
  stray,     \* the threads whose iteration is at an entry in memory that is freed
  cur,       \* cur[t]: the client (value) it has read; cur["main"]: the client handled
  stack,     \* what clean() returns to, innermost first
  process,   \* "up", "exited" or "killed"
  done,      \* threads_done
  sigint,    \* SIGINT has come (once)
  events, event, mail, \* server.events yet to be handled, the one at hand, its message
  owner,     \* owner[f]: the connection descriptor f denotes
  polled,    \* connections added to the epoll set
  peer,      \* peer[c]: "away", "up", "closed", "reset" (it answered RST), "gone"
             \* (the eNodeB has closed its end)
  inq,       \* inq[c]: the message c has sent and nobody has read
  backlog,   \* connections waiting to be accepted
  keys,      \* the descriptors server.clients has an entry for
  clients,   \* clients[f]: the value of f's entry, None if NULL
  sock,      \* sock[c]: the socket field of c's client_t; 0 before accept
  freed,     \* the client_t that have been freed
  map,       \* "none" (not yet made), "ok", "doubling" (its table is freed), "destroyed"
  max_size,  \* the entries it takes before it is doubled
  told,      \* history: clients enb_off has been sent to
  missed,    \* history: clients a kick has taken out of the notification's way
  kicked     \* history: the ping thread has kicked somebody

iter     == <<todo, at, stray>>
thread   == <<pc, iter, cur>>
handling == <<events, event, mail>>
net      == <<owner, polled, peer, inq, backlog>>
registry == <<keys, clients, sock, freed, map, max_size>>
control  == <<stack, process, done, sigint>>
history  == <<told, missed, kicked>>
vars     == <<thread, handling, net, registry, control, history>>

-----------------------------------------------------------------------------
Thread  == {"main", "ping", "measure", "transfer"}
Fd      == 1..Cardinality(Conn)   \* as many descriptors as connections
LISTEN  == 0                      \* server.socket
Clean   == {"notify", "notify_value", "notice", "stop", "join", "joining", "closing",
            "close_client", "destroy"}
Handler == {"epoll", "event", "accept", "add", "put", "put_value", "double", "read", "handle",
            "close", "delete"}
Start   == {"init", "create"}
Pc == [main     |-> Start \cup Handler \cup Clean \cup {"exit"},
       ping     |-> {"idle", "loop", "pinging", "ping_value", "ping", "kicking", "kick_value",
                     "kick", "kick_delete", "done"},
       measure  |-> {"idle", "loop", "requesting", "request_value", "request", "done"},
       transfer |-> {"idle", "loop", "sending", "start_value", "start", "data", "end", "quit",
                     "done"}]
Reading == {"notify_value", "close_client", "ping_value", "kick_value", "request_value",
            "start_value"}   \* between the test of an entry's key and the read of its value
Resting == {"idle", "loop", "quit", "done"}   \* a thread that is not iterating

Goto(t, l) == pc' = [pc EXCEPT ![t] = l]
Set(v, t, x) == [v EXCEPT ![t] = x]
Pass(t, l) ==
  Goto(t, l) /\ UNCHANGED <<iter, cur, handling, net, registry, control, history>>
Stop(how) == process' = how /\ pc' = [t \in Thread |-> "dead"]
End(how)  == Stop(how) /\ UNCHANGED <<iter, cur, handling, net, registry, stack, done,
                                      sigint, history>>

(* close(f); the connection leaves the epoll set with its last descriptor. *)
Close(f) ==
  /\ owner' = Set(owner, f, None)
  /\ polled' = polled \ {owner[f]}
  /\ inq' = [c \in Conn |-> IF c = owner[f] THEN None ELSE inq[c]]
  /\ peer' = [c \in Conn |-> IF c = owner[f] THEN "gone" ELSE peer[c]]
  /\ UNCHANGED backlog

(* delete_client_from_hashmap: hashmap_delete frees the client_t as well.    *)
(* The next entry of the bucket is copied to the place of the one deleted,   *)
(* and its node freed: an iteration that was at f is now at g and passes it  *)
(* over unless it has yet to read it, and one that was at g has gone astray. *)
MoveUp(f, g) ==
  /\ at' = [t \in Thread |-> IF at[t] = f THEN g ELSE at[t]]
  /\ todo' = [t \in Thread |-> IF at[t] = f THEN todo[t] \ {g} ELSE todo[t]]
  /\ stray' = stray \cup {t \in Thread : at[t] = g}
  /\ LET lost == {h \in Fd : \/ at["main"] = g
                             \/ at["main"] = f /\ pc["main"] # "notify_value" /\ h = g}
     IN missed' = missed \cup ({clients[h] : h \in lost} \ {None})

(* The last of its bucket is emptied. *)
Empty(f) ==
  /\ at' = [t \in Thread |-> IF at[t] = f THEN 0 ELSE at[t]]
  /\ UNCHANGED <<todo, stray, missed>>

FreeAlways(f) ==   \* mutant: what is not in the map is freed too
  /\ keys' = keys \ {f} /\ clients' = Set(clients, f, None)
  /\ freed' = freed \cup {clients[f]}
  /\ UNCHANGED <<iter, sock, map, max_size, missed>>

Delete(f) ==
  /\ keys' = keys \ {f} /\ clients' = Set(clients, f, None)
  /\ freed' = freed \cup ({clients[f]} \ {None})
  /\ \/ f \in keys /\ (Empty(f) \/ \E g \in keys \ {f} : MoveUp(f, g))
     \/ f \notin keys /\ UNCHANGED <<iter, missed>>
  /\ UNCHANGED <<sock, map, max_size>>

(***************************************************************************)
(* send(f, ...) by thread t.  On a closed descriptor it returns -1; the    *)
(* first send to a client that has gone draws an RST; after an RST it      *)
(* returns -1 or raises SIGPIPE, which nobody handles.                     *)
(***************************************************************************)
Send(t, f, ok, failed) ==
  \/ /\ owner[f] = None
     /\ Goto(t, failed) /\ UNCHANGED <<peer, process>>
  \/ /\ owner[f] # None /\ peer[owner[f]] \in {"up", "closed"}
     /\ peer' = [peer EXCEPT ![owner[f]] = IF @ = "closed" THEN "reset" ELSE @]
     /\ Goto(t, ok) /\ UNCHANGED process
  \/ /\ owner[f] # None /\ peer[owner[f]] = "reset"
     /\ \/ Goto(t, failed) /\ UNCHANGED process
        \/ Stop("killed")
     /\ UNCHANGED peer

(***************************************************************************)
(* hashmap_iter by thread t: Iterate goes on to an entry that has a key,   *)
(* or to what follows; ReadValue passes the entry's value to the callback, *)
(* which dereferences it.  Both die of a NULL; memory that is freed may    *)
(* hold anything.                                                          *)
(***************************************************************************)
Lost(t) == t \in stray \/ map \in {"doubling", "destroyed"}

Iterate(t, value, after, again) ==
  LET found == IF Lost(t) THEN todo[t] ELSE todo[t] \cap keys
  IN \/ /\ map # "none"
        /\ \E f \in found : at' = Set(at, t, f) /\ todo' = Set(todo, t, todo[t] \ {f})
        /\ cur' = Set(cur, t, None) /\ Goto(t, value)
        /\ UNCHANGED <<stray, handling, net, registry, control, history>>
     \/ /\ map # "none" /\ (Lost(t) \/ found = {})
        /\ todo' = Set(todo, t, again) /\ at' = Set(at, t, 0) /\ stray' = stray \ {t}
        /\ cur' = Set(cur, t, None) /\ Goto(t, after)
        /\ UNCHANGED <<handling, net, registry, control, history>>
     \/ (map = "none" \/ Lost(t)) /\ End("killed")

ValueAt(t) == IF at[t] = 0 THEN None ELSE clients[at[t]]
Values(t)  == IF Lost(t) THEN {c \in Conn : sock[c] # 0} ELSE {ValueAt(t)} \ {None}

ReadValue(t, callback) ==
  \/ /\ \E c \in Values(t) : cur' = Set(cur, t, c)
     /\ Goto(t, callback)
     /\ UNCHANGED <<iter, handling, net, registry, control, history>>
  \/ (Lost(t) \/ ValueAt(t) = None) /\ End("killed")

(* What current_client->socket may yield: memory that is freed keeps its     *)
(* contents or has been given to another client.                             *)
SocketOf(t) == IF cur[t] \in freed THEN {sock[c] : c \in Conn} \ {0} ELSE {sock[cur[t]]}

(* error() with errno other than EINTR: clean(), then exit(EXIT_FAILURE). *)
Frame(l) == [pc |-> l, todo |-> todo["main"], at |-> at["main"], cur |-> cur["main"]]
CallClean(frame) ==
  /\ stack' = <<frame>> \o stack
  /\ todo' = Set(todo, "main", Fd) /\ at' = Set(at, "main", 0) /\ stray' = stray \ {"main"}
  /\ missed' = {} /\ Goto("main", "notify")
error ==
  /\ CallClean(Frame("exit"))
  /\ UNCHANGED <<cur, handling, net, registry, process, done, sigint, told, kicked>>

-----------------------------------------------------------------------------
(* init_server: the listening socket and the epoll set, any of which may     *)
(* fail, the map, and then the threads.                                      *)

init_server ==
  /\ pc["main"] = "init"
  /\ \/ /\ map' = "ok" /\ Goto("main", "create")
        /\ UNCHANGED <<iter, cur, handling, net, keys, clients, sock, freed, max_size, control, history>>
     \/ error

CreateThreads ==
  /\ pc["main"] = "create"
  /\ pc' = [t \in Thread |-> IF t = "main" THEN "epoll" ELSE "loop"]
  /\ UNCHANGED <<iter, cur, handling, net, registry, control, history>>

-----------------------------------------------------------------------------
(* The epoll loop. *)

Ready ==
  {f \in Fd : /\ owner[f] \in polled
              /\ inq[owner[f]] # None \/ peer[owner[f]] # "up"}
    \cup (IF backlog # {} THEN {LISTEN} ELSE {})

receive_packets ==
  /\ pc["main"] = "epoll" /\ Ready # {}
  /\ events' = Ready /\ Goto("main", "event")
  /\ UNCHANGED <<iter, cur, event, mail, net, registry, control, history>>

handle_connection ==
  /\ pc["main"] = "event"
  /\ \/ events = {} /\ Goto("main", "epoll") /\ UNCHANGED <<events, event>>
     \/ \E f \in events :
          /\ events' = events \ {f} /\ event' = f
          /\ Goto("main", IF f = LISTEN THEN "accept" ELSE "read")
  /\ UNCHANGED <<iter, cur, mail, net, registry, control, history>>

(* A handler returns and its variables are gone. *)
Done == event' = LISTEN /\ mail' = None /\ cur' = Set(cur, "main", None)

(* accept hands out the lowest free descriptor; it may fail (EMFILE), and on *)
(* a closed server it does.                                                  *)
accept_client ==
  /\ pc["main"] = "accept"
  /\ \/ /\ \E c \in backlog, f \in Fd :
             /\ owner[f] = None /\ \A g \in 1..(f - 1) : owner[g] # None
             /\ owner' = Set(owner, f, c) /\ sock' = Set(sock, c, f)
             /\ backlog' = backlog \ {c} /\ cur' = Set(cur, "main", c)
        /\ Goto("main", "add")
        /\ UNCHANGED <<iter, handling, polled, peer, inq, keys, clients, freed, map, max_size,
                       control, history>>
     \/ error

epoll_ctl ==
  /\ pc["main"] = "add"
  /\ LET c == owner[sock[cur["main"]]]
     IN \/ /\ c # None
           /\ polled' = polled \cup {c} /\ Goto("main", "put")
           /\ UNCHANGED <<iter, cur, handling, owner, peer, inq, backlog, registry,
                          control, history>>
        \/ c = None /\ error

NotPut ==   \* mutant: the client is not registered
  /\ pc["main"] = "put" /\ Goto("main", "event") /\ Done
  /\ UNCHANGED <<iter, events, net, registry, control, history>>

(***************************************************************************)
(* hashmap_put.  A full map is doubled first: chains and table are freed   *)
(* before the new table is in place.  A new entry is either linked to the  *)
(* end of its bucket, complete, or stored in the table: first the key (an  *)
(* iteration that was at this place when it was emptied is at an entry     *)
(* again), then the value, which is nobody's if a kick has deleted the key *)
(* in between.  It lies ahead of an iteration or behind it.                *)
(***************************************************************************)
Full == Cardinality(keys) + 1 > max_size

Insert(f) ==
  /\ keys' = keys \cup {f}
  /\ \E ahead \in SUBSET {t \in Thread \ {"main"} : pc[t] \notin Resting} :
       todo' = [t \in Thread |-> IF t \in ahead THEN todo[t] \cup {f} ELSE todo[t] \ {f}]
  /\ UNCHANGED stray

hashmap_double_size ==
  \/ /\ pc["main"] = "put" /\ Full
     /\ map' = IF map = "ok" THEN "doubling" ELSE map
     /\ stray' = stray \cup {t \in Thread \ {"main"} : pc[t] \notin Resting}
     /\ todo' = [t \in Thread |-> IF t \in stray' THEN Fd ELSE todo[t]]
     /\ Goto("main", "double")
     /\ UNCHANGED <<at, cur, handling, net, keys, clients, sock, freed, max_size, control,
                    history>>
  \/ /\ pc["main"] = "double"
     /\ map' = IF map = "doubling" THEN "ok" ELSE map
     /\ max_size' = 2 * max_size /\ Goto("main", "put")
     /\ UNCHANGED <<iter, cur, handling, net, keys, clients, sock, freed, control, history>>

put_client_in_hashmap ==
  LET c == cur["main"]
      f == sock[c]
  IN \/ /\ pc["main"] = "put" /\ ~Full
        /\ \/ f \in keys /\ UNCHANGED <<iter, keys>>
           \/ f \notin keys /\ Insert(f) /\ UNCHANGED at
        /\ clients' = Set(clients, f, c) /\ Goto("main", "event") /\ Done
        /\ UNCHANGED <<events, net, sock, freed, map, max_size, control, history>>
     \/ /\ pc["main"] = "put" /\ ~Full
        /\ f \notin keys /\ Insert(f)
        /\ \E refilled \in SUBSET {t \in Thread \ {"main"} : pc[t] \in Reading /\ at[t] = 0} :
             at' = [t \in Thread |-> IF t \in refilled THEN f ELSE at[t]]
        /\ Goto("main", "put_value")
        /\ UNCHANGED <<cur, handling, net, clients, sock, freed, map, max_size, control, history>>
     \/ /\ pc["main"] = "put_value"
        /\ clients' = IF f \in keys THEN Set(clients, f, c) ELSE clients
        /\ Goto("main", "event") /\ Done
        /\ UNCHANGED <<iter, events, net, keys, sock, freed, map, max_size, control, history>>
     \/ hashmap_double_size
     \/ pc["main"] \in {"put", "put_value", "double"} /\ map = "destroyed" /\ End("killed")

(* The read of parse_packet: a message, the end of the stream, or -1, where  *)
(* a send that failed may have consumed the error of a reset before; it      *)
(* blocks on a descriptor that has been reused since epoll_wait returned.    *)
parse_packet ==
  /\ pc["main"] = "read"
  /\ LET c == owner[event]
     IN \/ /\ c # None /\ inq[c] # None
           /\ mail' = inq[c] /\ inq' = Set(inq, c, None)
           /\ cur' = Set(cur, "main", c) /\ Goto("main", "handle")
           /\ UNCHANGED <<iter, events, event, owner, polled, peer, backlog, registry,
                          control, history>>
        \/ /\ c # None /\ inq[c] = None /\ peer[c] \in {"closed", "reset"}
           /\ Pass("main", "close")
        \/ c # None /\ inq[c] = None /\ peer[c] = "reset" /\ error
        \/ c = None /\ error

(* The switch of parse_packet.  update_client_by_ra_rnti_data tolerates a    *)
(* missing client; the others dereference what get_client_by_socket finds.   *)
Answer ==
  /\ Send("main", event, "event", "event") /\ Done
  /\ UNCHANGED <<iter, events, owner, polled, inq, backlog, registry, stack, done,
                 sigint, history>>
Ignore ==
  /\ Goto("main", "event") /\ Done
  /\ UNCHANGED <<iter, events, net, registry, control, history>>
get_client_by_socket ==
  /\ \/ mail \in Dereferencing /\ clients[event] = None
     \/ mail \in Dereferencing \cup {"random_access_request"} /\ map = "destroyed"
  /\ End("killed")
HandleMessage ==
  /\ pc["main"] = "handle"
  /\ \/ mail = "random_access_request" /\ Answer
     \/ mail = "rrc_request" /\ clients[event] # None /\ Answer
     \/ mail \in Dereferencing \ {"rrc_request"} /\ clients[event] # None /\ Ignore
     \/ get_client_by_socket
     \/ mail = "ue_off" /\ Pass("main", "close")
     \/ mail \in {"rrc_complete", "measurement_report"} /\ Ignore

(* handle_client_power_off, and the end of a stream. *)
CloseClient ==
  /\ pc["main"] = "close"
  /\ Close(event) /\ Goto("main", "delete")
  /\ UNCHANGED <<iter, cur, handling, registry, control, history>>

ClientKept ==   \* mutant: the client stays registered
  /\ pc["main"] = "delete" /\ Ignore

delete_client ==
  /\ pc["main"] = "delete"
  /\ \/ /\ Delete(event) /\ Goto("main", "event") /\ Done
        /\ UNCHANGED <<events, net, control, told, kicked>>
     \/ map = "destroyed" /\ End("killed")

-----------------------------------------------------------------------------
(* clean(), called by error() or as the handler of SIGINT. *)

(* epoll_wait is interrupted for good (EINTR, which error() takes for a      *)
(* finished shutdown); everything else goes on where it was.                 *)
SignalHandler ==
  /\ Interrupt /\ ~sigint /\ sigint' = TRUE /\ process = "up"
  /\ CallClean(Frame(IF pc["main"] = "epoll" THEN "exit" ELSE pc["main"]))
  /\ UNCHANGED <<cur, handling, net, registry, process, done, told, kicked>>

broadcast_shutdown_notification ==
  \/ pc["main"] = "notify" /\ Iterate("main", "notify_value", "stop", {})
  \/ pc["main"] = "notify_value" /\ ReadValue("main", "notice")

NotifyOne ==   \* mutant: the callback returns 1, which ends the iteration
  /\ pc["main"] = "notice"
  /\ \E f \in SocketOf("main") : Send("main", f, "stop", "stop")
  /\ told' = told \cup {cur["main"]}
  /\ UNCHANGED <<iter, cur, handling, owner, polled, inq, backlog, registry, stack, done,
                 sigint, missed, kicked>>

notify_client_of_shutdown ==
  /\ pc["main"] = "notice"
  /\ \E f \in SocketOf("main") : Send("main", f, "notify", "notify")
  /\ told' = told \cup {cur["main"]}
  /\ UNCHANGED <<iter, cur, handling, owner, polled, inq, backlog, registry, stack, done,
                 sigint, missed, kicked>>

NotStopped ==   \* mutant: threads_done is not set
  /\ pc["main"] = "stop" /\ Pass("main", "join")

StopThreads ==
  /\ pc["main"] = "stop"
  /\ done' = TRUE /\ Goto("main", "join")
  /\ UNCHANGED <<iter, cur, handling, net, registry, stack, process, sigint, history>>

(* pthread_join: it dies of an id that no thread has been given yet, and     *)
(* returns EINVAL at once inside another pthread_join of the same thread.    *)
Nested == \E i \in 1..Len(stack) : stack[i].pc = "joining"

NotJoined ==   \* mutant: clean() does not wait for the ping thread
  /\ pc["main"] = "join"
  /\ todo' = Set(todo, "main", Fd) /\ Goto("main", "closing")
  /\ UNCHANGED <<at, stray, cur, handling, net, registry, control, history>>

JoinPingThread ==
  \/ pc["main"] = "join" /\ pc["ping"] # "idle" /\ ~Nested /\ Pass("main", "joining")
  \/ /\ \/ pc["main"] = "join" /\ Nested
        \/ pc["main"] = "joining" /\ pc["ping"] = "done"
     /\ todo' = Set(todo, "main", Fd) /\ Goto("main", "closing")
     /\ UNCHANGED <<at, stray, cur, handling, net, registry, control, history>>
  \/ pc["main"] = "join" /\ pc["ping"] = "idle" /\ End("killed")

(* The callback closes the descriptor the key tells.  It returns nothing     *)
(* where hashmap_iter expects an int, which gets what close returned: a      *)
(* close that fails ends the iteration.                                      *)
close_client_socket ==
  /\ pc["main"] = "close_client"
  /\ \/ /\ \E f \in IF Lost("main") THEN Fd ELSE {at["main"]} \ {0} :
             IF owner[f] # None THEN Close(f) /\ Goto("main", "closing") /\ UNCHANGED <<iter, cur>>
             ELSE /\ Goto("main", "destroy") /\ UNCHANGED <<net, cur>>
                  /\ todo' = Set(todo, "main", {}) /\ at' = Set(at, "main", 0)
                  /\ stray' = stray \ {"main"}
        /\ UNCHANGED <<handling, registry, control, history>>
     \/ (Lost("main") \/ at["main"] = 0) /\ End("killed")

close_clients_sockets ==
  \/ pc["main"] = "closing" /\ Iterate("main", "close_client", "destroy", {})
  \/ close_client_socket

(* hashmap_destroy, close(server.socket) and the return from clean(). *)
server_t__destroy ==
  /\ pc["main"] = "destroy"
  /\ \/ /\ map' = "destroyed"
        /\ freed' = freed \cup ({clients[f] : f \in Fd} \ {None})
        /\ backlog' = {} /\ peer' = [c \in Conn |-> IF c \in backlog THEN "gone" ELSE peer[c]]
        /\ stack' = Tail(stack)
        /\ LET frame == Head(stack)
           IN /\ Goto("main", frame.pc) /\ todo' = Set(todo, "main", frame.todo)
              /\ at' = Set(at, "main", frame.at) /\ cur' = Set(cur, "main", frame.cur)
        /\ UNCHANGED <<stray, handling, owner, polled, inq, keys, clients, sock, max_size,
                       process, done, sigint, history>>
     \/ map # "ok" /\ End("killed")

Exit == pc["main"] = "exit" /\ End("exited")

-----------------------------------------------------------------------------
(* The three threads: while (!threads_done) { sleep; hashmap_iter ... } *)

Loop(t, l) ==
  /\ pc[t] = "loop" /\ t \in Awake
  /\ Goto(t, IF done THEN "done" ELSE l)
  /\ todo' = Set(todo, t, IF done THEN {} ELSE Fd)
  /\ UNCHANGED <<at, stray, cur, handling, net, registry, control, history>>

(* A callback that sends to the client it is at. *)
SendToCurrent(t, ok, failed) ==
  /\ \E f \in SocketOf(t) : Send(t, f, ok, failed)
  /\ UNCHANGED <<iter, cur, handling, owner, polled, inq, backlog, registry, stack, done,
                 sigint, history>>
ping_client ==
  /\ pc["ping"] = "ping"
  /\ SendToCurrent("ping", "pinging", "pinging") \/ Pass("ping", "pinging")

handle_client_inactivity ==
  /\ pc["ping"] = "kick"
  /\ \/ Pass("ping", "kicking")
     \/ /\ \E f \in SocketOf("ping") : Close(f)
        /\ kicked' = TRUE /\ Goto("ping", "kick_delete")
        /\ UNCHANGED <<iter, cur, handling, registry, control, told, missed>>

KickDelete ==
  /\ pc["ping"] = "kick_delete"
  /\ \/ /\ \E f \in SocketOf("ping") : Delete(f)
        /\ Goto("ping", "kicking")
        /\ UNCHANGED <<cur, handling, net, control, told, kicked>>
     \/ map # "ok" /\ End("killed")

ping_and_timeout_in_thread ==
  \/ Loop("ping", "pinging")
  \/ pc["ping"] = "pinging" /\ Iterate("ping", "ping_value", "kicking", Fd)
  \/ pc["ping"] = "ping_value" /\ ReadValue("ping", "ping")
  \/ ping_client
  \/ pc["ping"] = "kicking" /\ Iterate("ping", "kick_value", "loop", {})
  \/ pc["ping"] = "kick_value" /\ ReadValue("ping", "kick")
  \/ handle_client_inactivity \/ KickDelete

send_measurement_control_requests ==
  \/ Loop("measure", "requesting")
  \/ pc["measure"] = "requesting" /\ Iterate("measure", "request_value", "loop", {})
  \/ pc["measure"] = "request_value" /\ ReadValue("measure", "request")
  \/ pc["measure"] = "request" /\ SendToCurrent("measure", "requesting", "requesting")

(* broadcast_sample: data_start, as many data as the file takes, data_end;   *)
(* the file may not open, and a send that fails ends the process.            *)
broadcast_sample ==
  \/ pc["transfer"] = "start" /\ SendToCurrent("transfer", "data", "quit")
  \/ pc["transfer"] = "data" /\ SendToCurrent("transfer", "data", "quit")
  \/ pc["transfer"] = "data" /\ Pass("transfer", "end")
  \/ pc["transfer"] = "end" /\ SendToCurrent("transfer", "sending", "quit")
  \/ pc["transfer"] = "start" /\ Pass("transfer", "quit")

transfer_data ==
  \/ Loop("transfer", "sending")
  \/ pc["transfer"] = "sending" /\ Iterate("transfer", "start_value", "quit", {})
  \/ pc["transfer"] = "start_value" /\ ReadValue("transfer", "start")
  \/ broadcast_sample
  \/ pc["transfer"] = "quit" /\ End("exited")

-----------------------------------------------------------------------------
(* The clients. *)
Connect(c) ==
  /\ process = "up" /\ peer[c] = "away" /\ map = "ok"
  /\ peer' = Set(peer, c, "up") /\ backlog' = backlog \cup {c}
  /\ UNCHANGED <<thread, handling, owner, polled, inq, registry, control, history>>

ClientSend(c) ==
  /\ process = "up" /\ peer[c] = "up" /\ inq[c] = None
  /\ \E m \in Mail : inq' = Set(inq, c, m)
  /\ UNCHANGED <<thread, handling, owner, polled, peer, backlog, registry, control,
                 history>>

(* A client that ends with unread messages resets the connection. *)
ClientLeave(c) ==
  /\ process = "up" /\ peer[c] = "up"
  /\ \E how \in {"closed", "reset"} : peer' = Set(peer, c, how)
  /\ UNCHANGED <<thread, handling, owner, polled, inq, backlog, registry, control,
                 history>>

-----------------------------------------------------------------------------
(* main() has installed clean() as the handler of SIGINT. *)
Init ==
  /\ pc = [t \in Thread |-> IF t = "main" THEN "init" ELSE "idle"]
  /\ todo = [t \in Thread |-> {}] /\ at = [t \in Thread |-> 0] /\ stray = {}
  /\ cur = [t \in Thread |-> None]
  /\ stack = <<>> /\ process = "up" /\ done = FALSE /\ sigint = FALSE
  /\ events = {} /\ event = LISTEN /\ mail = None
  /\ owner = [f \in Fd |-> None] /\ polled = {} /\ backlog = {}
  /\ peer = [c \in Conn |-> "away"] /\ inq = [c \in Conn |-> None]
  /\ keys = {} /\ clients = [f \in Fd |-> None] /\ sock = [c \in Conn |-> 0] /\ freed = {}
  /\ map = "none" /\ max_size = MAX_SIZE /\ told = {} /\ missed = {} /\ kicked = FALSE

MainStep ==
  \/ init_server \/ CreateThreads
  \/ receive_packets \/ handle_connection \/ accept_client \/ epoll_ctl
  \/ put_client_in_hashmap \/ parse_packet \/ HandleMessage \/ CloseClient \/ delete_client
  \/ broadcast_shutdown_notification \/ notify_client_of_shutdown \/ StopThreads
  \/ JoinPingThread \/ close_clients_sockets \/ server_t__destroy \/ Exit

(* The process has ended, or epoll_wait waits for something to happen. *)
Idle == pc["main"] \in {"dead", "epoll"} /\ UNCHANGED vars

Next ==
  \/ MainStep \/ SignalHandler \/ ping_and_timeout_in_thread
  \/ send_measurement_control_requests \/ transfer_data
  \/ \E c \in Conn : Connect(c) \/ ClientSend(c) \/ ClientLeave(c)
  \/ Idle

Spec == Init /\ [][Next]_vars

(* Runnable threads run; nothing is assumed of the clients or of SIGINT. *)
FairSpec == Spec /\ WF_vars(MainStep) /\ WF_vars(ping_and_timeout_in_thread)

-----------------------------------------------------------------------------
TypeOK ==
  /\ \A t \in Thread : /\ pc[t] \in Pc[t] \cup {"dead"} /\ todo[t] \subseteq Fd
                       /\ at[t] \in Fd \cup {0} /\ cur[t] \in Conn \cup {None}
  /\ stray \subseteq Thread
  /\ \A i \in 1..Len(stack) : stack[i].pc \in Pc["main"]
  /\ process \in {"up", "exited", "killed"} /\ map \in {"none", "ok", "doubling", "destroyed"}
  /\ done \in BOOLEAN /\ sigint \in BOOLEAN /\ kicked \in BOOLEAN
  /\ events \subseteq Fd \cup {LISTEN} /\ event \in Fd \cup {LISTEN}
  /\ mail \in Mail \cup {None}
  /\ owner \in [Fd -> Conn \cup {None}] /\ clients \in [Fd -> Conn \cup {None}]
  /\ keys \subseteq Fd /\ max_size \in Nat \ {0}
  /\ polled \subseteq Conn /\ backlog \subseteq Conn /\ freed \subseteq Conn
  /\ peer \in [Conn -> {"away", "up", "closed", "reset", "gone"}]
  /\ inq \in [Conn -> Mail \cup {None}]
  /\ sock \in [Conn -> Fd \cup {0}] /\ told \subseteq Conn /\ missed \subseteq Conn

(* Until the ping thread kicks somebody, the open descriptors are exactly    *)
(* the registered ones whenever the main thread is between two events, each  *)
(* with its own client, and a handler finds the client whose message it has. *)
RegistryExact ==
  ~kicked /\ map = "ok" =>
    /\ pc["main"] \in {"epoll", "event"} => clients = owner
    /\ pc["main"] = "handle" => clients[event] = cur["main"]

(* When clean() comes to close the sockets, the ping thread is gone, unless  *)
(* this clean() has interrupted the pthread_join of another; and every       *)
(* client that is registered has been sent enb_off, except one a kick has    *)
(* taken out of the notification's way: the one moved into the place the     *)
(* notification was at, or any if the place itself was freed.                *)
ToldBeforeClosed ==
  map = "ok" /\ pc["main"] = "closing" =>
    /\ pc["ping"] = "done" \/ Nested
    /\ \A f \in Fd : clients[f] # None => clients[f] \in told \cup missed

(* A shutdown that began in epoll_wait or by error() ends the process.       *)
CleanEnds == (stack # <<>> /\ stack[Len(stack)].pc = "exit") ~> process # "up"

(* An iteration has met a change of the map that another thread was making:  *)
(* it is at an entry whose value is NULL, or in memory that is freed.        *)
Torn ==
  \/ stray # {} \/ map = "doubling"
  \/ \E t \in Thread : pc[t] \in Reading /\ ValueAt(t) = None

(* What may bring the server down once it has started: SIGINT, a kick (which *)
(* leaves the main thread with a client that is gone), a connection that was *)
(* reset, an accept that fails, the end of the transfer, an error before, or *)
(* an iteration in the midst of a change.  Nothing else does: clients come,  *)
(* speak in any order and leave, and the handlers, which dereference what    *)
(* they find in the map without a test, find what they need.                 *)
SurvivesOrdinaryClients ==
  [][(process' # "up" \/ Len(stack') > Len(stack)) /\ map \in {"ok", "doubling"} =>
       \/ sigint' \/ kicked \/ stack # <<>> \/ pc["transfer"] = "quit" \/ pc["main"] = "accept"
       \/ Torn \/ \E c \in Conn : peer[c] = "reset"]_vars

=============================================================================
