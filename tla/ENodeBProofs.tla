---------------------------- MODULE ENodeBProofs ----------------------------
(* Theorems about the eNodeB, for any number of clients, any messages and   *)
(* any subset of its threads.                                               *)
EXTENDS ENodeB, SequenceTheorems, FiniteSetTheorems, TLAPS

Labels   == Pc["main"] \cup Pc["ping"] \cup Pc["measure"] \cup Pc["transfer"] \cup {"dead"}
Accepted == {c \in Conn : sock[c] # 0}
Someone  == Accepted \cup {None}
Place    == Fd \cup {0}

(* The steps of a thread that look at cur[t], and those that look at event. *)
AtClient == {"add", "put", "put_value", "double", "notice", "ping", "kick", "kick_delete",
             "request", "start", "data", "end"}
AtEvent  == {"read", "handle", "close", "delete"}

(* A frame that clean() may return to: with the client and the event it has  *)
(* been looking at, and never to init_server once the map is made.           *)
GoodFrame ==
  {fr \in [pc : Pc["main"], todo : SUBSET Fd, at : Place, cur : Conn \cup {None}] :
     /\ fr.cur \in Someone
     /\ fr.pc \in AtClient => fr.cur # None
     /\ fr.pc \in AtEvent => event \in Fd
     /\ map # "none" => fr.pc # "init"}

(* clean() is entered from a handler once, and from itself by SIGINT. *)
StackInv ==
  /\ stack \in Seq(GoodFrame)
  /\ pc["main"] # "dead" => (pc["main"] \in Clean <=> stack # <<>>)
  /\ \A i \in 1..Len(stack) : stack[i].pc \in Clean <=> i < Len(stack)

(* What every thread looks at has been accepted once, so that it has a socket. *)
PcInv ==
  /\ pc \in [Thread -> Labels]
  /\ \A t \in Thread : /\ pc[t] \in Pc[t] \cup {"dead"}
                       /\ pc[t] \in AtClient => cur[t] # None
  /\ pc["main"] \in AtEvent => event \in Fd
  /\ pc["main"] = "dead" => process # "up"
IterType ==
  todo \in [Thread -> SUBSET Fd] /\ at \in [Thread -> Place] /\ stray \subseteq Thread
IterInv == IterType /\ cur \in [Thread -> Someone]

(* A value is in the map under a key that is in it. *)
TableInv ==
  /\ owner \in [Fd -> Someone] /\ clients \in [Fd -> Someone] /\ keys \subseteq Fd
  /\ \A f \in Fd : clients[f] # None => f \in keys

(* The types of everything else. *)
DataInv ==
  /\ process \in {"up", "exited", "killed"} /\ map \in {"none", "ok", "doubling", "destroyed"}
  /\ done \in BOOLEAN /\ sigint \in BOOLEAN /\ kicked \in BOOLEAN
  /\ events \subseteq Fd \cup {LISTEN} /\ event \in Fd \cup {LISTEN}
  /\ mail \in Mail \cup {None} /\ max_size \in Nat \ {0}
  /\ polled \subseteq Conn /\ backlog \subseteq Conn /\ freed \subseteq Conn
  /\ peer \in [Conn -> {"away", "up", "closed", "reset", "gone"}]
  /\ inq \in [Conn -> Mail \cup {None}]
  /\ sock \in [Conn -> Fd \cup {0}] /\ told \subseteq Conn /\ missed \subseteq Conn

(* There is a map from init_server on, and clean() destroys it. *)
MapInv ==
  /\ map = "none" => pc["main"] \in {"init", "notify", "dead"}
  /\ pc["main"] = "init" => map = "none"
  /\ pc["main"] = "exit" => map = "destroyed"

TypeInv == PcInv /\ IterInv /\ TableInv /\ DataInv /\ StackInv /\ MapInv

(* How the registered descriptors differ from the open ones in the middle of  *)
(* a handler, until the ping thread kicks somebody; and every event that is   *)
(* yet to be handled is one of an open descriptor.                            *)
RegistryInv ==
  /\ pc["ping"] = "kick_delete" => kicked
  /\ ~kicked /\ map # "destroyed" =>
       /\ pc["main"] \in {"init", "create"} => clients = owner /\ events = {}
       /\ pc["main"] \in {"epoll", "event", "accept", "read", "handle", "close"} => clients = owner
       /\ pc["main"] \in {"add", "put", "put_value", "double"} =>
            /\ owner[sock[cur["main"]]] = cur["main"]
            /\ clients = [owner EXCEPT ![sock[cur["main"]]] = None]
       /\ pc["main"] = "put_value" => sock[cur["main"]] \in keys
       /\ pc["main"] = "delete" => owner = [clients EXCEPT ![event] = None]
       /\ pc["main"] = "handle" => owner[event] = cur["main"]
       /\ pc["main"] \in {"read", "handle", "close"} => owner[event] # None
       /\ pc["main"] \in Handler => \A f \in events \ {LISTEN} : owner[f] # None
       /\ pc["main"] \in AtEvent => event \notin events

(* clean() has told everybody it has come to and whom no kick has taken out   *)
(* of its way, and waits for the ping thread unless it may not.               *)
Registered == {f \in Fd : clients[f] # None}
ToldInv ==
  map = "ok" =>
    /\ pc["main"] \in {"notify", "notify_value", "notice"} =>
         /\ \A f \in Registered :
              \/ clients[f] \in told \cup missed \/ f \in todo["main"]
              \/ pc["main"] = "notify_value" /\ f = at["main"]
              \/ pc["main"] = "notice" /\ clients[f] = cur["main"]
         /\ "main" \in stray => \A f \in Registered : clients[f] \in missed
    /\ pc["main"] \in {"stop", "join", "joining", "closing", "close_client"} =>
         \A f \in Registered : clients[f] \in told \cup missed
    /\ pc["main"] \in {"closing", "close_client"} => pc["ping"] = "done" \/ Nested

-----------------------------------------------------------------------------
(* The steps each thread may be at. *)
LEMMA PcSets ==
  /\ Pc["main"] = {"init", "create", "epoll", "event", "accept", "add", "put", "put_value",
                   "double", "read", "handle", "close", "delete", "notify", "notify_value",
                   "notice", "stop", "join", "joining", "closing", "close_client", "destroy",
                   "exit"}
  /\ Pc["ping"] = {"idle", "loop", "pinging", "ping_value", "ping", "kicking", "kick_value",
                   "kick", "kick_delete", "done"}
  /\ Pc["measure"] = {"idle", "loop", "requesting", "request_value", "request", "done"}
  /\ Pc["transfer"] = {"idle", "loop", "sending", "start_value", "start", "data", "end", "quit",
                       "done"}
  BY DEF Pc, Start, Handler, Clean

(* A step of a thread is one of the labels, and the process's death another. *)
LEMMA LabelType ==
  ASSUME NEW t \in Thread
  PROVE  Pc[t] \subseteq Labels /\ "dead" \in Labels /\ "dead" \notin Pc[t]
<1>1. t \in {"main", "ping", "measure", "transfer"}
  BY DEF Thread
<1>2. Pc[t] \subseteq Labels /\ "dead" \in Labels
  BY <1>1 DEF Labels
<1>3. "dead" \notin Pc[t]
  BY <1>1, PcSets
<1> QED BY <1>2, <1>3

(* A descriptor is not the listening socket. *)
LEMMA FdType == Fd \subseteq Nat /\ LISTEN \notin Fd /\ 0 \notin Fd
<1>1. Cardinality(Conn) \in Nat
  BY ServerAssumption, FS_CardinalityType
<1> QED BY <1>1 DEF Fd, LISTEN

(* A thread goes to its next step. *)
LEMMA GotoPc ==
  ASSUME PcInv, NEW t \in Thread, NEW l \in Pc[t], Goto(t, l)
  PROVE  /\ pc' \in [Thread -> Labels] /\ pc'[t] = l
         /\ \A u \in Thread : u # t => pc'[u] = pc[u]
         /\ \A u \in Thread : pc'[u] \in Pc[u] \cup {"dead"}
<1>1. l \in Labels
  BY LabelType
<1> QED BY <1>1 DEF PcInv, Goto

(* The process ends. *)
LEMMA StopPc ==
  ASSUME NEW how \in {"exited", "killed"}, Stop(how)
  PROVE  PcInv' /\ \A t \in Thread : pc'[t] = "dead"
<1>1. \A t \in Thread : pc'[t] = "dead"
  BY DEF Stop
<1>2. pc' \in [Thread -> Labels]
  BY LabelType DEF Stop
<1> QED BY <1>1, <1>2 DEF PcInv, AtClient, AtEvent, Thread, Stop

(* A thread goes on, at the client it was at or at another. *)
LEMMA GotoInv ==
  ASSUME PcInv, NEW t \in Thread, NEW l \in Pc[t], Goto(t, l),
         l \in AtClient => cur'[t] # None,
         \A u \in Thread : u # t => cur'[u] = cur[u],
         l \in AtEvent => event' \in Fd,
         (event' = event /\ process' = process) \/ t = "main"
  PROVE  PcInv'
<1>1. /\ pc' \in [Thread -> Labels] /\ pc'[t] = l
      /\ \A u \in Thread : u # t => pc'[u] = pc[u]
      /\ \A u \in Thread : pc'[u] \in Pc[u] \cup {"dead"}
  BY GotoPc
<1>2. ASSUME NEW u \in Thread, pc'[u] \in AtClient PROVE cur'[u] # None
  BY <1>1, <1>2 DEF PcInv
<1>3. pc'["main"] \in AtEvent => event' \in Fd
  BY <1>1 DEF PcInv, Thread
<1>4. pc'["main"] = "dead" => process' # "up"
  BY <1>1, LabelType DEF PcInv, Thread
<1> QED BY <1>1, <1>2, <1>3, <1>4 DEF PcInv

(* The iteration of one thread goes on, or none does. *)
LEMMA IterChange ==
  ASSUME IterType, NEW t \in Thread, NEW x \in SUBSET Fd, NEW p \in Place,
         todo' = Set(todo, t, x) \/ todo' = todo, at' = Set(at, t, p) \/ at' = at,
         stray' = stray \ {t} \/ stray' = stray
  PROVE  /\ IterType'
         /\ \A u \in Thread : u # t => todo'[u] = todo[u] /\ at'[u] = at[u]
                                      /\ (u \in stray' <=> u \in stray)
  BY DEF IterType, Set

(* No iteration goes on. *)
LEMMA IterSame == ASSUME IterType, UNCHANGED iter PROVE IterType'
  BY DEF IterType, iter

(* One thread comes to another client, or none does. *)
LEMMA CurChange ==
  ASSUME IterInv, IterType', NEW t \in Thread, NEW c \in Someone',
         cur' = Set(cur, t, c) \/ cur' = cur, Accepted \subseteq Accepted'
  PROVE  IterInv' /\ \A u \in Thread : u # t => cur'[u] = cur[u]
<1>1. Someone \subseteq Someone'
  BY DEF Someone
<1> QED BY <1>1 DEF IterInv, Set

(* The tables as they are still hold accepted clients. *)
LEMMA TableSame ==
  ASSUME TableInv, UNCHANGED <<owner, clients, keys>>, Accepted \subseteq Accepted'
  PROVE  TableInv'
<1>1. Someone \subseteq Someone'
  BY DEF Someone
<1> QED BY <1>1 DEF TableInv

(* The stack is kept: its frames stay good unless there are none. *)
LEMMA StackSame ==
  ASSUME StackInv, stack' = stack,
         \/ pc'["main"] = "dead"
         \/ pc["main"] # "dead" /\ (pc'["main"] \in Clean <=> pc["main"] \in Clean),
         stack = <<>> \/ (event' = event /\ map' = map /\ sock' = sock)
  PROVE  StackInv'
<1>1. CASE stack = <<>>
  <2>1. <<>> \in Seq(GoodFrame')
    BY EmptySeq
  <2> QED BY <1>1, <2>1 DEF StackInv
<1>2. CASE event' = event /\ map' = map /\ sock' = sock
  <2>1. GoodFrame' = GoodFrame
    BY <1>2 DEF GoodFrame, Someone, Accepted
  <2> QED BY <2>1 DEF StackInv
<1> QED BY <1>1, <1>2

(* The strong invariant has the types in it. *)
LEMMA TypesHold == ASSUME TypeInv PROVE TypeOK
<1> USE DEF TypeInv
<1>1. Someone \subseteq Conn \cup {None}
  BY DEF Someone, Accepted
<1>2. \A t \in Thread : /\ pc[t] \in Pc[t] \cup {"dead"} /\ todo[t] \subseteq Fd
                        /\ at[t] \in Fd \cup {0} /\ cur[t] \in Conn \cup {None}
  BY <1>1 DEF PcInv, IterInv, IterType, Place
<1>3. stray \subseteq Thread /\ keys \subseteq Fd
      /\ owner \in [Fd -> Conn \cup {None}] /\ clients \in [Fd -> Conn \cup {None}]
  BY <1>1 DEF IterInv, IterType, TableInv
<1>4. \A i \in 1..Len(stack) : stack[i].pc \in Pc["main"]
  <2>1. \A i \in 1..Len(stack) : stack[i] \in GoodFrame
    BY ElementOfSeq DEF StackInv
  <2> QED BY <2>1 DEF GoodFrame
<1>5. DataInv
  OBVIOUS
<1> QED BY <1>2, <1>3, <1>4, <1>5 DEF TypeOK, DataInv

(* The process ends, and nothing else changes. *)
LEMMA EndType ==
  ASSUME TypeInv, NEW how \in {"exited", "killed"}, End(how)
  PROVE  TypeInv'
<1> USE DEF TypeInv, End
<1>1. PcInv' /\ pc'["main"] = "dead"
  BY StopPc DEF Thread
<1>2. IterInv' /\ TableInv'
  BY DEF IterInv, IterType, TableInv, Someone, Accepted, registry, net, iter
<1>3. StackInv'
  BY <1>1, StackSame DEF handling, registry
<1>4. MapInv'
  BY <1>1 DEF MapInv
<1>5. DataInv'
  BY DEF DataInv, Stop, handling, net, registry, history
<1> QED BY <1>1, <1>2, <1>3, <1>4, <1>5

(* The main thread is in clean() if it has frames to return to. *)
LEMMA NoFrames ==
  ASSUME TypeInv, pc["main"] \in Start \cup Handler \cup {"exit"}
  PROVE  stack = <<>> /\ pc["main"] \notin Clean /\ pc["main"] # "dead"
<1>1. pc["main"] \notin Clean /\ pc["main"] # "dead"
  BY DEF Start, Handler, Clean
<1> QED BY <1>1 DEF TypeInv, StackInv

(* clean() has frames. *)
LEMMA Frames == ASSUME TypeInv, pc["main"] \in Clean PROVE stack # <<>> /\ pc["main"] # "dead"
<1>1. pc["main"] # "dead"
  BY DEF Clean
<1> QED BY <1>1 DEF TypeInv, StackInv

(* clean() is called. *)
LEMMA CallType ==
  ASSUME TypeInv, NEW l \in Pc["main"], pc["main"] # "dead", CallClean(Frame(l)),
         l = pc["main"] \/ (pc["main"] \notin Clean /\ l = "exit"),
         UNCHANGED <<cur, event, sock, owner, clients, keys, map>>,
         pc["main"] = "exit" => map = "destroyed"
  PROVE  /\ PcInv' /\ IterInv' /\ TableInv' /\ StackInv' /\ MapInv'
         /\ pc'["main"] = "notify" /\ Len(stack') = Len(stack) + 1
         /\ \A t \in Thread \ {"main"} : pc'[t] = pc[t]
<1> USE DEF TypeInv, CallClean
<1> DEFINE fr == Frame(l)
<1>0. "main" \in Thread /\ "notify" \in Pc["main"] /\ "notify" \in Clean
  BY PcSets DEF Thread, Clean
<1>1. PcInv'
  BY <1>0, GotoInv DEF AtClient, AtEvent
<1>2. pc'["main"] = "notify" /\ \A t \in Thread \ {"main"} : pc'[t] = pc[t]
  BY <1>0, GotoPc
<1>3. Accepted' = Accepted /\ Someone' = Someone
  BY DEF Accepted, Someone
<1>4. IterInv' /\ TableInv'
  <2>1. Fd \in SUBSET Fd /\ 0 \in Place /\ None \in Someone
    BY DEF Someone, Place
  <2>2. IterType'
    BY <1>0, <2>1, IterChange DEF IterInv
  <2> QED BY <1>0, <1>3, <2>1, <2>2, CurChange, TableSame
<1>5. fr \in GoodFrame /\ fr.pc = l
  <2>1. todo["main"] \in SUBSET Fd /\ at["main"] \in Place /\ cur["main"] \in Someone
    BY <1>0 DEF IterInv, IterType
  <2>2. Someone \subseteq Conn \cup {None}
    BY DEF Someone, Accepted
  <2>3. l \in AtClient => cur["main"] # None
    BY <1>0 DEF PcInv, AtClient
  <2>4. l \in AtEvent => event \in Fd
    BY DEF PcInv, AtEvent
  <2>5. map # "none" => l # "init"
    BY DEF MapInv
  <2> QED BY <2>1, <2>2, <2>3, <2>4, <2>5 DEF GoodFrame, Frame
<1> HIDE DEF fr
<1>6. /\ stack \in Seq(GoodFrame) /\ <<fr>> \in Seq(GoodFrame) /\ Len(<<fr>>) = 1
      /\ <<fr>>[1] = fr /\ stack' = <<fr>> \o stack
  BY <1>5 DEF StackInv, fr
<1>7. /\ stack' \in Seq(GoodFrame) /\ Len(stack') = 1 + Len(stack) /\ Len(stack) \in Nat
      /\ \A i \in 1..Len(stack') : stack'[i] = IF i <= 1 THEN <<fr>>[i] ELSE stack[i - 1]
  BY <1>6, ConcatProperties, LenProperties
<1>8. GoodFrame' = GoodFrame
  BY <1>3 DEF GoodFrame
<1>9. stack' # <<>>
  BY <1>7, EmptySeq
<1>10. ASSUME NEW i \in 1..Len(stack') PROVE stack'[i].pc \in Clean <=> i < Len(stack')
  <2>1. CASE i = 1
    <3>1. stack'[i].pc = l
      BY <1>5, <1>6, <1>7, <2>1
    <3>2. l \in Clean <=> stack # <<>>
      BY DEF StackInv, Clean
    <3>3. stack # <<>> <=> Len(stack) > 0
      BY <1>6, <1>7, EmptySeq
    <3> QED BY <1>7, <2>1, <3>1, <3>2, <3>3
  <2>2. CASE i > 1
    <3>1. stack'[i] = stack[i - 1] /\ i - 1 \in 1..Len(stack)
      BY <1>7, <2>2
    <3>2. stack[i - 1].pc \in Clean <=> i - 1 < Len(stack)
      BY <3>1 DEF StackInv
    <3> QED BY <1>7, <3>1, <3>2
  <2> QED BY <1>7, <2>1, <2>2
<1>11. StackInv'
  BY <1>0, <1>2, <1>7, <1>8, <1>9, <1>10 DEF StackInv
<1>12. MapInv'
  BY <1>2 DEF MapInv
<1> QED BY <1>1, <1>2, <1>4, <1>7, <1>11, <1>12

(* error() calls clean() and then exits. *)
LEMMA ErrorType ==
  ASSUME TypeInv, pc["main"] \in Start \cup Handler, error
  PROVE  /\ TypeInv' /\ pc'["main"] = "notify"
         /\ UNCHANGED <<cur, map, kicked, told, owner, clients, keys>>
<1>1. "exit" \in Pc["main"] /\ pc["main"] # "exit"
  BY PcSets DEF Start, Handler
<1>2. PcInv' /\ IterInv' /\ TableInv' /\ StackInv' /\ MapInv' /\ pc'["main"] = "notify"
  BY <1>1, NoFrames, CallType DEF error, handling, net, registry
<1>3. DataInv'
  BY DEF TypeInv, DataInv, error, CallClean, handling, net, registry
<1> QED BY <1>2, <1>3 DEF TypeInv, error, net, registry

(* The main thread goes on within a handler, or within clean(). *)
LEMMA MainGoto ==
  ASSUME TypeInv, NEW l \in Pc["main"], Goto("main", l), pc["main"] # "dead",
         l \in Clean <=> pc["main"] \in Clean,
         IterType', NEW c \in Someone', cur' = Set(cur, "main", c) \/ cur' = cur,
         l \in AtClient => cur'["main"] # None,
         l \in AtEvent => event' \in Fd,
         stack' = stack, stack = <<>> \/ (event' = event /\ map' = map /\ sock' = sock),
         Accepted \subseteq Accepted'
  PROVE  /\ PcInv' /\ IterInv' /\ StackInv'
         /\ pc'["main"] = l /\ \A t \in Thread \ {"main"} : pc'[t] = pc[t]
<1> USE DEF TypeInv
<1>0. "main" \in Thread
  BY DEF Thread
<1>2. IterInv' /\ \A u \in Thread : u # "main" => cur'[u] = cur[u]
  BY <1>0, CurChange
<1>3. pc'["main"] = l /\ \A t \in Thread \ {"main"} : pc'[t] = pc[t]
  BY <1>0, GotoPc
<1>4. PcInv'
  BY <1>0, <1>2, GotoInv
<1>5. StackInv'
  BY <1>3, StackSame
<1> QED BY <1>2, <1>3, <1>4, <1>5

(* The same, where nothing but the step changes of what MainGoto mentions. *)
LEMMA MainPass ==
  ASSUME TypeInv, NEW l \in Pc["main"], Goto("main", l), pc["main"] # "dead",
         l \in Clean <=> pc["main"] \in Clean,
         UNCHANGED <<iter, cur, stack, event, map, sock, owner, clients, keys>>,
         l \in AtClient => cur["main"] # None,
         l \in AtEvent => event \in Fd,
         map # "none", l \notin {"init", "exit"}
  PROVE  /\ PcInv' /\ IterInv' /\ StackInv' /\ TableInv' /\ MapInv'
         /\ pc'["main"] = l /\ \A t \in Thread \ {"main"} : pc'[t] = pc[t]
<1>0. Accepted' = Accepted /\ Someone' = Someone
  BY DEF Accepted, Someone
<1>1. None \in Someone' /\ IterType'
  BY IterSame DEF Someone, TypeInv, IterInv
<1>2. /\ PcInv' /\ IterInv' /\ StackInv'
      /\ pc'["main"] = l /\ \A t \in Thread \ {"main"} : pc'[t] = pc[t]
  BY <1>0, <1>1, MainGoto
<1>3. TableInv'
  BY <1>0, TableSame DEF TypeInv
<1>4. MapInv'
  BY <1>2 DEF MapInv
<1> QED BY <1>2, <1>3, <1>4

(* A handler ends: its variables are gone. *)
LEMMA DoneType ==
  ASSUME TypeInv, pc["main"] \in Handler, Goto("main", "event"), Done, IterType',
         UNCHANGED <<stack, map, sock>>
  PROVE  /\ PcInv' /\ IterInv' /\ StackInv' /\ MapInv'
         /\ pc'["main"] = "event" /\ \A t \in Thread \ {"main"} : pc'[t] = pc[t]
<1>0. Accepted' = Accepted /\ Someone' = Someone
  BY DEF Accepted, Someone
<1>1. /\ stack = <<>> /\ pc["main"] \notin Clean /\ pc["main"] # "dead"
      /\ None \in Someone'
      /\ "event" \in Pc["main"] /\ "event" \notin Clean \cup AtClient \cup AtEvent
  BY NoFrames, PcSets DEF Someone, Clean, AtClient, AtEvent
<1>2. /\ PcInv' /\ IterInv' /\ StackInv'
      /\ pc'["main"] = "event" /\ \A t \in Thread \ {"main"} : pc'[t] = pc[t]
  BY <1>0, <1>1, MainGoto DEF Done
<1>3. MapInv'
  BY <1>2 DEF TypeInv, MapInv, Handler
<1> QED BY <1>2, <1>3

(* Once a handler runs there is a map. *)
LEMMA MapMade ==
  ASSUME TypeInv, pc["main"] \in (Pc["main"] \ {"init", "notify"})
  PROVE  map # "none"
  BY PcSets DEF TypeInv, MapInv

(* send: the step it leads to, and what it may do to the peer and the process. *)
LEMMA SendType ==
  ASSUME TypeInv, NEW t \in Thread, NEW f \in Fd, NEW ok \in Pc[t], NEW failed \in Pc[t],
         Send(t, f, ok, failed)
  PROVE  /\ peer' \in [Conn -> {"away", "up", "closed", "reset", "gone"}]
         /\ process' \in {"up", "exited", "killed"}
         /\ \/ Goto(t, ok) /\ process' = process
            \/ Goto(t, failed) /\ process' = process
            \/ Stop("killed")
<1>1. process \in {"up", "exited", "killed"}
      /\ peer \in [Conn -> {"away", "up", "closed", "reset", "gone"}]
      /\ owner[f] \in Conn \cup {None}
  BY DEF TypeInv, DataInv, TableInv, Someone, Accepted
<1>2. CASE owner[f] = None
  BY <1>1, <1>2 DEF Send
<1>3. CASE owner[f] # None /\ peer[owner[f]] \in {"up", "closed"}
  BY <1>1, <1>3 DEF Send
<1>4. CASE owner[f] # None /\ peer[owner[f]] = "reset"
  BY <1>1, <1>4 DEF Send, Stop
<1> QED BY <1>2, <1>3, <1>4 DEF Send

(* The descriptor a callback reads from the client it is at. *)
LEMMA SocketType ==
  ASSUME TypeInv, NEW t \in Thread, pc[t] \in AtClient
  PROVE  SocketOf(t) \subseteq Fd
<1>1. cur[t] \in Accepted
  BY DEF TypeInv, PcInv, IterInv, Someone
<1>2. sock[cur[t]] \in Fd /\ \A c \in Conn : sock[c] \in Fd \cup {0}
  BY <1>1 DEF Accepted, TypeInv, DataInv
<1> QED BY <1>2 DEF SocketOf

(* close: the tables keep their types. *)
LEMMA CloseType ==
  ASSUME TypeInv, NEW f \in Fd, Close(f)
  PROVE  /\ owner' = [owner EXCEPT ![f] = None] /\ owner' \in [Fd -> Someone]
         /\ polled' \subseteq Conn /\ backlog' \subseteq Conn
         /\ inq' \in [Conn -> Mail \cup {None}]
         /\ peer' \in [Conn -> {"away", "up", "closed", "reset", "gone"}]
  BY DEF TypeInv, DataInv, TableInv, Close, Set, Someone

(* hashmap_delete: the tables keep their types, and so do the iterations. *)
LEMMA DeleteType ==
  ASSUME TypeInv, NEW f \in Fd, Delete(f)
  PROVE  /\ clients' = [clients EXCEPT ![f] = None] /\ freed' \subseteq Conn
         /\ UNCHANGED <<sock, map, max_size>> /\ IterType' /\ missed' \subseteq Conn
         /\ owner' = owner => TableInv'
<1> USE DEF TypeInv
<1>1. clients \in [Fd -> Conn \cup {None}] /\ clients[f] \in Conn \cup {None}
  BY DEF TableInv, Someone, Accepted
<1>2. /\ clients' = [clients EXCEPT ![f] = None] /\ freed' \subseteq Conn
      /\ UNCHANGED <<sock, map, max_size>> /\ keys' = keys \ {f}
  BY <1>1 DEF DataInv, Delete, Set
<1>3. owner' = owner => TableInv'
  <2>1. Someone' = Someone /\ None \in Someone
    BY <1>2 DEF Someone, Accepted
  <2> QED BY <1>2, <2>1 DEF TableInv
<1>4. IterType' /\ missed' \subseteq Conn
  <2>1. CASE Empty(f)
    BY <2>1 DEF Empty, IterInv, IterType, Place, DataInv
  <2>2. ASSUME NEW g \in keys \ {f}, MoveUp(f, g) PROVE <1>4!:
    <3>1. g \in Fd
      BY DEF TableInv
    <3>2. IterType'
      BY <2>2, <3>1 DEF MoveUp, IterInv, IterType, Place
    <3>3. missed' \subseteq Conn
      BY <1>1, <2>2 DEF MoveUp, DataInv
    <3> QED BY <3>2, <3>3
  <2>3. CASE UNCHANGED <<iter, missed>>
    BY <2>3, IterSame DEF IterInv, DataInv
  <2> QED BY <2>1, <2>2, <2>3 DEF Delete
<1> QED BY <1>2, <1>3, <1>4

(* A thread goes on with an iteration, wherever that is now. *)
LEMMA GoOnType ==
  ASSUME TypeInv, NEW t \in Thread, NEW l \in Pc[t], Goto(t, l), IterType',
         NEW c \in Someone, cur' = Set(cur, t, c), l \in AtClient => c # None,
         l \notin AtEvent, pc[t] # "dead",
         t = "main" => pc[t] \in Clean /\ l \in Clean /\ map # "none",
         UNCHANGED <<handling, net, registry, control, history>>
  PROVE  TypeInv'
<1> USE DEF TypeInv
<1>1. /\ Accepted' = Accepted /\ Someone' = Someone
      /\ UNCHANGED <<sock, event, map, owner, clients, keys, stack, process>>
  BY DEF Someone, Accepted, handling, net, registry, control
<1>2. IterInv' /\ cur'[t] = c /\ \A u \in Thread : u # t => cur'[u] = cur[u]
  BY <1>1, CurChange DEF IterInv, Set
<1>3. PcInv'
  BY <1>1, <1>2, GotoInv
<1>4. TableInv'
  BY <1>1, TableSame
<1>5. pc'[t] = l /\ (\A u \in Thread : u # t => pc'[u] = pc[u]) /\ "main" \in Thread
  BY GotoPc DEF Thread
<1>6. StackInv'
  BY <1>1, <1>5, StackSame DEF StackInv
<1>7. MapInv'
  BY <1>1, <1>5 DEF MapInv, Clean
<1>8. DataInv'
  BY DEF DataInv, handling, net, registry, control, history
<1> QED BY <1>2, <1>3, <1>4, <1>6, <1>7, <1>8

(* hashmap_iter by any thread: to the next entry. *)
LEMMA IterateType ==
  ASSUME TypeInv, NEW t \in Thread, NEW value \in Pc[t], NEW after \in Pc[t],
         NEW again \in SUBSET Fd, Iterate(t, value, after, again),
         {value, after} \cap (AtEvent \cup AtClient) = {}, pc[t] # "dead",
         t = "main" => {pc[t], value, after} \subseteq Clean
  PROVE  TypeInv'
<1>0. IterType /\ None \in Someone /\ todo[t] \in SUBSET Fd /\ 0 \in Place /\ Fd \subseteq Place
  BY DEF TypeInv, IterInv, IterType, Someone, Place
<1>1. CASE End("killed")
  BY <1>1, EndType
<1>2. ASSUME NEW f \in todo[t], map # "none", at' = Set(at, t, f),
             todo' = Set(todo, t, todo[t] \ {f}), cur' = Set(cur, t, None), Goto(t, value),
             UNCHANGED <<stray, handling, net, registry, control, history>>
      PROVE  TypeInv'
  <2>1. f \in Place /\ todo[t] \ {f} \in SUBSET Fd
    BY <1>0
  <2>2. IterType'
    BY <1>0, <1>2, <2>1, IterChange
  <2> QED BY <1>0, <1>2, <2>2, GoOnType
<1>3. CASE /\ map # "none" /\ todo' = Set(todo, t, again) /\ at' = Set(at, t, 0)
           /\ stray' = stray \ {t} /\ cur' = Set(cur, t, None) /\ Goto(t, after)
           /\ UNCHANGED <<handling, net, registry, control, history>>
  <2>1. IterType'
    BY <1>0, <1>3, IterChange
  <2> QED BY <1>0, <1>3, <2>1, GoOnType
<1> QED BY <1>1, <1>2, <1>3 DEF Iterate

(* hashmap_iter by any thread: the callback, with a client that was accepted. *)
LEMMA ReadType ==
  ASSUME TypeInv, NEW t \in Thread, NEW callback \in Pc[t], ReadValue(t, callback),
         callback \notin AtEvent, pc[t] # "dead",
         t = "main" => {pc[t], callback} \subseteq Clean /\ map # "none"
  PROVE  TypeInv'
<1>1. CASE End("killed")
  BY <1>1, EndType
<1>2. ASSUME NEW c \in Values(t), cur' = Set(cur, t, c), Goto(t, callback),
             UNCHANGED <<iter, handling, net, registry, control, history>>
      PROVE  TypeInv'
  <2>1. ValueAt(t) \in Someone
    BY DEF ValueAt, TypeInv, TableInv, IterInv, IterType, Place, Someone
  <2>2. c \in Accepted
    BY <2>1 DEF Values, Accepted, Someone
  <2>3. c \in Someone /\ c # None
    BY <2>2, ServerAssumption DEF Someone, Accepted
  <2>4. IterType'
    BY <1>2, IterSame DEF TypeInv, IterInv
  <2> QED BY <1>2, <2>3, <2>4, GoOnType
<1> QED BY <1>1, <1>2 DEF ReadValue

(* A send from one of the callbacks of a thread. *)
LEMMA SendStepType ==
  ASSUME TypeInv, NEW t \in Thread, NEW ok \in Pc[t], NEW failed \in Pc[t], NEW f \in Fd,
         Send(t, f, ok, failed), pc[t] # "dead",
         ok \in AtClient \/ failed \in AtClient => cur[t] # None,
         ok \notin AtEvent /\ failed \notin AtEvent,
         UNCHANGED <<iter, cur, handling, owner, registry, stack>>,
         t = "main" => pc[t] \in Clean /\ ok \in Clean /\ failed \in Clean /\ map # "none"
  PROVE  PcInv' /\ IterInv' /\ TableInv' /\ StackInv' /\ MapInv'
<1> USE DEF TypeInv
<1>1. /\ Accepted' = Accepted /\ sock' = sock /\ event' = event /\ map' = map
      /\ clients' = clients /\ Someone' = Someone /\ "main" \in Thread
  BY DEF Someone, Accepted, handling, registry, Thread
<1>2. IterInv' /\ TableInv'
  BY <1>1, IterSame, TableSame DEF IterInv, registry
<1>3. CASE Stop("killed")
  <2>1. PcInv' /\ pc'["main"] = "dead"
    BY <1>1, <1>3, StopPc
  <2> QED BY <1>1, <1>2, <2>1, StackSame DEF MapInv
<1>4. ASSUME NEW l \in {ok, failed}, Goto(t, l), process' = process
      PROVE  PcInv' /\ IterInv' /\ TableInv' /\ StackInv' /\ MapInv'
  <2>1. PcInv'
    BY <1>1, <1>4, GotoInv
  <2>2. pc'[t] = l /\ \A u \in Thread : u # t => pc'[u] = pc[u]
    BY <1>4, GotoPc
  <2>3. StackInv'
    BY <1>1, <1>4, <2>2, StackSame DEF StackInv
  <2>4. MapInv'
    BY <1>1, <1>4, <2>2 DEF MapInv, Clean
  <2> QED BY <1>2, <2>1, <2>3, <2>4
<1> QED BY <1>3, <1>4, SendType

(* The steps of main() up to the epoll loop. *)
LEMMA StartType == ASSUME TypeInv, init_server \/ CreateThreads PROVE TypeInv'
<1>0. /\ "main" \in Thread /\ "create" \in Pc["main"]
      /\ "create" \notin Clean \cup AtClient \cup AtEvent
      /\ None \in Someone /\ "init" \in Start
  BY PcSets DEF Thread, Clean, AtClient, AtEvent, Someone, Start
<1>1. CASE pc["main"] = "init" /\ error
  BY <1>0, <1>1, ErrorType
<1>2. CASE /\ pc["main"] = "init" /\ map' = "ok" /\ Goto("main", "create")
           /\ UNCHANGED <<iter, cur, handling, net, keys, clients, sock, freed, max_size, control,
                           history>>
  <2>1. stack = <<>> /\ pc["main"] \notin Clean /\ pc["main"] # "dead"
    BY <1>0, <1>2, NoFrames
  <2>2. /\ Accepted' = Accepted /\ Someone' = Someone /\ stack' = stack
        /\ UNCHANGED <<owner, clients, keys>> /\ IterType'
    BY <1>2, IterSame DEF Accepted, Someone, control, net, TypeInv, IterInv
  <2>3. PcInv' /\ IterInv' /\ StackInv' /\ pc'["main"] = "create"
    BY <1>0, <1>2, <2>1, <2>2, MainGoto
  <2>4. TableInv'
    BY <2>2, TableSame DEF TypeInv
  <2>5. MapInv'
    BY <1>2, <2>3 DEF MapInv
  <2>6. DataInv'
    BY <1>2 DEF TypeInv, DataInv, handling, net, control, history
  <2> QED BY <2>3, <2>4, <2>5, <2>6 DEF TypeInv
<1>3. CASE CreateThreads
  <2>1. /\ stack = <<>> /\ pc["main"] \notin Clean /\ pc["main"] # "dead" /\ map # "none"
    BY <1>0, <1>3, NoFrames, MapMade, PcSets DEF CreateThreads, Start
  <2>2. /\ pc'["main"] = "epoll"
        /\ \A t \in Thread : t # "main" => pc'[t] = "loop"
        /\ pc' = [t \in Thread |-> IF t = "main" THEN "epoll" ELSE "loop"]
    BY <1>0, <1>3 DEF CreateThreads
  <2>3. "epoll" \in Labels /\ "loop" \in Labels
    BY PcSets DEF Labels
  <2>4. \A t \in Thread : pc'[t] \in Pc[t] /\ pc'[t] \notin AtClient \cup AtEvent
    BY <2>2, PcSets DEF Thread, AtClient, AtEvent
  <2>5. PcInv'
    BY <1>0, <2>2, <2>3, <2>4 DEF PcInv
  <2>6. IterInv' /\ TableInv'
    BY <1>3 DEF TypeInv, CreateThreads, IterInv, IterType, TableInv, Someone, Accepted, net,
                registry, iter
  <2>7. StackInv'
    BY <1>3, <2>1, <2>2, StackSame DEF TypeInv, CreateThreads, control, Clean
  <2>8. MapInv'
    BY <1>3, <2>1, <2>2 DEF MapInv, CreateThreads, registry
  <2>9. DataInv'
    BY <1>3 DEF TypeInv, DataInv, CreateThreads, handling, net, registry, control, history
  <2> QED BY <2>5, <2>6, <2>7, <2>8, <2>9 DEF TypeInv
<1> QED BY <1>1, <1>2, <1>3 DEF init_server

(* The epoll loop up to accept. *)
LEMMA LoopType ==
  ASSUME TypeInv, receive_packets \/ handle_connection \/ accept_client \/ epoll_ctl
  PROVE  TypeInv'
<1> USE DEF TypeInv
<1>0. /\ "main" \in Thread /\ None \in Someone /\ IterType
      /\ {"epoll", "event", "accept", "read", "add", "put"} \subseteq Pc["main"]
      /\ {"epoll", "event", "accept", "read", "add", "put"} \cap Clean = {}
      /\ {"epoll", "event", "accept", "read"} \cap AtClient = {}
      /\ {"epoll", "event", "accept", "add", "put"} \cap AtEvent = {}
      /\ LISTEN = 0
  BY PcSets DEF Thread, Clean, AtClient, AtEvent, Someone, LISTEN, IterInv
<1>h. pc["main"] \in Handler
  BY DEF receive_packets, handle_connection, accept_client, epoll_ctl, Handler
<1>m. stack = <<>> /\ pc["main"] \notin Clean /\ pc["main"] # "dead" /\ map # "none"
  BY <1>h, NoFrames, MapMade, PcSets DEF Handler
<1>1. CASE receive_packets
  <2>1. Ready \subseteq Fd \cup {LISTEN}
    BY DEF Ready
  <2>2. PcInv' /\ IterInv' /\ TableInv' /\ StackInv' /\ MapInv'
    BY <1>0, <1>1, <1>m, MainPass DEF receive_packets, net, registry, control
  <2>3. DataInv'
    BY <1>1, <2>1 DEF receive_packets, DataInv, net, registry, control, history
  <2> QED BY <2>2, <2>3
<1>2. CASE handle_connection
  <2>1. CASE events = {} /\ Goto("main", "epoll") /\ UNCHANGED <<events, event>>
    <3>1. PcInv' /\ IterInv' /\ TableInv' /\ StackInv' /\ MapInv'
      BY <1>0, <1>2, <1>m, <2>1, MainPass DEF handle_connection, net, registry, control
    <3>2. DataInv'
      BY <1>2, <2>1 DEF handle_connection, DataInv, net, registry, control, history
    <3> QED BY <3>1, <3>2
  <2>2. ASSUME NEW f \in events, events' = events \ {f}, event' = f,
               Goto("main", IF f = LISTEN THEN "accept" ELSE "read")
        PROVE  TypeInv'
    <3> DEFINE l == IF f = LISTEN THEN "accept" ELSE "read"
    <3>1. f \in Fd \cup {LISTEN}
      BY DEF DataInv
    <3>2. l \in Pc["main"] /\ l \notin Clean /\ l \notin AtClient /\ (l \in AtEvent => event' \in Fd)
      BY <1>0, <2>2, <3>1
    <3>3. /\ UNCHANGED <<cur, stack, map, sock, owner, clients, keys>> /\ IterType'
          /\ Accepted' = Accepted /\ Someone' = Someone
      BY <1>0, <1>2, IterSame
      DEF handle_connection, net, registry, control, Accepted, Someone
    <3>4. PcInv' /\ IterInv' /\ StackInv' /\ pc'["main"] = l
      <4> HIDE DEF l
      <4>1. Goto("main", l)
        BY <2>2 DEF l
      <4> QED BY <1>0, <1>m, <3>2, <3>3, <4>1, MainGoto
    <3>5. TableInv'
      BY <3>3, TableSame
    <3>6. MapInv'
      BY <1>m, <3>3, <3>4 DEF MapInv
    <3>7. DataInv'
      BY <1>2, <2>2, <3>1 DEF handle_connection, DataInv, net, registry, control, history
    <3> QED BY <3>4, <3>5, <3>6, <3>7
  <2> QED BY <1>2, <2>1, <2>2 DEF handle_connection
<1>3. CASE accept_client
  <2>1. CASE error
    BY <1>h, <2>1, ErrorType
  <2>2. ASSUME NEW c \in backlog, NEW f \in Fd, owner[f] = None,
               owner' = Set(owner, f, c), sock' = Set(sock, c, f),
               backlog' = backlog \ {c}, cur' = Set(cur, "main", c), Goto("main", "add"),
               UNCHANGED <<iter, handling, polled, peer, inq, keys, clients, freed, map, max_size,
                           control, history>>
        PROVE  TypeInv'
    <3>1. c \in Conn /\ c # None
      BY ServerAssumption DEF DataInv
    <3>2. sock' \in [Conn -> Fd \cup {0}] /\ sock'[c] = f /\ f # 0
      BY <2>2, <3>1, FdType DEF DataInv, Set
    <3>3. /\ c \in Accepted' /\ c \in Someone' /\ Accepted \subseteq Accepted'
          /\ Someone \subseteq Someone'
      BY <2>2, <3>1, <3>2, FdType DEF Accepted, Someone, Set, DataInv
    <3>4. cur'["main"] = c /\ IterType'
      BY <1>0, <2>2, IterSame DEF IterInv, Set
    <3>5. PcInv' /\ IterInv' /\ StackInv' /\ pc'["main"] = "add"
      BY <1>0, <1>m, <2>2, <3>1, <3>3, <3>4, MainGoto DEF control
    <3>6. TableInv'
      BY <2>2, <3>3 DEF TableInv, Set
    <3>7. MapInv'
      BY <1>m, <2>2, <3>5 DEF MapInv
    <3>8. DataInv'
      BY <2>2, <3>2 DEF DataInv, handling, control, history
    <3> QED BY <3>5, <3>6, <3>7, <3>8
  <2> QED BY <1>3, <2>1, <2>2 DEF accept_client
<1>4. CASE epoll_ctl
  <2> DEFINE c == owner[sock[cur["main"]]]
  <2>1. CASE error
    BY <1>h, <2>1, ErrorType
  <2>2. CASE /\ c # None /\ polled' = polled \cup {c} /\ Goto("main", "put")
             /\ UNCHANGED <<iter, cur, handling, owner, peer, inq, backlog, registry,
                            control, history>>
    <3>1. cur["main"] \in Accepted
      BY <1>0, <1>4 DEF epoll_ctl, PcInv, IterInv, AtClient, Someone
    <3>2. c \in Conn
      BY <2>2, <3>1 DEF TableInv, Accepted, DataInv, Someone
    <3>3. cur["main"] # None
      BY <3>1, ServerAssumption DEF Accepted
    <3>4. PcInv' /\ IterInv' /\ TableInv' /\ StackInv' /\ MapInv'
      BY <1>0, <1>m, <2>2, <3>3, MainPass DEF registry, control, handling
    <3>5. DataInv'
      BY <2>2, <3>2 DEF DataInv, registry, control, handling, history
    <3> QED BY <3>4, <3>5
  <2> QED BY <1>4, <2>1, <2>2 DEF epoll_ctl
<1> QED BY <1>1, <1>2, <1>3, <1>4

(* hashmap_put stores a key. *)
LEMMA InsertType ==
  ASSUME TypeInv, NEW f \in Fd, Insert(f), at' \in [Thread -> Place]
  PROVE  IterType' /\ keys' = keys \cup {f} /\ keys' \subseteq Fd
<1>1. keys' = keys \cup {f} /\ keys' \subseteq Fd
  BY DEF Insert, TypeInv, TableInv
<1>2. todo' \in [Thread -> SUBSET Fd] /\ stray' \subseteq Thread
  BY DEF Insert, TypeInv, IterInv, IterType
<1> QED BY <1>1, <1>2 DEF IterType

(* The registration of a new client. *)
LEMMA PutType == ASSUME TypeInv, put_client_in_hashmap PROVE TypeInv'
<1> USE DEF TypeInv
<1> DEFINE c == cur["main"]
           f == sock[c]
<1>0. /\ "main" \in Thread /\ None \in Someone /\ IterType
      /\ {"event", "put", "put_value", "double"} \subseteq Pc["main"]
      /\ {"event", "put", "put_value", "double"} \cap Clean = {}
      /\ {"put", "put_value", "double"} \subseteq AtClient \cap Handler
      /\ {"put", "put_value", "double"} \cap AtEvent = {}
  BY PcSets DEF Thread, Clean, AtClient, AtEvent, Handler, Someone, IterInv
<1>h. pc["main"] \in {"put", "put_value", "double"}
  BY DEF put_client_in_hashmap, hashmap_double_size
<1>m. stack = <<>> /\ pc["main"] \notin Clean /\ pc["main"] # "dead" /\ map # "none"
  BY <1>0, <1>h, NoFrames, MapMade, PcSets
<1>f. c \in Accepted /\ c # None /\ f \in Fd
  BY <1>0, <1>h DEF PcInv, IterInv, Someone, Accepted, DataInv
<1>t. ASSUME NEW K \in SUBSET Fd, keys' = K, UNCHANGED <<sock, owner>>,
             \/ clients' = clients /\ keys \subseteq K
             \/ clients' = Set(clients, f, c) /\ keys \cup {f} \subseteq K
      PROVE  TableInv'
  <2>1. Someone' = Someone /\ c \in Someone
    BY <1>f, <1>t DEF Someone, Accepted
  <2>2. CASE clients' = clients
    BY <1>t, <2>1, <2>2 DEF TableInv
  <2>3. CASE clients' = Set(clients, f, c) /\ keys \cup {f} \subseteq K
    BY <1>t, <1>f, <2>1, <2>3 DEF TableInv, Set
  <2> QED BY <1>t, <2>2, <2>3
<1>g. ASSUME NEW l \in {"put", "put_value", "double"}, Goto("main", l), IterType', map' # "none",
             UNCHANGED <<cur, event, stack, sock>>
      PROVE  PcInv' /\ IterInv' /\ StackInv' /\ MapInv'
  <2>1. Accepted' = Accepted /\ Someone' = Someone
    BY <1>g DEF Accepted, Someone
  <2>2. PcInv' /\ IterInv' /\ StackInv' /\ pc'["main"] = l
    BY <1>0, <1>m, <1>f, <1>g, <2>1, MainGoto
  <2> QED BY <1>g, <2>2 DEF MapInv
<1>1. CASE /\ pc["main"] = "put" /\ ~Full
           /\ \/ f \in keys /\ UNCHANGED <<iter, keys>>
              \/ f \notin keys /\ Insert(f) /\ UNCHANGED at
           /\ clients' = Set(clients, f, c) /\ Goto("main", "event") /\ Done
           /\ UNCHANGED <<events, net, sock, freed, map, max_size, control, history>>
  <2>1. IterType' /\ keys' = keys \cup {f} /\ keys' \subseteq Fd
    <3>1. CASE f \in keys /\ UNCHANGED <<iter, keys>>
      BY <1>0, <3>1, IterSame DEF TableInv
    <3>2. CASE Insert(f) /\ UNCHANGED at
      <4>1. at' \in [Thread -> Place]
        BY <1>0, <3>2 DEF IterType
      <4> QED BY <1>f, <3>2, <4>1, InsertType
    <3> QED BY <1>1, <3>1, <3>2
  <2>2. PcInv' /\ IterInv' /\ StackInv' /\ MapInv'
    BY <1>0, <1>1, <2>1, DoneType DEF control
  <2>3. TableInv'
    BY <1>t, <1>1, <2>1 DEF net
  <2>4. DataInv'
    BY <1>1 DEF Done, DataInv, net, control, history
  <2> QED BY <2>2, <2>3, <2>4
<1>2. CASE /\ pc["main"] = "put" /\ ~Full
           /\ f \notin keys /\ Insert(f)
           /\ \E refilled \in SUBSET {t \in Thread \ {"main"} : pc[t] \in Reading /\ at[t] = 0} :
                at' = [t \in Thread |-> IF t \in refilled THEN f ELSE at[t]]
           /\ Goto("main", "put_value")
           /\ UNCHANGED <<cur, handling, net, clients, sock, freed, map, max_size, control, history>>
  <2>0. at' \in [Thread -> Place]
    BY <1>0, <1>2, <1>f DEF IterType, Place
  <2>1. IterType' /\ keys' = keys \cup {f} /\ keys' \subseteq Fd
    BY <1>2, <1>f, <2>0, InsertType
  <2>2. PcInv' /\ IterInv' /\ StackInv' /\ MapInv'
    BY <1>2, <1>g, <1>m, <2>1 DEF control, handling
  <2>3. TableInv'
    BY <1>t, <1>2, <2>1 DEF net
  <2>4. DataInv'
    BY <1>2 DEF DataInv, handling, net, control, history
  <2> QED BY <2>2, <2>3, <2>4
<1>3. CASE /\ pc["main"] = "put_value"
           /\ clients' = IF f \in keys THEN Set(clients, f, c) ELSE clients
           /\ Goto("main", "event") /\ Done
           /\ UNCHANGED <<iter, events, net, keys, sock, freed, map, max_size, control, history>>
  <2>1. PcInv' /\ IterInv' /\ StackInv' /\ MapInv'
    BY <1>0, <1>3, IterSame, DoneType DEF control
  <2>2. keys \in SUBSET Fd
    BY DEF TableInv
  <2>3. TableInv'
    BY <1>t, <1>3, <2>2 DEF net
  <2>4. DataInv'
    BY <1>3 DEF Done, DataInv, net, control, history
  <2> QED BY <2>1, <2>3, <2>4
<1>4. CASE /\ pc["main"] = "put" /\ Full
           /\ map' = IF map = "ok" THEN "doubling" ELSE map
           /\ stray' = stray \cup {t \in Thread \ {"main"} : pc[t] \notin Resting}
           /\ todo' = [t \in Thread |-> IF t \in stray' THEN Fd ELSE todo[t]]
           /\ Goto("main", "double")
           /\ UNCHANGED <<at, cur, handling, net, keys, clients, sock, freed, max_size, control,
                          history>>
  <2>1. IterType'
    BY <1>0, <1>4 DEF IterType
  <2>2. PcInv' /\ IterInv' /\ StackInv' /\ MapInv'
    BY <1>4, <1>g, <1>m, <2>1 DEF control, handling
  <2>3. TableInv'
    <3>1. keys \in SUBSET Fd
      BY DEF TableInv
    <3> QED BY <1>t, <1>4, <3>1 DEF net
  <2>4. DataInv'
    BY <1>4 DEF DataInv, handling, net, control, history
  <2> QED BY <2>2, <2>3, <2>4
<1>5. CASE /\ pc["main"] = "double"
           /\ map' = IF map = "doubling" THEN "ok" ELSE map
           /\ max_size' = 2 * max_size /\ Goto("main", "put")
           /\ UNCHANGED <<iter, cur, handling, net, keys, clients, sock, freed, control, history>>
  <2>1. PcInv' /\ IterInv' /\ StackInv' /\ MapInv'
    BY <1>0, <1>5, <1>g, <1>m, IterSame DEF control, handling
  <2>2. TableInv'
    <3>1. keys \in SUBSET Fd
      BY DEF TableInv
    <3> QED BY <1>t, <1>5, <3>1 DEF net
  <2>3. max_size' \in Nat \ {0} /\ map' \in {"none", "ok", "doubling", "destroyed"}
    BY <1>5 DEF DataInv
  <2>4. DataInv'
    BY <1>5, <2>3 DEF DataInv, handling, net, control, history
  <2> QED BY <2>1, <2>2, <2>4
<1>6. CASE End("killed")
  BY <1>6, EndType
<1> QED BY <1>1, <1>2, <1>3, <1>4, <1>5, <1>6 DEF put_client_in_hashmap, hashmap_double_size

(* The handlers of a client's messages. *)
LEMMA HandlerType ==
  ASSUME TypeInv, parse_packet \/ HandleMessage \/ CloseClient \/ delete_client
  PROVE  TypeInv'
<1> USE DEF TypeInv
<1>0. /\ "main" \in Thread /\ None \in Someone /\ IterType
      /\ {"event", "handle", "close", "delete"} \subseteq Pc["main"]
      /\ {"event", "handle", "close", "delete"} \cap Clean = {}
      /\ {"event", "handle", "close", "delete"} \cap AtClient = {}
      /\ LISTEN = 0
  BY PcSets DEF Thread, Clean, AtClient, Someone, LISTEN, IterInv
<1>h. pc["main"] \in Handler
  BY DEF parse_packet, HandleMessage, CloseClient, delete_client, Handler
<1>m. stack = <<>> /\ pc["main"] \notin Clean /\ pc["main"] # "dead" /\ map # "none"
  BY <1>h, NoFrames, MapMade, PcSets DEF Handler
<1>e. event \in Fd
  BY DEF parse_packet, HandleMessage, CloseClient, delete_client, PcInv, AtEvent
<1>d. ASSUME NEW how \in {"exited", "killed"}, End(how) PROVE TypeInv'
  BY <1>d, EndType
<1>i. CASE Ignore
  <2>1. PcInv' /\ IterInv' /\ StackInv' /\ MapInv'
    BY <1>0, <1>i, <1>h, DoneType, IterSame DEF Ignore, registry, control
  <2>2. TableInv'
    BY <1>i, TableSame DEF Ignore, registry, net, Accepted
  <2>3. DataInv'
    BY <1>i DEF Ignore, Done, DataInv, registry, net, control, history
  <2> QED BY <2>1, <2>2, <2>3
<1>p. ASSUME NEW l \in {"close"}, Pass("main", l), event \in Fd PROVE TypeInv'
  <2>1. PcInv' /\ IterInv' /\ TableInv' /\ StackInv' /\ MapInv'
    BY <1>0, <1>m, <1>p, MainPass DEF Pass, handling, net, registry, control
  <2>2. DataInv'
    BY <1>p DEF Pass, DataInv, handling, net, registry, control, history
  <2> QED BY <2>1, <2>2
<1>2. CASE parse_packet
  <2>1. CASE error
    BY <1>h, <2>1, ErrorType
  <2>2. CASE Pass("main", "close")
    BY <1>e, <1>2, <1>p, <2>2 DEF parse_packet
  <2>3. CASE LET c == owner[event]
             IN /\ c # None /\ inq[c] # None
                /\ mail' = inq[c] /\ inq' = Set(inq, c, None)
                /\ cur' = Set(cur, "main", c) /\ Goto("main", "handle")
                /\ UNCHANGED <<iter, events, event, owner, polled, peer, backlog, registry,
                               control, history>>
    <3>1. event \in Fd
      BY <1>2, <1>e DEF parse_packet
    <3>2. owner[event] \in Someone /\ owner[event] \in Conn /\ Someone' = Someone
          /\ Accepted' = Accepted /\ IterType'
      BY <1>0, <2>3, <3>1, IterSame DEF TableInv, Someone, Accepted, registry
    <3>3. PcInv' /\ IterInv' /\ StackInv' /\ pc'["main"] = "handle"
      BY <1>0, <1>m, <2>3, <3>1, <3>2, MainGoto DEF control
    <3>4. TableInv'
      BY <2>3, <3>2, TableSame DEF registry
    <3>5. MapInv'
      BY <1>m, <2>3, <3>3 DEF MapInv, registry
    <3>6. mail' \in Mail \cup {None} /\ inq' \in [Conn -> Mail \cup {None}]
      BY <2>3, <3>2 DEF DataInv, Set
    <3>7. DataInv'
      BY <2>3, <3>6 DEF DataInv, registry, control, history
    <3> QED BY <3>3, <3>4, <3>5, <3>7
  <2> QED BY <1>2, <2>1, <2>2, <2>3 DEF parse_packet
<1>3. CASE HandleMessage
  <2>e. event \in Fd
    BY <1>3, <1>e DEF HandleMessage
  <2>1. CASE Answer
    <3>1. /\ peer' \in [Conn -> {"away", "up", "closed", "reset", "gone"}]
          /\ process' \in {"up", "exited", "killed"}
          /\ Goto("main", "event") \/ Stop("killed")
      BY <1>0, <2>1, <2>e, SendType DEF Answer
    <3>2. /\ Accepted' = Accepted /\ Someone' = Someone
          /\ UNCHANGED <<owner, clients, keys, stack, map, sock>> /\ IterType'
      BY <1>0, <2>1, IterSame DEF Answer, Accepted, Someone, registry
    <3>3. TableInv'
      BY <3>2, TableSame
    <3>4. DataInv'
      BY <2>1, <3>1 DEF Answer, Done, DataInv, registry, history
    <3>5. CASE Goto("main", "event")
      BY <1>h, <2>1, <3>2, <3>3, <3>4, <3>5, DoneType DEF Answer
    <3>6. CASE Stop("killed")
      <4>1. PcInv' /\ pc'["main"] = "dead"
        BY <1>0, <3>6, StopPc
      <4>2. IterInv'
        BY <2>1, <3>2, <1>0, CurChange DEF Answer, Done
      <4>3. StackInv' /\ MapInv'
        BY <1>m, <3>2, <4>1, StackSame DEF MapInv
      <4> QED BY <3>3, <3>4, <4>1, <4>2, <4>3
    <3> QED BY <3>1, <3>5, <3>6
  <2> QED BY <1>3, <1>d, <1>i, <1>p, <2>e, <2>1 DEF HandleMessage, get_client_by_socket
<1>4. CASE CloseClient
  <2>e. event \in Fd
    BY <1>4, <1>e DEF CloseClient
  <2>1. /\ owner' = [owner EXCEPT ![event] = None] /\ owner' \in [Fd -> Someone]
        /\ polled' \subseteq Conn /\ backlog' \subseteq Conn
        /\ inq' \in [Conn -> Mail \cup {None}]
        /\ peer' \in [Conn -> {"away", "up", "closed", "reset", "gone"}]
    BY <1>4, <2>e, CloseType DEF CloseClient
  <2>2. /\ UNCHANGED <<cur, stack, event, map, sock, clients, keys>> /\ IterType'
        /\ Accepted' = Accepted /\ Someone' = Someone
    BY <1>0, <1>4, IterSame DEF CloseClient, handling, registry, control, Accepted, Someone
  <2>3. PcInv' /\ IterInv' /\ StackInv' /\ pc'["main"] = "delete"
    BY <1>0, <1>4, <1>m, <2>e, <2>2, MainGoto DEF CloseClient
  <2>4. TableInv'
    BY <2>1, <2>2 DEF TableInv
  <2>5. MapInv'
    BY <1>m, <2>2, <2>3 DEF MapInv
  <2>6. DataInv'
    BY <1>4, <2>1 DEF CloseClient, DataInv, handling, registry, control, history
  <2> QED BY <2>3, <2>4, <2>5, <2>6
<1>5. CASE delete_client
  <2>1. CASE /\ Delete(event) /\ Goto("main", "event") /\ Done
             /\ UNCHANGED <<events, net, control, told, kicked>>
    <3>1. /\ TableInv' /\ freed' \subseteq Conn /\ UNCHANGED <<sock, map, max_size>> /\ IterType'
          /\ missed' \subseteq Conn
      BY <1>5, <1>e, <2>1, DeleteType DEF delete_client, net
    <3>2. PcInv' /\ IterInv' /\ StackInv' /\ MapInv'
      BY <2>1, <1>h, <3>1, DoneType DEF control
    <3>3. DataInv'
      BY <2>1, <3>1 DEF Done, DataInv, net, control
    <3> QED BY <3>1, <3>2, <3>3
  <2> QED BY <1>5, <2>1, <1>d DEF delete_client
<1> QED BY <1>2, <1>3, <1>4, <1>5

(* The iterations of clean(). *)
LEMMA CleanIterType ==
  ASSUME TypeInv, broadcast_shutdown_notification \/ close_clients_sockets
  PROVE  TypeInv'
<1> USE DEF TypeInv
<1>0. /\ "main" \in Thread /\ {} \in SUBSET Fd /\ 0 \in Place /\ None \in Someone /\ IterType
      /\ Clean \subseteq Pc["main"] /\ Clean \cap AtClient = {"notice"} /\ Clean \cap AtEvent = {}
      /\ {"notify", "notify_value", "notice", "stop", "closing", "close_client", "destroy"}
           \subseteq Clean
  BY PcSets DEF Thread, Clean, AtClient, AtEvent, Someone, Place, IterInv
<1>1. CASE pc["main"] = "notify" /\ Iterate("main", "notify_value", "stop", {})
  BY <1>0, <1>1, IterateType
<1>2. CASE pc["main"] = "notify_value" /\ ReadValue("main", "notice")
  BY <1>0, <1>2, ReadType, MapMade
<1>3. CASE pc["main"] = "closing" /\ Iterate("main", "close_client", "destroy", {})
  BY <1>0, <1>3, IterateType
<1>4. CASE close_client_socket
  <2>1. pc["main"] = "close_client" /\ map # "none"
    BY <1>0, <1>4, MapMade DEF close_client_socket
  <2>2. CASE End("killed")
    BY <2>2, EndType
  <2>3. ASSUME NEW f \in Fd, UNCHANGED <<handling, registry, control, history>>,
               IF owner[f] # None THEN Close(f) /\ Goto("main", "closing") /\ UNCHANGED <<iter, cur>>
               ELSE /\ Goto("main", "destroy") /\ UNCHANGED <<net, cur>>
                    /\ todo' = Set(todo, "main", {}) /\ at' = Set(at, "main", 0)
                    /\ stray' = stray \ {"main"}
        PROVE  TypeInv'
    <3>1. /\ UNCHANGED <<cur, stack, event, map, sock, clients, keys, process>>
          /\ Accepted' = Accepted /\ Someone' = Someone
      BY <2>3 DEF handling, registry, control, Accepted, Someone
    <3>2. CASE owner[f] # None
      <4>1. Close(f) /\ Goto("main", "closing") /\ UNCHANGED iter
        BY <2>3, <3>2
      <4>2. /\ owner' \in [Fd -> Someone] /\ polled' \subseteq Conn /\ backlog' \subseteq Conn
            /\ inq' \in [Conn -> Mail \cup {None}]
            /\ peer' \in [Conn -> {"away", "up", "closed", "reset", "gone"}]
        BY <4>1, CloseType
      <4>3. IterType'
        BY <1>0, <4>1, IterSame
      <4>4. PcInv' /\ IterInv' /\ StackInv' /\ pc'["main"] = "closing"
        BY <1>0, <2>1, <3>1, <4>1, <4>3, MainGoto
      <4>5. TableInv' /\ MapInv'
        BY <2>1, <3>1, <4>2, <4>4 DEF TableInv, MapInv
      <4>6. DataInv'
        BY <2>3, <4>2 DEF DataInv, handling, registry, control, history
      <4> QED BY <4>4, <4>5, <4>6
    <3>3. CASE owner[f] = None
      <4>1. /\ Goto("main", "destroy") /\ UNCHANGED net
            /\ todo' = Set(todo, "main", {}) /\ at' = Set(at, "main", 0)
            /\ stray' = stray \ {"main"}
        BY <2>3, <3>3
      <4>2. IterType'
        BY <1>0, <4>1, IterChange
      <4>3. PcInv' /\ IterInv' /\ StackInv' /\ pc'["main"] = "destroy"
        BY <1>0, <2>1, <3>1, <4>1, <4>2, MainGoto
      <4>4. TableInv' /\ MapInv'
        BY <2>1, <3>1, <4>1, <4>3, TableSame DEF MapInv, net
      <4>5. DataInv'
        BY <2>3, <4>1 DEF DataInv, handling, registry, control, net, history
      <4> QED BY <4>3, <4>4, <4>5
    <3> QED BY <3>2, <3>3
  <2>4. (IF Lost("main") THEN Fd ELSE {at["main"]} \ {0}) \subseteq Fd
    BY <1>0 DEF IterType, Place
  <2> QED BY <1>4, <2>2, <2>3, <2>4 DEF close_client_socket
<1> QED BY <1>1, <1>2, <1>3, <1>4 DEF broadcast_shutdown_notification, close_clients_sockets

(* The other steps of clean(). *)
LEMMA CleanType ==
  ASSUME TypeInv,
         \/ notify_client_of_shutdown \/ StopThreads \/ JoinPingThread \/ server_t__destroy \/ Exit
  PROVE  TypeInv'
<1> USE DEF TypeInv
<1>0. /\ "main" \in Thread /\ None \in Someone /\ Fd \in SUBSET Fd /\ {} \in SUBSET Fd
      /\ Clean \subseteq Pc["main"] /\ Clean \cap AtClient = {"notice"} /\ Clean \cap AtEvent = {}
      /\ {"notify", "notice", "stop", "join", "joining", "closing", "destroy"} \subseteq Clean
      /\ IterType
  BY PcSets DEF Thread, Clean, AtClient, AtEvent, Someone, IterInv
<1>d. ASSUME NEW how \in {"exited", "killed"}, End(how) PROVE TypeInv'
  BY <1>d, EndType
<1>2. CASE notify_client_of_shutdown
  <2>1. /\ pc["main"] = "notice" /\ SocketOf("main") \subseteq Fd /\ cur["main"] \in Conn
        /\ map # "none"
    BY <1>0, <1>2, SocketType, MapMade, PcSets
    DEF notify_client_of_shutdown, AtClient, PcInv, IterInv, Someone, Accepted
  <2>2. PICK f \in Fd : Send("main", f, "notify", "notify")
    BY <1>2, <2>1 DEF notify_client_of_shutdown
  <2>3. PcInv' /\ IterInv' /\ TableInv' /\ StackInv' /\ MapInv'
    BY <1>0, <1>2, <2>1, <2>2, SendStepType DEF notify_client_of_shutdown
  <2>4. /\ peer' \in [Conn -> {"away", "up", "closed", "reset", "gone"}]
        /\ process' \in {"up", "exited", "killed"}
    BY <1>0, <2>2, SendType
  <2>5. DataInv'
    BY <1>2, <2>1, <2>4 DEF notify_client_of_shutdown, DataInv, handling, registry
  <2> QED BY <2>3, <2>5
<1>3. CASE StopThreads
  <2>1. map # "none" /\ pc["main"] = "stop"
    BY <1>3, MapMade, PcSets DEF StopThreads
  <2>2. PcInv' /\ IterInv' /\ TableInv' /\ StackInv' /\ MapInv'
    BY <1>0, <1>3, <2>1, MainPass DEF StopThreads, handling, net, registry
  <2>3. DataInv'
    BY <1>3 DEF StopThreads, DataInv, handling, net, registry, history
  <2> QED BY <2>2, <2>3
<1>4. CASE JoinPingThread
  <2>1. map # "none" /\ pc["main"] \in {"join", "joining"}
    BY <1>4, MapMade, PcSets DEF JoinPingThread
  <2>2. CASE Pass("main", "joining")
    <3>1. PcInv' /\ IterInv' /\ TableInv' /\ StackInv' /\ MapInv'
      BY <1>0, <2>1, <2>2, MainPass DEF Pass, handling, net, registry, control
    <3>2. DataInv'
      BY <2>2 DEF Pass, DataInv, handling, net, registry, control, history
    <3> QED BY <3>1, <3>2
  <2>3. CASE /\ todo' = Set(todo, "main", Fd) /\ Goto("main", "closing")
             /\ UNCHANGED <<at, stray, cur, handling, net, registry, control, history>>
    <3>1. /\ UNCHANGED <<cur, stack, event, map, sock, clients, owner, keys>>
          /\ Accepted' = Accepted /\ Someone' = Someone
      BY <2>3 DEF handling, net, registry, control, Accepted, Someone
    <3>2. IterType'
      BY <1>0, <2>3 DEF IterType, Set
    <3>3. PcInv' /\ IterInv' /\ StackInv' /\ pc'["main"] = "closing"
      BY <1>0, <2>1, <2>3, <3>1, <3>2, MainGoto
    <3>4. TableInv' /\ MapInv'
      BY <2>1, <3>1, <3>3, TableSame DEF MapInv
    <3>5. DataInv'
      BY <2>3 DEF DataInv, handling, net, registry, control, history
    <3> QED BY <3>3, <3>4, <3>5
  <2> QED BY <1>4, <1>d, <2>2, <2>3 DEF JoinPingThread
<1>7. CASE Exit
  BY <1>7, <1>d DEF Exit
<1>6. CASE server_t__destroy
  <2>1. /\ map # "none" /\ pc["main"] = "destroy" /\ stack # <<>>
    BY <1>0, <1>6, MapMade, Frames, PcSets DEF server_t__destroy
  <2>2. CASE ~End("killed")
    <3>1. /\ map' = "destroyed"
          /\ freed' = freed \cup ({clients[f] : f \in Fd} \ {None})
          /\ backlog' = {} /\ peer' = [c \in Conn |-> IF c \in backlog THEN "gone" ELSE peer[c]]
          /\ stack' = Tail(stack)
          /\ Goto("main", Head(stack).pc) /\ todo' = Set(todo, "main", Head(stack).todo)
          /\ at' = Set(at, "main", Head(stack).at) /\ cur' = Set(cur, "main", Head(stack).cur)
          /\ UNCHANGED <<stray, handling, owner, polled, inq, keys, clients, sock, max_size,
                         process, done, sigint, history>>
      BY <1>6, <2>2 DEF server_t__destroy
    <3> DEFINE fr == Head(stack)
    <3>2. /\ Head(stack) = stack[1] /\ Len(stack) \in Nat /\ Len(stack) >= 1
          /\ stack' \in Seq(GoodFrame) /\ Len(stack') = Len(stack) - 1
          /\ \A i \in 1..Len(stack') : stack'[i] = stack[i + 1]
          /\ fr \in GoodFrame
      BY <2>1, <3>1, HeadTailProperties, LenProperties, EmptySeq DEF StackInv
    <3>3. /\ fr.pc \in Pc["main"] /\ fr.todo \in SUBSET Fd /\ fr.at \in Place /\ fr.cur \in Someone
          /\ (fr.pc \in AtClient => fr.cur # None)
          /\ (fr.pc \in AtEvent => event \in Fd)
          /\ fr.pc # "init"
      BY <2>1, <3>2 DEF GoodFrame
    <3>4. fr.pc \in Clean <=> Len(stack) > 1
      BY <3>2 DEF StackInv
    <3> HIDE DEF fr
    <3>5. /\ Goto("main", fr.pc) /\ todo' = Set(todo, "main", fr.todo)
          /\ at' = Set(at, "main", fr.at) /\ cur' = Set(cur, "main", fr.cur)
          /\ UNCHANGED <<stray, event, sock, owner, clients, keys>>
          /\ Accepted' = Accepted /\ Someone' = Someone
      BY <3>1 DEF fr, handling, Accepted, Someone
    <3>i. IterType'
      BY <1>0, <3>3, <3>5, IterChange
    <3>6. IterInv' /\ cur'["main"] = fr.cur /\ \A u \in Thread : u # "main" => cur'[u] = cur[u]
      BY <1>0, <3>3, <3>5, <3>i, CurChange DEF IterInv, Set
    <3>7. PcInv' /\ pc'["main"] = fr.pc
      BY <1>0, <3>3, <3>5, <3>6, GotoInv, GotoPc
    <3>8. TableInv' /\ MapInv'
      BY <3>1, <3>3, <3>5, <3>7, TableSame DEF MapInv
    <3>9. StackInv'
      <4>1. GoodFrame' = GoodFrame
        BY <2>1, <3>1, <3>5 DEF GoodFrame
      <4>2. stack' # <<>> <=> Len(stack) > 1
        BY <3>2, EmptySeq
      <4>3. ASSUME NEW i \in 1..Len(stack') PROVE stack'[i].pc \in Clean <=> i < Len(stack')
        <5>1. i + 1 \in 1..Len(stack) /\ stack'[i] = stack[i + 1]
          BY <3>2
        <5>2. stack[i + 1].pc \in Clean <=> i + 1 < Len(stack)
          BY <5>1 DEF StackInv
        <5> QED BY <3>2, <5>1, <5>2
      <4> QED BY <3>2, <3>4, <3>7, <4>1, <4>2, <4>3 DEF StackInv
    <3>10. freed' \subseteq Conn
      BY <3>1 DEF DataInv, TableInv, Someone, Accepted
    <3>11. DataInv'
      BY <3>1, <3>10 DEF DataInv, handling, history
    <3> QED BY <3>6, <3>7, <3>8, <3>9, <3>11
  <2> QED BY <1>d, <2>2
<1> QED BY <1>2, <1>3, <1>4, <1>6, <1>7

(* SIGINT, at any step of the main thread. *)
LEMMA SignalType == ASSUME TypeInv, pc["main"] # "dead", SignalHandler PROVE TypeInv'
<1>1. pc["main"] \in Pc["main"]
  BY DEF TypeInv, PcInv, Thread
<1>2. "exit" \in Pc["main"] /\ "epoll" \notin Clean
  BY PcSets DEF Clean
<1>3. pc["main"] = "exit" => map = "destroyed"
  BY DEF TypeInv, MapInv
<1>4. PcInv' /\ IterInv' /\ TableInv' /\ StackInv' /\ MapInv'
  BY <1>1, <1>2, <1>3, CallType DEF SignalHandler, handling, net, registry
<1>5. DataInv'
  <2>1. sigint' \in BOOLEAN
    BY Zenon DEF SignalHandler
  <2> QED BY <2>1 DEF TypeInv, DataInv, SignalHandler, CallClean, handling, net, registry
<1> QED BY <1>4, <1>5 DEF TypeInv

(* What the steps of the other threads, the clients and the idle server have  *)
(* in common: they leave the main thread where it is, and its iteration and   *)
(* the map too, unless they delete a client after a kick.                     *)
Undeleted ==
  /\ todo'["main"] = todo["main"] /\ at'["main"] = at["main"]
  /\ "main" \in stray' <=> "main" \in stray
  /\ UNCHANGED <<missed, clients, keys>>
Aside ==
  /\ pc'["main"] \in {pc["main"], "dead"} /\ cur'["main"] = cur["main"]
  /\ UNCHANGED <<handling, sock, map, stack, told, sigint>>
  /\ Undeleted \/ (kicked' /\ \E f \in Fd : Delete(f))
  /\ kicked' \/ (owner' = owner /\ ~kicked)
  /\ pc'["ping"] = "kick_delete" => kicked'
  /\ pc["ping"] = "done" => pc'["ping"] = "done" \/ pc'["main"] = "dead"

(* The steps Aside stands for. *)
AsideStep ==
  \/ ping_and_timeout_in_thread \/ send_measurement_control_requests \/ transfer_data
  \/ \E c \in Conn : Connect(c) \/ ClientSend(c) \/ ClientLeave(c)
  \/ Idle

(* The ways in which the other threads go on. *)
LEMMA LoopAside ==
  ASSUME TypeInv, RegistryInv, NEW t \in Thread \ {"main"}, NEW l \in Pc[t], Loop(t, l),
         l \notin AtClient \cup AtEvent, t = "ping" => l # "kick_delete"
  PROVE  TypeInv' /\ Aside
<1> USE DEF TypeInv
<1> DEFINE k == IF done THEN "done" ELSE l
           x == IF done THEN {} ELSE Fd
<1>0. /\ t \in Thread /\ "main" \in Thread /\ None \in Someone /\ x \in SUBSET Fd
      /\ k \in Pc[t] /\ k \notin AtClient /\ k \notin AtEvent /\ (t = "ping" => k # "kick_delete")
  BY PcSets DEF Thread, Someone, AtClient, AtEvent
<1> HIDE DEF k, x
<1>1. /\ Goto(t, k) /\ todo' = Set(todo, t, x) /\ pc[t] = "loop"
      /\ UNCHANGED <<at, stray, cur, handling, net, registry, control, history>>
  BY DEF Loop, k, x
<1>2. /\ Accepted' = Accepted /\ Someone' = Someone
      /\ UNCHANGED <<event, map, sock, stack, owner, clients, keys, process, told, missed, kicked>>
  BY <1>1 DEF Accepted, Someone, handling, net, registry, control, history
<1>3. /\ IterInv' /\ todo'["main"] = todo["main"]
  <2>1. IterType' /\ todo'["main"] = todo["main"]
    BY <1>0, <1>1 DEF IterInv, IterType, Set
  <2> QED BY <1>1, <1>2, <2>1 DEF IterInv
<1>4. PcInv' /\ pc'[t] = k /\ \A u \in Thread : u # t => pc'[u] = pc[u]
  BY <1>0, <1>1, <1>2, GotoInv, GotoPc
<1>5. TableInv' /\ MapInv'
  BY <1>0, <1>2, <1>4, TableSame DEF MapInv
<1>6. StackInv'
  BY <1>0, <1>2, <1>4, StackSame
<1>7. DataInv'
  BY <1>1 DEF DataInv, handling, net, registry, control, history
<1>8. Aside
  BY <1>0, <1>1, <1>2, <1>3, <1>4 DEF Aside, Undeleted, RegistryInv, control, Thread
<1> QED BY <1>3, <1>4, <1>5, <1>6, <1>7, <1>8

(* The process ends in another thread. *)
LEMMA DeadAside ==
  ASSUME NEW how, Stop(how),
         UNCHANGED <<iter, cur, handling, registry, stack, history, sigint, owner>>
  PROVE  Aside
<1>1. pc'["main"] = "dead" /\ pc'["ping"] = "dead"
  BY DEF Stop, Thread
<1>2. Undeleted
  BY DEF Undeleted, iter, registry, history
<1> QED BY <1>1, <1>2 DEF Aside, registry, history

(* Another thread goes to its next step; nobody else's iteration changes. *)
LEMMA GotoAside ==
  ASSUME TypeInv, RegistryInv, NEW t \in Thread \ {"main"}, NEW l \in Pc[t], Goto(t, l),
         pc[t] \notin {"dead", "done"}, l # "kick_delete",
         \A u \in Thread : u # t => todo'[u] = todo[u] /\ at'[u] = at[u] /\ cur'[u] = cur[u]
                                  /\ (u \in stray' <=> u \in stray),
         UNCHANGED <<handling, owner, registry, stack, history, sigint>>
  PROVE  Aside
<1>0. t \in Thread /\ "main" \in Thread /\ t # "main" /\ "ping" \in Thread
  BY DEF Thread
<1>1. pc'[t] = l /\ \A u \in Thread : u # t => pc'[u] = pc[u]
  BY <1>0, GotoPc DEF TypeInv
<1>2. Undeleted
  BY <1>0 DEF Undeleted, registry, history
<1>3. pc'["ping"] = "kick_delete" => pc["ping"] = "kick_delete"
  BY <1>0, <1>1
<1>4. pc["ping"] = "done" => pc'["ping"] = "done"
  BY <1>0, <1>1
<1>5. UNCHANGED <<handling, sock, map, stack, told, sigint, kicked>>
  BY DEF registry, history
<1>6. pc'["main"] = pc["main"] /\ cur'["main"] = cur["main"]
  BY <1>0, <1>1
<1> QED BY <1>2, <1>3, <1>4, <1>5, <1>6 DEF Aside, RegistryInv

(* An iteration of another thread: to the next entry. *)
LEMMA IterateAside ==
  ASSUME TypeInv, RegistryInv, NEW t \in Thread \ {"main"}, NEW value \in Pc[t],
         NEW after \in Pc[t], NEW again \in SUBSET Fd, Iterate(t, value, after, again),
         {value, after} \cap (AtEvent \cup AtClient) = {}, pc[t] \notin {"dead", "done"}
  PROVE  TypeInv' /\ Aside
<1>0. /\ t \in Thread /\ t # "main" /\ IterType /\ todo[t] \in SUBSET Fd
      /\ 0 \in Place /\ Fd \subseteq Place /\ "kick_delete" \notin {value, after}
  BY DEF Thread, TypeInv, IterInv, IterType, Place, AtClient
<1>1. TypeInv'
  BY <1>0, IterateType
<1>2. CASE End("killed")
  BY <1>1, <1>2, DeadAside DEF End, net
<1>3. ASSUME NEW l \in {value, after}, Goto(t, l), NEW x \in SUBSET Fd, todo' = Set(todo, t, x),
             NEW p \in Place, at' = Set(at, t, p), stray' = stray \ {t} \/ stray' = stray,
             cur' = Set(cur, t, None),
             UNCHANGED <<handling, net, registry, control, history>>
      PROVE  Aside
  <2>1. \A u \in Thread : u # t => todo'[u] = todo[u] /\ at'[u] = at[u]
                                 /\ (u \in stray' <=> u \in stray)
    BY <1>0, <1>3, IterChange
  <2>2. \A u \in Thread : u # t => cur'[u] = cur[u]
    BY <1>0, <1>3 DEF TypeInv, IterInv, Set
  <2>3. UNCHANGED <<owner, stack, sigint>>
    BY <1>3 DEF net, control
  <2> QED BY <1>0, <1>3, <2>1, <2>2, <2>3, GotoAside
<1>4. ASSUME NEW f \in todo[t], at' = Set(at, t, f), todo' = Set(todo, t, todo[t] \ {f}),
             cur' = Set(cur, t, None), Goto(t, value),
             UNCHANGED <<stray, handling, net, registry, control, history>>
      PROVE  Aside
  <2>1. f \in Place /\ todo[t] \ {f} \in SUBSET Fd
    BY <1>0
  <2> QED BY <1>3, <1>4, <2>1
<1>5. CASE /\ todo' = Set(todo, t, again) /\ at' = Set(at, t, 0) /\ stray' = stray \ {t}
           /\ cur' = Set(cur, t, None) /\ Goto(t, after)
           /\ UNCHANGED <<handling, net, registry, control, history>>
  BY <1>0, <1>1, <1>3, <1>5
<1> QED BY <1>1, <1>2, <1>4, <1>5 DEF Iterate

(* An iteration of another thread: the callback. *)
LEMMA ReadAside ==
  ASSUME TypeInv, RegistryInv, NEW t \in Thread \ {"main"}, NEW callback \in Pc[t],
         ReadValue(t, callback), callback \notin AtEvent, callback # "kick_delete",
         pc[t] \notin {"dead", "done"}
  PROVE  TypeInv' /\ Aside
<1>0. t \in Thread /\ t # "main"
  BY DEF Thread
<1>1. TypeInv'
  BY <1>0, ReadType
<1>2. CASE End("killed")
  BY <1>1, <1>2, DeadAside DEF End, net
<1>3. ASSUME NEW c, cur' = Set(cur, t, c), Goto(t, callback),
             UNCHANGED <<iter, handling, net, registry, control, history>>
      PROVE  Aside
  <2>1. \A u \in Thread : u # t => todo'[u] = todo[u] /\ at'[u] = at[u] /\ cur'[u] = cur[u]
                                 /\ (u \in stray' <=> u \in stray)
    BY <1>0, <1>3 DEF TypeInv, IterInv, Set, iter
  <2>2. UNCHANGED <<owner, stack, sigint>>
    BY <1>3 DEF net, control
  <2> QED BY <1>0, <1>3, <2>1, <2>2, GotoAside
<1> QED BY <1>1, <1>2, <1>3 DEF ReadValue

(* A callback of another thread that sends. *)
LEMMA SendAside ==
  ASSUME TypeInv, RegistryInv, NEW t \in Thread \ {"main"}, NEW ok \in Pc[t],
         NEW failed \in Pc[t], SendToCurrent(t, ok, failed), pc[t] \in AtClient,
         ok \notin AtEvent /\ failed \notin AtEvent /\ "kick_delete" \notin {ok, failed}
  PROVE  TypeInv' /\ Aside
<1>0. /\ t \in Thread /\ "main" \in Thread /\ t # "main" /\ "ping" \in Thread
      /\ pc[t] # "dead" /\ pc[t] # "done" /\ cur[t] # None
  BY DEF Thread, AtClient, TypeInv, PcInv
<1>1. PICK f \in Fd : Send(t, f, ok, failed)
  BY <1>0, SocketType DEF SendToCurrent
<1>2. PcInv' /\ IterInv' /\ TableInv' /\ StackInv' /\ MapInv'
  BY <1>0, <1>1, SendStepType DEF SendToCurrent
<1>3. /\ peer' \in [Conn -> {"away", "up", "closed", "reset", "gone"}]
      /\ process' \in {"up", "exited", "killed"}
      /\ \/ Goto(t, ok) \/ Goto(t, failed) \/ Stop("killed")
  BY <1>0, <1>1, SendType
<1>4. DataInv'
  BY <1>3 DEF TypeInv, SendToCurrent, DataInv, handling, registry, history
<1>5. UNCHANGED <<iter, cur, handling, registry, stack, history, sigint, owner>>
  BY DEF SendToCurrent
<1>6. CASE Stop("killed")
  BY <1>2, <1>4, <1>5, <1>6, DeadAside DEF TypeInv
<1>7. ASSUME NEW l \in {ok, failed}, Goto(t, l) PROVE Aside
  BY <1>0, <1>5, <1>7, GotoAside DEF iter
<1> QED BY <1>2, <1>3, <1>4, <1>6, <1>7 DEF TypeInv

(* Another thread goes on without doing anything. *)
LEMMA PassAside ==
  ASSUME TypeInv, RegistryInv, NEW t \in Thread \ {"main"}, NEW l \in Pc[t], Pass(t, l),
         pc[t] \in AtClient, l \notin AtEvent, l # "kick_delete"
  PROVE  TypeInv' /\ Aside
<1> USE DEF TypeInv
<1>0. /\ t \in Thread /\ "main" \in Thread /\ t # "main" /\ "ping" \in Thread
      /\ pc[t] # "dead" /\ pc[t] # "done" /\ cur[t] # None
  BY DEF Thread, AtClient, PcInv
<1>1. /\ Goto(t, l) /\ UNCHANGED <<iter, cur, handling, registry, stack, history, sigint, owner>>
      /\ UNCHANGED <<event, map, sock, clients, keys, process>>
      /\ Accepted' = Accepted /\ Someone' = Someone
  BY DEF Pass, net, registry, control, handling, Accepted, Someone
<1>2. PcInv' /\ pc'[t] = l /\ \A u \in Thread : u # t => pc'[u] = pc[u]
  BY <1>0, <1>1, GotoInv, GotoPc
<1>3. IterInv' /\ TableInv' /\ MapInv'
  BY <1>0, <1>1, <1>2, IterSame, TableSame DEF IterInv, MapInv
<1>4. StackInv'
  BY <1>0, <1>1, <1>2, StackSame
<1>5. DataInv'
  BY DEF Pass, DataInv, handling, net, registry, control, history
<1>6. Aside
  BY <1>0, <1>1, GotoAside DEF iter
<1> QED BY <1>2, <1>3, <1>4, <1>5, <1>6

(* The ping thread. *)
LEMMA PingAside ==
  ASSUME TypeInv, RegistryInv, ping_and_timeout_in_thread
  PROVE  TypeInv' /\ Aside
<1> USE DEF TypeInv
<1>0. /\ "ping" \in Thread \ {"main"} /\ "main" \in Thread /\ Fd \in SUBSET Fd /\ {} \in SUBSET Fd
      /\ {"pinging", "ping_value", "ping", "kicking", "kick_value", "kick", "kick_delete", "loop"}
           \subseteq Pc["ping"]
      /\ {"pinging", "ping_value", "kicking", "kick_value", "loop"} \cap AtClient = {}
      /\ {"ping", "kick", "kick_delete"} \subseteq AtClient
      /\ Pc["ping"] \cap AtEvent = {} /\ "dead" \notin AtClient
  BY PcSets DEF Thread, AtClient, AtEvent
<1>1. CASE Loop("ping", "pinging")
  BY <1>0, <1>1, LoopAside
<1>2. CASE \/ pc["ping"] = "pinging" /\ Iterate("ping", "ping_value", "kicking", Fd)
           \/ pc["ping"] = "kicking" /\ Iterate("ping", "kick_value", "loop", {})
  BY <1>0, <1>2, IterateAside
<1>3. CASE \/ pc["ping"] = "ping_value" /\ ReadValue("ping", "ping")
           \/ pc["ping"] = "kick_value" /\ ReadValue("ping", "kick")
  BY <1>0, <1>3, ReadAside
<1>4. CASE ping_client
  <2>1. CASE SendToCurrent("ping", "pinging", "pinging")
    BY <1>0, <1>4, <2>1, SendAside DEF ping_client
  <2>2. CASE Pass("ping", "pinging")
    BY <1>0, <1>4, <2>2, PassAside DEF ping_client
  <2> QED BY <1>4, <2>1, <2>2 DEF ping_client
<1>5. CASE handle_client_inactivity
  <2>1. CASE Pass("ping", "kicking")
    BY <1>0, <1>5, <2>1, PassAside DEF handle_client_inactivity
  <2>2. CASE /\ \E f \in SocketOf("ping") : Close(f)
             /\ kicked' = TRUE /\ Goto("ping", "kick_delete")
             /\ UNCHANGED <<iter, cur, handling, registry, control, told, missed>>
    <3>1. pc["ping"] = "kick" /\ SocketOf("ping") \subseteq Fd /\ cur["ping"] # None
      BY <1>0, <1>5, SocketType DEF handle_client_inactivity, PcInv
    <3>2. /\ owner' \in [Fd -> Someone] /\ polled' \subseteq Conn /\ backlog' \subseteq Conn
          /\ inq' \in [Conn -> Mail \cup {None}]
          /\ peer' \in [Conn -> {"away", "up", "closed", "reset", "gone"}]
      BY <2>2, <3>1, CloseType
    <3>3. /\ Accepted' = Accepted /\ Someone' = Someone
          /\ UNCHANGED <<event, map, sock, stack, clients, keys, sigint, process>>
      BY <2>2 DEF Accepted, Someone, handling, registry, control
    <3>4. PcInv' /\ pc'["ping"] = "kick_delete" /\ \A u \in Thread : u # "ping" => pc'[u] = pc[u]
      BY <1>0, <2>2, <3>1, <3>3, GotoInv, GotoPc
    <3>5. IterInv' /\ TableInv' /\ MapInv'
      BY <1>0, <2>2, <3>2, <3>3, <3>4, IterSame DEF IterInv, TableInv, MapInv
    <3>6. StackInv'
      BY <1>0, <3>3, <3>4, StackSame
    <3>7. DataInv'
      <4>1. kicked' \in BOOLEAN
        BY <2>2, Zenon
      <4> QED BY <2>2, <3>2, <4>1 DEF DataInv, handling, registry, control
    <3>8. Aside
      <4>1. Undeleted
        BY <2>2, <3>3 DEF Undeleted, iter
      <4> QED BY <1>0, <2>2, <3>1, <3>3, <3>4, <4>1 DEF Aside
    <3> QED BY <3>4, <3>5, <3>6, <3>7, <3>8
  <2> QED BY <1>5, <2>1, <2>2 DEF handle_client_inactivity
<1>6. CASE KickDelete
  <2>1. pc["ping"] = "kick_delete" /\ SocketOf("ping") \subseteq Fd /\ kicked
    BY <1>0, <1>6, SocketType DEF KickDelete, RegistryInv
  <2>2. CASE End("killed")
    BY <2>2, EndType, DeadAside DEF End, net
  <2>3. ASSUME NEW f \in Fd, Delete(f), Goto("ping", "kicking"),
               UNCHANGED <<cur, handling, net, control, told, kicked>>
        PROVE  TypeInv' /\ Aside
    <3>1. /\ TableInv' /\ freed' \subseteq Conn /\ UNCHANGED <<sock, map, max_size>> /\ IterType'
          /\ missed' \subseteq Conn
      BY <2>3, DeleteType DEF net
    <3>2. /\ Accepted' = Accepted /\ Someone' = Someone
          /\ UNCHANGED <<event, stack, owner, sigint, process>>
      BY <2>3, <3>1 DEF Accepted, Someone, handling, net, control
    <3>3. PcInv' /\ pc'["ping"] = "kicking" /\ \A u \in Thread : u # "ping" => pc'[u] = pc[u]
      BY <1>0, <2>3, <3>2, GotoInv, GotoPc
    <3>4. IterInv' /\ MapInv'
      BY <1>0, <2>3, <3>1, <3>2, <3>3 DEF IterInv, MapInv
    <3>5. StackInv'
      BY <1>0, <3>1, <3>2, <3>3, StackSame
    <3>6. DataInv'
      BY <2>3, <3>1 DEF DataInv, handling, net, control
    <3>7. Aside
      BY <1>0, <2>1, <2>3, <3>1, <3>2, <3>3 DEF Aside
    <3> QED BY <3>1, <3>3, <3>4, <3>5, <3>6, <3>7
  <2> QED BY <1>6, <2>1, <2>2, <2>3 DEF KickDelete
<1> QED BY <1>1, <1>2, <1>3, <1>4, <1>5, <1>6 DEF ping_and_timeout_in_thread

(* The measurement thread and the transfer thread. *)
LEMMA ServiceAside ==
  ASSUME TypeInv, RegistryInv, send_measurement_control_requests \/ transfer_data
  PROVE  TypeInv' /\ Aside
<1>0. /\ "measure" \in Thread \ {"main"} /\ "transfer" \in Thread \ {"main"} /\ {} \in SUBSET Fd
      /\ {"requesting", "request_value", "request", "loop"} \subseteq Pc["measure"]
      /\ {"sending", "start_value", "start", "data", "end", "quit"} \subseteq Pc["transfer"]
      /\ {"requesting", "request_value", "loop", "sending", "start_value", "quit"} \cap AtClient = {}
      /\ {"request", "start", "data", "end"} \subseteq AtClient
      /\ Pc["measure"] \cap AtEvent = {} /\ Pc["transfer"] \cap AtEvent = {}
  BY PcSets DEF Thread, AtClient, AtEvent
<1>1. CASE Loop("measure", "requesting")
  BY <1>0, <1>1, LoopAside
<1>2. CASE pc["measure"] = "requesting" /\ Iterate("measure", "request_value", "loop", {})
  BY <1>0, <1>2, IterateAside
<1>r. CASE \/ pc["measure"] = "request_value" /\ ReadValue("measure", "request")
           \/ pc["transfer"] = "start_value" /\ ReadValue("transfer", "start")
  BY <1>0, <1>r, ReadAside
<1>3. CASE pc["measure"] = "request" /\ SendToCurrent("measure", "requesting", "requesting")
  BY <1>0, <1>3, SendAside
<1>4. CASE Loop("transfer", "sending")
  BY <1>0, <1>4, LoopAside
<1>5. CASE pc["transfer"] = "sending" /\ Iterate("transfer", "start_value", "quit", {})
  BY <1>0, <1>5, IterateAside
<1>6. CASE broadcast_sample
  <2>1. CASE pc["transfer"] \in {"start", "data"} /\ SendToCurrent("transfer", "data", "quit")
    BY <1>0, <2>1, SendAside
  <2>2. CASE pc["transfer"] = "end" /\ SendToCurrent("transfer", "sending", "quit")
    BY <1>0, <2>2, SendAside
  <2>3. CASE pc["transfer"] = "data" /\ Pass("transfer", "end")
    BY <1>0, <2>3, PassAside
  <2>4. CASE pc["transfer"] = "start" /\ Pass("transfer", "quit")
    BY <1>0, <2>4, PassAside
  <2> QED BY <1>6, <2>1, <2>2, <2>3, <2>4 DEF broadcast_sample
<1>7. CASE End("exited")
  BY <1>7, EndType, DeadAside DEF End, net
<1> QED BY <1>1, <1>2, <1>r, <1>3, <1>4, <1>5, <1>6, <1>7
        DEF send_measurement_control_requests, transfer_data

(* The clients' own steps, and steps that change nothing. *)
LEMMA ClientAside ==
  ASSUME TypeInv, RegistryInv,
         (\E c \in Conn : Connect(c) \/ ClientSend(c) \/ ClientLeave(c)) \/ UNCHANGED vars
  PROVE  TypeInv' /\ Aside
<1>1. /\ UNCHANGED <<thread, handling, owner, polled, registry, control, history>>
      /\ backlog' \subseteq Conn
      /\ peer' \in [Conn -> {"away", "up", "closed", "reset", "gone"}]
      /\ inq' \in [Conn -> Mail \cup {None}]
  <2>1. CASE UNCHANGED vars
    BY <2>1 DEF vars, net, TypeInv, DataInv
  <2>2. ASSUME NEW c \in Conn, Connect(c) PROVE <1>1!:
    BY <2>2 DEF Connect, TypeInv, DataInv, Set
  <2>3. ASSUME NEW c \in Conn, ClientSend(c) PROVE <1>1!:
    BY <2>3 DEF ClientSend, TypeInv, DataInv, Set
  <2>4. ASSUME NEW c \in Conn, ClientLeave(c) PROVE <1>1!:
    BY <2>4 DEF ClientLeave, TypeInv, DataInv, Set
  <2> QED BY <2>1, <2>2, <2>3, <2>4
<1>2. UNCHANGED <<pc, todo, at, stray, cur, handling, sock, map, stack, told, missed, sigint, clients,
                keys, owner, kicked, process>>
  BY <1>1 DEF thread, iter, handling, registry, control, history
<1>3. Aside
  BY <1>2 DEF Aside, Undeleted, RegistryInv
<1>4. PcInv' /\ IterInv' /\ TableInv' /\ MapInv'
  BY <1>2 DEF TypeInv, PcInv, IterInv, IterType, TableInv, MapInv, Someone, Accepted, handling
<1>5. StackInv'
  BY <1>2 DEF TypeInv, StackInv, GoodFrame, Someone, Accepted, handling
<1>6. DataInv'
  BY <1>1 DEF TypeInv, DataInv, handling, registry, control, history
<1> QED BY <1>3, <1>4, <1>5, <1>6 DEF TypeInv

(* All of the steps of Aside. *)
LEMMA AsideHolds == ASSUME TypeInv, RegistryInv, AsideStep \/ UNCHANGED vars PROVE TypeInv' /\ Aside
  BY PingAside, ServiceAside, ClientAside DEF AsideStep, Idle

(* Every step keeps the types. *)
LEMMA TypeStep == ASSUME TypeInv, RegistryInv, [Next]_vars PROVE TypeInv'
<1>1. CASE MainStep
  BY <1>1, StartType, LoopType, PutType, HandlerType, CleanIterType, CleanType DEF MainStep
<1>2. CASE SignalHandler
  BY <1>2, SignalType DEF SignalHandler, TypeInv, PcInv
<1> QED BY <1>1, <1>2, AsideHolds DEF Next, AsideStep

-----------------------------------------------------------------------------
(* The registry is of no concern to clean(), to a server whose map is gone    *)
(* and to a process that has ended.                                           *)
LEMMA RegistryElse ==
  ASSUME RegistryInv,
         \/ pc'["ping"] = "dead"
         \/ pc'["ping"] = "loop"
         \/ pc'["ping"] = pc["ping"] /\ kicked' = kicked,
         pc'["main"] \in Clean \cup {"dead"} \/ map' = "destroyed"
  PROVE  RegistryInv'
  BY DEF RegistryInv, Clean, Handler, AtEvent

(* Start-up and the epoll loop. *)
LEMMA RegistryLoop ==
  ASSUME TypeInv, RegistryInv,
         \/ init_server \/ CreateThreads \/ receive_packets \/ handle_connection
         \/ accept_client \/ epoll_ctl
  PROVE  RegistryInv'
<1>0. /\ "main" \in Thread /\ "ping" \in Thread /\ LISTEN = 0 /\ LISTEN \notin Fd
      /\ {"create", "epoll", "event", "accept", "read", "add", "put"} \subseteq Pc["main"]
  BY PcSets, FdType DEF Thread, LISTEN
<1>h. pc["main"] \in Start \cup Handler
  BY DEF init_server, CreateThreads, receive_packets, handle_connection, accept_client,
         epoll_ctl, Handler, Start
<1>g. ASSUME NEW l \in Pc["main"], Goto("main", l)
      PROVE  pc'["main"] = l /\ pc'["ping"] = pc["ping"]
  BY <1>0, <1>g, GotoPc DEF TypeInv
<1>e. CASE error
  <2>1. pc'["main"] = "notify" /\ kicked' = kicked
    BY <1>e, <1>h, ErrorType
  <2>2. pc'["ping"] = pc["ping"]
    BY <1>e, <1>0, GotoPc, PcSets DEF TypeInv, error, CallClean
  <2> QED BY <2>1, <2>2, RegistryElse DEF Clean
<1>1. CASE init_server
  <2>1. CASE /\ pc["main"] = "init" /\ map' = "ok" /\ Goto("main", "create")
             /\ UNCHANGED <<iter, cur, handling, net, keys, clients, sock, freed, max_size, control,
                             history>>
    <3>1. pc'["main"] = "create" /\ pc'["ping"] = pc["ping"]
      BY <1>0, <1>g, <2>1
    <3>2. map = "none"
      BY <2>1 DEF TypeInv, MapInv
    <3> QED BY <2>1, <3>1, <3>2 DEF RegistryInv, Handler, AtEvent, handling, net, history
  <2> QED BY <1>1, <1>e, <2>1 DEF init_server
<1>2. CASE CreateThreads
  <2>1. pc'["main"] = "epoll" /\ pc'["ping"] = "loop" /\ pc["main"] = "create"
    BY <1>0, <1>2 DEF CreateThreads
  <2> QED BY <1>2, <2>1
          DEF RegistryInv, CreateThreads, Handler, AtEvent, handling, net, registry, history
<1>3. CASE receive_packets
  <2>1. pc'["main"] = "event" /\ pc'["ping"] = pc["ping"] /\ pc["main"] = "epoll"
    BY <1>0, <1>3, <1>g DEF receive_packets
  <2>2. \A f \in Ready \ {LISTEN} : f \in Fd /\ owner[f] # None
    BY ServerAssumption DEF Ready, TypeInv, DataInv
  <2> QED BY <1>3, <2>1, <2>2
          DEF RegistryInv, receive_packets, Handler, AtEvent, net, registry, history
<1>4. CASE handle_connection
  <2>1. CASE events = {} /\ Goto("main", "epoll") /\ UNCHANGED <<events, event>>
    <3>1. pc'["main"] = "epoll" /\ pc'["ping"] = pc["ping"] /\ pc["main"] = "event"
      BY <1>0, <1>4, <1>g, <2>1 DEF handle_connection
    <3> QED BY <1>4, <2>1, <3>1
            DEF RegistryInv, handle_connection, Handler, AtEvent, net, registry, history
  <2>2. ASSUME NEW f \in events, events' = events \ {f}, event' = f,
               Goto("main", IF f = LISTEN THEN "accept" ELSE "read")
        PROVE  RegistryInv'
    <3>0. (IF f = LISTEN THEN "accept" ELSE "read") \in Pc["main"]
      BY <1>0
    <3>1. /\ pc'["main"] = IF f = LISTEN THEN "accept" ELSE "read"
          /\ pc'["ping"] = pc["ping"] /\ pc["main"] = "event"
      BY <1>4, <1>g, <2>2, <3>0 DEF handle_connection
    <3> QED BY <1>4, <2>2, <3>1
            DEF RegistryInv, handle_connection, Handler, AtEvent, net, registry, history
  <2> QED BY <1>4, <2>1, <2>2 DEF handle_connection
<1>5. CASE accept_client
  <2>1. ASSUME NEW c \in backlog, NEW f \in Fd, owner[f] = None,
               owner' = Set(owner, f, c), sock' = Set(sock, c, f),
               cur' = Set(cur, "main", c), Goto("main", "add"),
               UNCHANGED <<iter, handling, polled, peer, inq, keys, clients, freed, map, max_size,
                           control, history>>
        PROVE  RegistryInv'
    <3>1. pc'["main"] = "add" /\ pc'["ping"] = pc["ping"] /\ pc["main"] = "accept"
      BY <1>0, <1>5, <1>g, <2>1 DEF accept_client
    <3>2. c \in Conn /\ sock'[c] = f /\ cur'["main"] = c
      BY <1>0, <2>1 DEF TypeInv, DataInv, IterInv, Set
    <3>3. /\ owner'[f] = c /\ \A g \in Fd : g # f => owner'[g] = owner[g]
          /\ owner' \in [Fd -> Conn \cup {None}]
      BY <2>1, <3>2 DEF TypeInv, TableInv, Set, Someone, Accepted
    <3>4. clients = owner => clients = [owner' EXCEPT ![f] = None]
      BY <2>1, <3>3 DEF TypeInv, TableInv
    <3>5. \A g \in events \ {LISTEN} : owner[g] # None => owner'[g] # None
      BY <2>1, <3>2, <3>3, <1>0, ServerAssumption DEF TypeInv, DataInv
    <3> QED BY <2>1, <3>1, <3>2, <3>3, <3>4, <3>5
            DEF RegistryInv, Handler, AtEvent, handling, history
  <2> QED BY <1>5, <1>e, <2>1 DEF accept_client
<1>6. CASE epoll_ctl
  <2>1. CASE /\ Goto("main", "put")
             /\ UNCHANGED <<iter, cur, handling, owner, peer, inq, backlog, registry,
                            control, history>>
    <3>1. pc'["main"] = "put" /\ pc'["ping"] = pc["ping"] /\ pc["main"] = "add"
      BY <1>0, <1>6, <1>g, <2>1 DEF epoll_ctl
    <3> QED BY <2>1, <3>1 DEF RegistryInv, Handler, AtEvent, handling, registry, history
  <2> QED BY <1>6, <1>e, <2>1 DEF epoll_ctl
<1> QED BY <1>1, <1>2, <1>3, <1>4, <1>5, <1>6

(* The registration of a new client. *)
LEMMA RegistryPut == ASSUME TypeInv, RegistryInv, put_client_in_hashmap PROVE RegistryInv'
<1> DEFINE c == cur["main"]
           f == sock[c]
<1>0. /\ "main" \in Thread /\ "ping" \in Thread
      /\ {"event", "put", "put_value", "double"} \subseteq Pc["main"]
  BY PcSets DEF Thread
<1>h. pc["main"] \in {"put", "put_value", "double"}
  BY DEF put_client_in_hashmap, hashmap_double_size
<1>f. f \in Fd
  BY <1>0, <1>h DEF TypeInv, PcInv, IterInv, AtClient, Someone, Accepted, DataInv
<1>g. ASSUME NEW l \in Pc["main"], Goto("main", l)
      PROVE  pc'["main"] = l /\ pc'["ping"] = pc["ping"]
  BY <1>0, <1>g, GotoPc DEF TypeInv
<1>v. ASSUME Goto("main", "event"), UNCHANGED <<events, owner, sock, map, kicked>>,
             ~kicked /\ map # "destroyed" => clients' = Set(clients, f, c)
      PROVE  RegistryInv'
  <2>1. pc'["main"] = "event" /\ pc'["ping"] = pc["ping"]
    BY <1>0, <1>g, <1>v
  <2>2. ASSUME owner[f] = c, clients = [owner EXCEPT ![f] = None], clients' = Set(clients, f, c)
        PROVE  clients' = owner
    BY <1>f, <2>2 DEF TypeInv, TableInv, Set
  <2> QED BY <1>h, <1>v, <2>1, <2>2 DEF RegistryInv, Handler, AtEvent
<1>l. ASSUME NEW l \in {"put", "put_value", "double"}, Goto("main", l),
             UNCHANGED <<cur, events, owner, clients, sock, kicked>>, map # "destroyed" \/ map' = map,
             l = "put_value" => f \in keys'
      PROVE  RegistryInv'
  <2>1. pc'["main"] = l /\ pc'["ping"] = pc["ping"]
    BY <1>0, <1>g, <1>l
  <2> QED BY <1>h, <1>l, <2>1 DEF RegistryInv, Handler, AtEvent
<1>1. CASE /\ pc["main"] = "put" /\ clients' = Set(clients, f, c) /\ Goto("main", "event")
           /\ UNCHANGED <<events, net, sock, freed, map, max_size, control, history>>
  BY <1>v, <1>1 DEF net, history
<1>2. CASE /\ Insert(f) /\ Goto("main", "put_value")
           /\ UNCHANGED <<cur, handling, net, clients, sock, freed, map, max_size, control, history>>
  BY <1>l, <1>2 DEF Insert, handling, net, history
<1>3. CASE /\ pc["main"] = "put_value"
           /\ clients' = IF f \in keys THEN Set(clients, f, c) ELSE clients
           /\ Goto("main", "event")
           /\ UNCHANGED <<iter, events, net, keys, sock, freed, map, max_size, control, history>>
  <2>1. ~kicked /\ map # "destroyed" => f \in keys
    BY <1>3 DEF RegistryInv
  <2> QED BY <1>v, <1>3, <2>1 DEF net, history
<1>4. CASE hashmap_double_size
  <2>1. PICK l \in {"put", "double"} : Goto("main", l)
    BY <1>4 DEF hashmap_double_size
  <2>2. /\ UNCHANGED <<cur, events, owner, clients, sock, kicked>>
        /\ map # "destroyed" \/ map' = map
    BY <1>4 DEF hashmap_double_size, handling, net, history
  <2> QED BY <1>l, <2>1, <2>2
<1>5. CASE End("killed")
  <2>1. pc'["main"] = "dead" /\ pc'["ping"] = "dead"
    BY <1>0, <1>5 DEF End, Stop
  <2> QED BY <2>1, RegistryElse
<1> QED BY <1>1, <1>2, <1>3, <1>4, <1>5 DEF put_client_in_hashmap

(* The handlers. *)
LEMMA RegistryHandler ==
  ASSUME TypeInv, RegistryInv,
         parse_packet \/ HandleMessage \/ CloseClient \/ delete_client
  PROVE  RegistryInv'
<1>0. /\ "main" \in Thread /\ "ping" \in Thread
      /\ {"event", "handle", "close", "delete"} \subseteq Pc["main"]
  BY PcSets DEF Thread
<1>h. pc["main"] \in Handler
  BY DEF parse_packet, HandleMessage, CloseClient, delete_client, Handler
<1>v. event \in Fd
  BY DEF parse_packet, HandleMessage, CloseClient, delete_client, TypeInv, PcInv, AtEvent
<1>g. ASSUME NEW l \in Pc["main"], Goto("main", l)
      PROVE  pc'["main"] = l /\ pc'["ping"] = pc["ping"]
  BY <1>0, <1>g, GotoPc DEF TypeInv
<1>e. CASE error
  <2>1. pc'["main"] = "notify" /\ kicked' = kicked
    BY <1>e, <1>h, ErrorType
  <2>2. pc'["ping"] = pc["ping"]
    BY <1>e, <1>0, GotoPc, PcSets DEF TypeInv, error, CallClean
  <2> QED BY <2>1, <2>2, RegistryElse DEF Clean
<1>d. ASSUME NEW how, Stop(how) PROVE RegistryInv'
  <2>1. pc'["main"] = "dead" /\ pc'["ping"] = "dead"
    BY <1>0, <1>d DEF Stop
  <2> QED BY <2>1, RegistryElse
<1>i. ASSUME pc["main"] = "handle", Goto("main", "event"), Done,
             UNCHANGED <<events, owner, registry, kicked>>
      PROVE  RegistryInv'
  <2>1. pc'["main"] = "event" /\ pc'["ping"] = pc["ping"]
    BY <1>0, <1>g, <1>i
  <2> QED BY <1>i, <2>1 DEF RegistryInv, Done, Handler, AtEvent, registry
<1>p. ASSUME pc["main"] \in {"read", "handle"}, Pass("main", "close"),
             pc["main"] = "read" => owner[event] # None
      PROVE  RegistryInv'
  <2>1. pc'["main"] = "close" /\ pc'["ping"] = pc["ping"]
    BY <1>0, <1>g, <1>p DEF Pass
  <2> QED BY <1>p, <2>1 DEF RegistryInv, Pass, Handler, AtEvent, registry, handling, net, history
<1>2. CASE parse_packet
  <2>0. pc["main"] = "read"
    BY <1>2 DEF parse_packet
  <2>1. CASE owner[event] # None /\ Pass("main", "close")
    BY <1>p, <2>0, <2>1
  <2>2. CASE /\ owner[event] # None
             /\ cur' = Set(cur, "main", owner[event]) /\ Goto("main", "handle")
             /\ UNCHANGED <<iter, events, event, owner, polled, peer, backlog, registry,
                            control, history>>
    <3>1. pc'["main"] = "handle" /\ pc'["ping"] = pc["ping"] /\ pc["main"] = "read"
      BY <1>0, <1>2, <1>g, <2>2 DEF parse_packet
    <3>2. cur'["main"] = owner[event]
      BY <1>0, <2>2 DEF TypeInv, IterInv, Set
    <3> QED BY <2>2, <3>1, <3>2 DEF RegistryInv, Handler, AtEvent, registry, history
  <2> QED BY <1>2, <1>e, <2>1, <2>2 DEF parse_packet
<1>3. CASE HandleMessage
  <2>1. CASE Answer
    <3>1. Goto("main", "event") \/ Stop("killed")
      BY <2>1 DEF Answer, Send
    <3> QED BY <1>3, <1>d, <1>i, <2>1, <3>1 DEF HandleMessage, Answer, history
  <2>2. CASE Ignore
    BY <1>3, <1>i, <2>2 DEF HandleMessage, Ignore, net, history
  <2>3. CASE Pass("main", "close")
    BY <1>3, <1>p, <2>3 DEF HandleMessage
  <2> QED BY <1>3, <1>d, <2>1, <2>2, <2>3 DEF HandleMessage, get_client_by_socket, End
<1>4. CASE CloseClient
  <2>1. pc'["main"] = "delete" /\ pc'["ping"] = pc["ping"] /\ pc["main"] = "close"
    BY <1>0, <1>4, <1>g DEF CloseClient
  <2>2. owner' = [owner EXCEPT ![event] = None] /\ event \in Fd
    BY <1>4, <1>v DEF CloseClient, Close, Set
  <2>3. \A f \in events \ {LISTEN} : f \in Fd
    BY DEF TypeInv, DataInv
  <2>4. event \notin events => \A f \in events \ {LISTEN} : owner'[f] = owner[f]
    BY <2>2, <2>3 DEF TypeInv, TableInv
  <2> QED BY <1>4, <2>1, <2>2, <2>4
          DEF RegistryInv, CloseClient, Handler, AtEvent, registry, handling, history
<1>5. CASE delete_client
  <2>1. CASE /\ Delete(event) /\ Goto("main", "event") /\ Done
             /\ UNCHANGED <<events, net, control, told, kicked>>
    <3>1. pc'["main"] = "event" /\ pc'["ping"] = pc["ping"] /\ pc["main"] = "delete"
      BY <1>0, <1>5, <1>g, <2>1 DEF delete_client
    <3>2. clients' = [clients EXCEPT ![event] = None] /\ sock' = sock /\ map' = map
      BY <2>1 DEF Delete, Set
    <3> QED BY <2>1, <3>1, <3>2 DEF RegistryInv, Handler, AtEvent, net
  <2> QED BY <1>5, <1>d, <2>1 DEF delete_client, End
<1> QED BY <1>2, <1>3, <1>4, <1>5

(* The steps of clean() do not kick anybody. *)
LEMMA RegistryClean ==
  ASSUME TypeInv, RegistryInv,
         \/ broadcast_shutdown_notification \/ notify_client_of_shutdown \/ StopThreads
         \/ JoinPingThread \/ close_clients_sockets \/ server_t__destroy \/ Exit \/ SignalHandler
  PROVE  RegistryInv'
<1>0. /\ "main" \in Thread /\ "ping" \in Thread /\ Clean \subseteq Pc["main"]
      /\ {"notify", "notify_value", "notice", "stop", "join", "joining", "closing", "close_client",
          "destroy"} = Clean
  BY PcSets DEF Thread, Clean
<1>g. ASSUME NEW l \in Clean, Goto("main", l), kicked' = kicked PROVE RegistryInv'
  <2>1. pc'["main"] = l /\ pc'["ping"] = pc["ping"]
    BY <1>0, <1>g, GotoPc DEF TypeInv
  <2> QED BY <1>g, <2>1, RegistryElse
<1>d. ASSUME NEW how, Stop(how) PROVE RegistryInv'
  <2>1. pc'["main"] = "dead" /\ pc'["ping"] = "dead"
    BY <1>0, <1>d DEF Stop
  <2> QED BY <2>1, RegistryElse
<1>1. CASE broadcast_shutdown_notification
  BY <1>0, <1>1, <1>g, <1>d DEF broadcast_shutdown_notification, Iterate, ReadValue, End, history
<1>2. CASE notify_client_of_shutdown
  <2>1. Goto("main", "notify") \/ Stop("killed")
    BY <1>2 DEF notify_client_of_shutdown, Send
  <2> QED BY <1>0, <1>2, <1>g, <1>d, <2>1 DEF notify_client_of_shutdown
<1>3. CASE StopThreads
  BY <1>0, <1>3, <1>g DEF StopThreads, history
<1>4. CASE JoinPingThread
  BY <1>0, <1>4, <1>g, <1>d DEF JoinPingThread, Pass, End, history
<1>5. CASE close_clients_sockets
  <2>1. CASE Iterate("main", "close_client", "destroy", {})
    BY <1>0, <1>g, <1>d, <2>1 DEF Iterate, End, history
  <2>2. CASE close_client_socket
    <3>1. \/ kicked' = kicked /\ (Goto("main", "closing") \/ Goto("main", "destroy"))
          \/ Stop("killed")
      BY <2>2 DEF close_client_socket, End, history
    <3> QED BY <1>0, <1>g, <1>d, <3>1
  <2> QED BY <1>5, <2>1, <2>2 DEF close_clients_sockets
<1>6. CASE server_t__destroy
  <2>1. CASE /\ map' = "destroyed" /\ Goto("main", Head(stack).pc) /\ kicked' = kicked
    <3>1. pc'["ping"] = pc["ping"]
      BY <1>0, <2>1 DEF Goto, TypeInv, PcInv
    <3> QED BY <2>1, <3>1, RegistryElse
  <2> QED BY <1>6, <1>d, <2>1 DEF server_t__destroy, End, history
<1>7. CASE Exit
  BY <1>7, <1>d DEF Exit, End
<1>8. CASE SignalHandler
  BY <1>0, <1>8, <1>g DEF SignalHandler, CallClean
<1> QED BY <1>1, <1>2, <1>3, <1>4, <1>5, <1>6, <1>7, <1>8

(* The tables differ only where a handler is at work, or after a kick. *)
LEMMA RegistryStep == ASSUME TypeInv, RegistryInv, [Next]_vars PROVE RegistryInv'
<1>1. CASE Aside
  <2>1. CASE kicked'
    BY <1>1, <2>1 DEF Aside, RegistryInv
  <2>2. CASE ~kicked'
    <3>1. CASE pc'["main"] = "dead"
      BY <1>1, <2>2, <3>1 DEF Aside, Undeleted, RegistryInv, Handler, AtEvent
    <3>2. CASE pc'["main"] = pc["main"]
      BY <1>1, <2>2, <3>2 DEF Aside, Undeleted, RegistryInv, handling
    <3> QED BY <1>1, <3>1, <3>2 DEF Aside
  <2> QED BY <2>1, <2>2
<1> QED BY <1>1, RegistryLoop, RegistryPut, RegistryHandler, RegistryClean, AsideHolds
        DEF Next, AsideStep, MainStep

-----------------------------------------------------------------------------
(* A client is deleted while clean() runs: those that are left have been told, *)
(* or the notification will still come to them, or the kick has hidden them.   *)
LEMMA ToldDelete ==
  ASSUME TypeInv, ToldInv, NEW f \in Fd, Delete(f), pc'["main"] = pc["main"],
         cur'["main"] = cur["main"], UNCHANGED <<map, told, stack>>,
         pc["ping"] = "done" => pc'["ping"] = "done"
  PROVE  ToldInv'
<1> USE DEF TypeInv
<1>0. "main" \in Thread /\ IterType
  BY DEF Thread, IterInv
<1>1. clients \in [Fd -> Conn \cup {None}] /\ keys \subseteq Fd
  BY DEF TableInv, Someone, Accepted
<1>2. \A h \in Registered' : h \in Registered /\ h \in Fd /\ h # f /\ clients'[h] = clients[h]
  BY <1>1 DEF Delete, Set, Registered
<1>3. Nested' = Nested
  BY DEF Nested
<1>4. missed \subseteq missed'
  BY DEF Delete, Empty, MoveUp
<1> DEFINE Kept(h) ==
             \/ clients[h] \in told \cup missed' \/ h \in todo'["main"]
             \/ pc["main"] = "notify_value" /\ h = at'["main"]
             \/ pc["main"] = "notice" /\ clients[h] = cur["main"]
           Hidden == \A h \in Registered : clients[h] \in missed'
<1>5. SUFFICES ASSUME map = "ok", pc["main"] \in {"notify", "notify_value", "notice"}
               PROVE  (\A h \in Registered \ {f} : Kept(h)) /\ ("main" \in stray' => Hidden)
  <2>1. CASE map = "ok" /\ pc["main"] \in {"notify", "notify_value", "notice"}
    BY <1>2, <1>5, <2>1 DEF ToldInv
  <2>2. CASE ~(map = "ok" /\ pc["main"] \in {"notify", "notify_value", "notice"})
    BY <1>2, <1>3, <1>4, <2>2 DEF ToldInv
  <2> QED BY <2>1, <2>2
<1>6. /\ \A h \in Registered :
           \/ clients[h] \in told \cup missed \/ h \in todo["main"]
           \/ pc["main"] = "notify_value" /\ h = at["main"]
           \/ pc["main"] = "notice" /\ clients[h] = cur["main"]
      /\ "main" \in stray => \A h \in Registered : clients[h] \in missed
  BY <1>5 DEF ToldInv
<1>7. CASE Empty(f) \/ UNCHANGED <<iter, missed>>
  <2>1. /\ todo' = todo /\ stray' = stray
        /\ \A h \in Fd \ {f} : h = at["main"] => h = at'["main"]
    BY <1>0, <1>7 DEF Empty, iter, IterType
  <2> QED BY <1>4, <1>6, <2>1 DEF Registered
<1>8. ASSUME NEW g \in keys \ {f}, MoveUp(f, g)
      PROVE  (\A h \in Registered \ {f} : Kept(h)) /\ ("main" \in stray' => Hidden)
  <2>0. g \in Fd /\ Registered \subseteq Fd
    BY <1>1 DEF Registered
  <2>1. CASE at["main"] = g
    <3>1. \A h \in Fd : clients[h] # None => clients[h] \in missed'
      BY <1>8, <2>1 DEF MoveUp
    <3> QED BY <3>1 DEF Registered
  <2>2. CASE at["main"] = f
    <3>1. at'["main"] = g /\ todo'["main"] = todo["main"] \ {g}
      BY <1>0, <1>8, <2>2 DEF MoveUp, IterType
    <3>2. "main" \in stray' <=> "main" \in stray
      BY <1>0, <1>8, <2>2 DEF MoveUp
    <3>3. pc["main"] # "notify_value" /\ clients[g] # None => clients[g] \in missed'
      BY <1>8, <2>0, <2>2 DEF MoveUp
    <3> QED BY <1>4, <1>6, <2>2, <3>1, <3>2, <3>3 DEF Registered
  <2>3. CASE at["main"] \notin {f, g}
    <3>1. at'["main"] = at["main"] /\ todo'["main"] = todo["main"]
      BY <1>0, <1>8, <2>3 DEF MoveUp, IterType
    <3>2. "main" \in stray' <=> "main" \in stray
      BY <1>0, <1>8, <2>3 DEF MoveUp
    <3> QED BY <1>4, <1>6, <3>1, <3>2
  <2> QED BY <2>1, <2>2, <2>3
<1> QED BY <1>7, <1>8 DEF Delete

(* What has been told stays told while nobody new is registered. *)
LEMMA ToldStep == ASSUME TypeInv, RegistryInv, ToldInv, [Next]_vars PROVE ToldInv'
<1>0. /\ "main" \in Thread /\ "ping" \in Thread /\ Clean \subseteq Pc["main"]
      /\ Clean = {"notify", "notify_value", "notice", "stop", "join", "joining", "closing",
                  "close_client", "destroy"}
  BY PcSets DEF Thread, Clean
<1>n. CASE map' # "ok" \/ pc'["main"] \notin Clean \ {"destroy"}
  BY <1>0, <1>n DEF ToldInv
<1>g. ASSUME NEW l \in Pc["main"], Goto("main", l)
      PROVE  pc'["main"] = l /\ pc'["ping"] = pc["ping"]
  BY <1>0, <1>g, GotoPc DEF TypeInv
<1>h. ASSUME NEW l \in Pc["main"] \ Clean, Goto("main", l) PROVE ToldInv'
  BY <1>0, <1>g, <1>h, <1>n
<1>d. ASSUME NEW how, Stop(how) PROVE ToldInv'
  <2>1. pc'["main"] = "dead"
    BY <1>0, <1>d DEF Stop
  <2> QED BY <1>0, <1>n, <2>1
<1>c. ASSUME NEW frame, CallClean(frame), UNCHANGED <<clients, map, told>> PROVE ToldInv'
  <2>1. pc'["main"] = "notify"
    BY <1>0, <1>c, <1>g DEF CallClean
  <2>2. todo'["main"] = Fd /\ "main" \notin stray'
    BY <1>0, <1>c DEF CallClean, Set, TypeInv, IterInv, IterType
  <2> QED BY <2>1, <2>2 DEF ToldInv, Registered
<1>e. CASE error
  BY <1>c, <1>e DEF error, registry
<1>a. CASE Aside
  <2>1. CASE pc'["main"] = "dead"
    BY <1>0, <1>n, <2>1
  <2>2. CASE pc'["main"] = pc["main"] /\ pc'["main"] # "dead"
    <3>1. /\ cur'["main"] = cur["main"] /\ UNCHANGED <<map, told, stack>>
          /\ pc["ping"] = "done" => pc'["ping"] = "done"
      BY <1>a, <2>2 DEF Aside
    <3>2. CASE Undeleted
      BY <2>2, <3>1, <3>2 DEF Undeleted, ToldInv, Registered, Nested
    <3> QED BY <1>a, <2>2, <3>1, <3>2, ToldDelete DEF Aside
  <2> QED BY <1>a, <2>1, <2>2 DEF Aside
<1>1. CASE init_server \/ CreateThreads
  <2>1. CASE CreateThreads
    <3>1. pc'["main"] = "epoll"
      BY <1>0, <2>1 DEF CreateThreads
    <3> QED BY <1>0, <1>n, <3>1
  <2> QED BY <1>0, <1>1, <1>e, <1>h, <2>1, PcSets DEF init_server
<1>2. CASE receive_packets \/ accept_client \/ epoll_ctl
  BY <1>0, <1>2, <1>e, <1>h, PcSets DEF receive_packets, accept_client, epoll_ctl
<1>3. CASE handle_connection
  <2>1. \E l \in {"epoll", "accept", "read"} : Goto("main", l)
    BY <1>3 DEF handle_connection
  <2> QED BY <1>0, <1>h, <2>1, PcSets
<1>4. CASE put_client_in_hashmap \/ parse_packet \/ CloseClient \/ delete_client
  BY <1>0, <1>4, <1>e, <1>h, <1>d, PcSets
  DEF put_client_in_hashmap, hashmap_double_size, parse_packet, CloseClient, delete_client, Pass, End
<1>5. CASE HandleMessage
  <2>1. Goto("main", "event") \/ Goto("main", "close") \/ \E how \in {"killed"} : Stop(how)
    BY <1>5 DEF HandleMessage, Answer, Send, Ignore, Pass, get_client_by_socket, End
  <2> QED BY <1>0, <1>h, <1>d, <2>1, PcSets
<1>6. CASE SignalHandler
  BY <1>6, <1>c DEF SignalHandler, registry
<1>7. CASE broadcast_shutdown_notification
  <2>0. map = "ok" /\ ~Lost("main") => "main" \notin stray
    BY DEF Lost
  <2>k. \A f \in Registered : f \in keys
    BY DEF Registered, TypeInv, TableInv
  <2>1. ASSUME pc["main"] = "notify", NEW f \in todo["main"], at' = Set(at, "main", f),
               todo' = Set(todo, "main", todo["main"] \ {f}), Goto("main", "notify_value"),
               UNCHANGED <<stray, registry, history>>
        PROVE  ToldInv'
    <3>1. pc'["main"] = "notify_value"
      BY <1>0, <1>g, <2>1
    <3>2. todo'["main"] = todo["main"] \ {f} /\ at'["main"] = f
      BY <1>0, <2>1 DEF Set, TypeInv, IterInv, IterType
    <3> QED BY <2>1, <3>1, <3>2 DEF ToldInv, Registered, registry, history
  <2>2. CASE /\ pc["main"] = "notify" /\ Goto("main", "stop")
             /\ "main" \in stray \/ map # "ok" \/ todo["main"] \cap keys = {}
             /\ UNCHANGED <<registry, history>>
    <3>1. pc'["main"] = "stop"
      BY <1>0, <1>g, <2>2
    <3>2. map = "ok" => \A f \in Registered : clients[f] \in told \cup missed
      BY <2>2, <2>k DEF ToldInv
    <3> QED BY <2>2, <3>1, <3>2 DEF ToldInv, Registered, registry, history
  <2>3. ASSUME pc["main"] = "notify_value", NEW c \in Values("main"), cur' = Set(cur, "main", c),
               Goto("main", "notice"), UNCHANGED <<iter, registry, history>>
        PROVE  ToldInv'
    <3>1. pc'["main"] = "notice"
      BY <1>0, <1>g, <2>3
    <3>2. cur'["main"] = c
      BY <1>0, <2>3 DEF Set, TypeInv, IterInv
    <3>3. CASE "main" \in stray
      BY <2>3, <3>1, <3>3 DEF ToldInv, Registered, registry, history, iter
    <3>4. CASE map = "ok" /\ "main" \notin stray
      <4>1. c = ValueAt("main")
        BY <2>3, <3>4 DEF Values, Lost
      <4>2. \A f \in Registered : f = at["main"] => clients[f] = c
        BY <4>1, FdType DEF ValueAt, Registered
      <4> QED BY <2>3, <3>1, <3>2, <3>4, <4>2 DEF ToldInv, Registered, registry, history, iter
    <3> QED BY <1>n, <2>3, <3>3, <3>4 DEF registry
  <2>4. CASE pc["main"] = "notify" /\ Iterate("main", "notify_value", "stop", {})
    BY <1>d, <2>0, <2>1, <2>2, <2>4 DEF Iterate, End, Lost
  <2>5. CASE pc["main"] = "notify_value" /\ ReadValue("main", "notice")
    BY <1>d, <2>3, <2>5 DEF ReadValue, End
  <2> QED BY <1>7, <2>4, <2>5 DEF broadcast_shutdown_notification
<1>8. CASE notify_client_of_shutdown
  <2>1. CASE Goto("main", "notify")
    <3>1. pc'["main"] = "notify" /\ pc["main"] = "notice"
      BY <1>0, <1>8, <1>g, <2>1 DEF notify_client_of_shutdown
    <3> QED BY <1>8, <3>1 DEF ToldInv, Registered, notify_client_of_shutdown, registry, iter
  <2>2. Goto("main", "notify") \/ Stop("killed")
    BY <1>8 DEF notify_client_of_shutdown, Send
  <2> QED BY <1>d, <2>1, <2>2
<1>9. CASE StopThreads
  <2>1. pc'["main"] = "join" /\ pc["main"] = "stop"
    BY <1>0, <1>9, <1>g DEF StopThreads
  <2> QED BY <1>9, <2>1 DEF ToldInv, Registered, StopThreads, registry, history
<1>10. CASE JoinPingThread
  <2>1. CASE pc["main"] = "join" /\ Pass("main", "joining")
    <3>1. pc'["main"] = "joining"
      BY <1>0, <1>g, <2>1 DEF Pass
    <3> QED BY <2>1, <3>1 DEF ToldInv, Registered, Pass, registry, history
  <2>2. CASE /\ \/ pc["main"] = "join" /\ Nested
                \/ pc["main"] = "joining" /\ pc["ping"] = "done"
             /\ Goto("main", "closing") /\ UNCHANGED <<registry, control, history>>
    <3>1. pc'["main"] = "closing" /\ pc'["ping"] = pc["ping"]
      BY <1>0, <1>g, <2>2
    <3>2. Nested' = Nested
      BY <2>2 DEF Nested, control
    <3> QED BY <2>2, <3>1, <3>2 DEF ToldInv, Registered, registry, history
  <2> QED BY <1>10, <1>d, <2>1, <2>2 DEF JoinPingThread, End
<1>11. CASE close_clients_sockets
  <2>1. ASSUME NEW l \in {"closing", "close_client"}, Goto("main", l),
               pc["main"] \in {"closing", "close_client"}, UNCHANGED <<registry, control, history>>
        PROVE  ToldInv'
    <3>1. pc'["main"] = l /\ pc'["ping"] = pc["ping"]
      BY <1>0, <1>g, <2>1
    <3>2. Nested' = Nested
      BY <2>1 DEF Nested, control
    <3> QED BY <2>1, <3>1, <3>2 DEF ToldInv, Registered, registry, history
  <2>2. CASE Goto("main", "destroy")
    <3>1. pc'["main"] = "destroy"
      BY <1>0, <1>g, <2>2
    <3> QED BY <1>0, <1>n, <3>1
  <2>3. CASE pc["main"] = "closing" /\ Iterate("main", "close_client", "destroy", {})
    BY <1>d, <2>1, <2>2, <2>3 DEF Iterate, End
  <2>4. CASE close_client_socket
    <3>1. \/ /\ Goto("main", "closing") /\ pc["main"] = "close_client"
             /\ UNCHANGED <<registry, control, history>>
          \/ Goto("main", "destroy")
          \/ Stop("killed")
      BY <2>4 DEF close_client_socket, End
    <3> QED BY <1>d, <2>1, <2>2, <3>1
  <2> QED BY <1>11, <2>3, <2>4 DEF close_clients_sockets
<1>12. CASE server_t__destroy
  BY <1>12, <1>d, <1>n DEF server_t__destroy, End
<1>13. CASE Exit
  BY <1>13, <1>d DEF Exit, End
<1> QED BY <1>a, <1>1, <1>2, <1>3, <1>4, <1>5, <1>6, <1>7, <1>8, <1>9, <1>10, <1>11, <1>12,
           <1>13, AsideHolds
        DEF Next, AsideStep, MainStep

-----------------------------------------------------------------------------
(* The program starts in the invariant. *)
LEMMA InitInv == ASSUME Init PROVE TypeInv /\ RegistryInv /\ ToldInv
<1> USE DEF Init
<1>0. /\ "main" \in Thread /\ "ping" \in Thread /\ Someone = {None} /\ Accepted = {}
      /\ pc["main"] = "init" /\ pc["ping"] = "idle"
  BY DEF Thread, Someone, Accepted
<1>1. PcInv
  <2>1. "init" \in Labels /\ "idle" \in Labels
    BY PcSets DEF Labels
  <2>2. \A t \in Thread : pc[t] \in Pc[t] /\ pc[t] \notin AtClient
    BY PcSets DEF Thread, AtClient
  <2> QED BY <1>0, <2>1, <2>2 DEF PcInv, AtEvent
<1>2. IterInv /\ TableInv
  BY <1>0 DEF IterInv, IterType, TableInv, Place
<1>3. DataInv
  <2>1. done \in BOOLEAN /\ sigint \in BOOLEAN /\ kicked \in BOOLEAN
    BY Zenon
  <2> QED BY <2>1, ServerAssumption DEF DataInv
<1>4. StackInv
  <2>1. <<>> \in Seq(GoodFrame)
    BY EmptySeq
  <2> QED BY <1>0, <2>1 DEF StackInv, Clean
<1>5. MapInv
  BY <1>0 DEF MapInv
<1>6. RegistryInv
  BY <1>0 DEF RegistryInv, Handler, AtEvent
<1>7. ToldInv
  BY <1>0 DEF ToldInv
<1> QED BY <1>1, <1>2, <1>3, <1>4, <1>5, <1>6, <1>7 DEF TypeInv

(* The inductive invariant. *)
IInv == TypeInv /\ RegistryInv /\ ToldInv

(* It is preserved by every step. *)
LEMMA StepInv == ASSUME IInv, [Next]_vars PROVE IInv'
  BY TypeStep, RegistryStep, ToldStep DEF IInv

(* A process that has ended has no thread left. *)
EndInv == process = "up" \/ \A t \in Thread : pc[t] = "dead"

(* A step ends the process, or is one of a process that is up, or no step. *)
LEMMA LiveStep ==
  ASSUME [Next]_vars
  PROVE  \/ \E how : Stop(how)
         \/ process' = process /\ (process = "up" \/ \E t \in Thread : pc[t] # "dead")
         \/ UNCHANGED vars
<1> DEFINE Live == process' = process /\ (process = "up" \/ \E t \in Thread : pc[t] # "dead")
           Goal == (\E how : Stop(how)) \/ Live \/ UNCHANGED vars
<1> SUFFICES Goal
  OBVIOUS
<1>0. {"main", "ping", "measure", "transfer"} = Thread
  BY DEF Thread
<1>e. ASSUME pc["main"] # "dead", error PROVE Live
  BY <1>0, <1>e DEF error
<1>i. ASSUME NEW t \in Thread, pc[t] # "dead", NEW a, NEW b, NEW x, Iterate(t, a, b, x) PROVE Goal
  BY <1>i DEF Iterate, End, control
<1>r. ASSUME NEW t \in Thread, pc[t] # "dead", NEW a, ReadValue(t, a) PROVE Goal
  BY <1>r DEF ReadValue, End, control
<1>s. ASSUME NEW t \in Thread, pc[t] # "dead", NEW a, NEW b, SendToCurrent(t, a, b) PROVE Goal
  BY <1>s DEF SendToCurrent, Send
<1>p. ASSUME NEW t \in Thread, pc[t] # "dead", NEW l, Pass(t, l) PROVE Live
  BY <1>p DEF Pass, control
<1>l. ASSUME NEW t \in Thread, NEW l, Loop(t, l) PROVE Live
  BY <1>l DEF Loop, control
<1>1. CASE init_server \/ CreateThreads \/ receive_packets \/ handle_connection
  BY <1>0, <1>1, <1>e DEF init_server, CreateThreads, receive_packets, handle_connection, control
<1>2. CASE accept_client \/ epoll_ctl \/ put_client_in_hashmap
  BY <1>0, <1>2, <1>e
  DEF accept_client, epoll_ctl, put_client_in_hashmap, hashmap_double_size, control, End
<1>3. CASE parse_packet
  BY <1>0, <1>3, <1>e DEF parse_packet, Pass, control
<1>4. CASE HandleMessage
  BY <1>0, <1>4 DEF HandleMessage, Answer, Send, Ignore, Pass, get_client_by_socket, End, control
<1>5. CASE CloseClient \/ delete_client
  BY <1>0, <1>5 DEF CloseClient, delete_client, control, End
<1>6. CASE broadcast_shutdown_notification
  BY <1>0, <1>6, <1>i, <1>r DEF broadcast_shutdown_notification
<1>7. CASE notify_client_of_shutdown \/ StopThreads \/ JoinPingThread
  BY <1>0, <1>7
  DEF notify_client_of_shutdown, StopThreads, JoinPingThread, Pass, Send, control, End
<1>8. CASE close_clients_sockets \/ server_t__destroy \/ Exit
  BY <1>0, <1>8, <1>i
  DEF close_clients_sockets, close_client_socket, server_t__destroy, Exit, control, End
<1>9. CASE SignalHandler
  BY <1>9 DEF SignalHandler
<1>10. CASE ping_and_timeout_in_thread
  BY <1>0, <1>10, <1>l, <1>i, <1>r, <1>s, <1>p
  DEF ping_and_timeout_in_thread, ping_client, handle_client_inactivity, KickDelete, control, End
<1>11. CASE send_measurement_control_requests
  BY <1>0, <1>11, <1>l, <1>i, <1>r, <1>s DEF send_measurement_control_requests
<1>12. CASE transfer_data
  BY <1>0, <1>12, <1>l, <1>i, <1>r, <1>s, <1>p DEF transfer_data, broadcast_sample, End
<1>13. CASE \E c \in Conn : Connect(c) \/ ClientSend(c) \/ ClientLeave(c)
  BY <1>13 DEF Connect, ClientSend, ClientLeave, control
<1>14. CASE Idle
  BY <1>14 DEF Idle
<1> QED BY <1>1, <1>2, <1>3, <1>4, <1>5, <1>6, <1>7, <1>8, <1>9, <1>10, <1>11, <1>12, <1>13, <1>14
        DEF Next, MainStep

(* EndInv is inductive. *)
LEMMA EndStep == ASSUME EndInv, [Next]_vars PROVE EndInv'
<1>1. CASE \E how : Stop(how)
  BY <1>1 DEF EndInv, Stop
<1>2. CASE process' = process /\ (process = "up" \/ \E t \in Thread : pc[t] # "dead")
  BY <1>2 DEF EndInv
<1>3. CASE UNCHANGED vars
  BY <1>3 DEF EndInv, vars, thread, control
<1> QED BY <1>1, <1>2, <1>3, LiveStep

(* A send to a descriptor whose peer has not reset does not kill. *)
LEMMA SendSafe ==
  ASSUME TypeInv, \A c \in Conn : peer[c] # "reset", NEW t, NEW f \in Fd, NEW ok, NEW failed,
         Send(t, f, ok, failed)
  PROVE  process' = process
<1>1. owner[f] \in Conn \cup {None}
  BY DEF TypeInv, TableInv, Someone, Accepted
<1> QED BY <1>1 DEF Send

(* No step of an undisturbed server ends it or makes it give up. *)
LEMMA Undisturbed ==
  ASSUME IInv, EndInv, Next, vars' # vars, map = "ok", ~sigint', ~kicked, stack = <<>>,
         pc["transfer"] # "quit", pc["main"] # "accept", ~Torn,
         \A c \in Conn : peer[c] # "reset"
  PROVE  process' = "up" /\ ~(Len(stack') > Len(stack))
<1> DEFINE Live == process = "up" \/ \E t \in Thread : pc[t] # "dead"
           Fine == Live /\ process' = process /\ stack' = stack
<1> USE DEF IInv
<1>0. /\ {"main", "ping", "measure", "transfer"} = Thread /\ TypeInv /\ RegistryInv
      /\ stack \in Seq(GoodFrame)
  BY DEF Thread, TypeInv, StackInv
<1> SUFFICES Fine
  <2>1. Len(stack) \in Nat
    BY <1>0, LenProperties
  <2> QED BY <2>1 DEF EndInv
<1>c. pc["main"] \notin Clean
  BY Frames
<1>o. owner \in [Fd -> Conn \cup {None}] /\ clients \in [Fd -> Conn \cup {None}] /\ None \notin Conn
  BY ServerAssumption DEF TypeInv, TableInv, Someone, Accepted
<1>t. \A t \in Thread : ~Lost(t) /\ (pc[t] \in Reading => ValueAt(t) # None)
  BY DEF Torn, Lost
<1>i. ASSUME NEW t \in Thread, pc[t] # "dead", NEW a, NEW b, NEW x, Iterate(t, a, b, x) PROVE Fine
  BY <1>i, <1>t DEF Iterate, control
<1>r. ASSUME NEW t \in Thread, pc[t] # "dead", pc[t] \in Reading, NEW a, ReadValue(t, a) PROVE Fine
  BY <1>r, <1>t DEF ReadValue, control
<1>s. ASSUME NEW t \in Thread, pc[t] \in AtClient, NEW a, NEW b, SendToCurrent(t, a, b) PROVE Fine
  <2>1. SocketOf(t) \subseteq Fd
    BY <1>0, <1>s, SocketType DEF TypeInv, PcInv
  <2>2. PICK f \in SocketOf(t) : Send(t, f, a, b)
    BY <1>s DEF SendToCurrent
  <2>3. process' = process
    BY <1>0, <2>1, <2>2, SendSafe
  <2> QED BY <1>s, <2>3 DEF SendToCurrent, AtClient
<1>p. ASSUME NEW t \in Thread, pc[t] # "dead", NEW l, Pass(t, l) PROVE Fine
  BY <1>p DEF Pass, control
<1>l. ASSUME NEW t \in Thread, NEW l, Loop(t, l) PROVE Fine
  BY <1>l DEF Loop, control
<1>1. CASE init_server \/ CreateThreads \/ receive_packets \/ handle_connection
  <2>1. pc["main"] # "init"
    BY DEF TypeInv, MapInv
  <2> QED BY <1>0, <1>1, <2>1
          DEF init_server, CreateThreads, receive_packets, handle_connection, control
<1>2. CASE accept_client \/ put_client_in_hashmap
  BY <1>0, <1>2 DEF accept_client, put_client_in_hashmap, hashmap_double_size, control
<1>3. CASE epoll_ctl
  <2>1. pc["main"] = "add"
    BY <1>3 DEF epoll_ctl
  <2>2. cur["main"] # None
    BY <1>0, <2>1 DEF TypeInv, PcInv, AtClient
  <2>3. owner[sock[cur["main"]]] = cur["main"]
    BY <2>1 DEF RegistryInv
  <2> QED BY <1>0, <1>3, <2>1, <2>2, <2>3 DEF epoll_ctl, control
<1>4. CASE parse_packet
  <2>1. pc["main"] = "read"
    BY <1>4 DEF parse_packet
  <2>2. event \in Fd
    BY <2>1 DEF TypeInv, PcInv, AtEvent
  <2>3. owner[event] # None /\ owner[event] \in Conn
    BY <1>o, <2>1, <2>2 DEF RegistryInv
  <2>4. peer[owner[event]] # "reset"
    BY <2>3
  <2> QED BY <1>0, <1>4, <1>p, <2>1, <2>3, <2>4 DEF parse_packet, control
<1>5. CASE HandleMessage
  <2>1. pc["main"] = "handle"
    BY <1>5 DEF HandleMessage
  <2>2. event \in Fd
    BY <2>1 DEF TypeInv, PcInv, AtEvent
  <2>3. clients[event] # None
    BY <2>1 DEF RegistryInv
  <2>4. ~ get_client_by_socket
    BY <2>3 DEF get_client_by_socket
  <2>5. CASE Answer
    <3>1. process' = process
      BY <1>0, <2>2, <2>5, SendSafe DEF Answer
    <3> QED BY <1>0, <2>1, <2>5, <3>1 DEF Answer
  <2>6. CASE Ignore \/ Pass("main", "close")
    BY <1>0, <1>p, <2>1, <2>6 DEF Ignore, control
  <2> QED BY <1>5, <2>4, <2>5, <2>6 DEF HandleMessage
<1>6. CASE CloseClient \/ delete_client
  BY <1>0, <1>6 DEF CloseClient, delete_client, control
<1>7. CASE \/ broadcast_shutdown_notification \/ notify_client_of_shutdown \/ StopThreads
           \/ JoinPingThread \/ close_clients_sockets \/ server_t__destroy
  BY <1>7, <1>c DEF Clean, broadcast_shutdown_notification, notify_client_of_shutdown, StopThreads,
                    JoinPingThread, close_clients_sockets, close_client_socket, server_t__destroy
<1>8. CASE Exit \/ SignalHandler
  BY <1>8 DEF Exit, TypeInv, MapInv, SignalHandler
<1>9. CASE ping_and_timeout_in_thread
  <2>1. pc["ping"] # "kick_delete"
    BY DEF RegistryInv
  <2> QED BY <1>0, <1>9, <1>l, <1>i, <1>r, <1>s, <1>p, <2>1
          DEF ping_and_timeout_in_thread, ping_client, handle_client_inactivity, KickDelete,
              control, AtClient, Reading
<1>10. CASE send_measurement_control_requests
  BY <1>0, <1>10, <1>l, <1>i, <1>r, <1>s
  DEF send_measurement_control_requests, AtClient, Reading
<1>11. CASE transfer_data
  BY <1>0, <1>11, <1>l, <1>i, <1>r, <1>s, <1>p
  DEF transfer_data, broadcast_sample, AtClient, Reading
<1>12. CASE \E c \in Conn : Connect(c) \/ ClientSend(c) \/ ClientLeave(c)
  BY <1>12 DEF Connect, ClientSend, ClientLeave, control
<1>13. CASE Idle
  BY <1>13 DEF Idle
<1> QED BY <1>1, <1>2, <1>3, <1>4, <1>5, <1>6, <1>7, <1>8, <1>9, <1>10, <1>11, <1>12, <1>13
        DEF Next, MainStep

-----------------------------------------------------------------------------
(* What the threads look at is of its type at every step: each thread is at  *)
(* one of its own steps, and whatever client a callback is handed, and every *)
(* frame clean() returns to, is one accept_client has made.                  *)
THEOREM TypeCorrect == Spec => []TypeOK
<1>1. Init => IInv
  BY InitInv DEF IInv
<1>2. IInv /\ [Next]_vars => IInv'
  BY StepInv
<1>3. IInv => TypeOK
  BY TypesHold DEF IInv
<1> QED BY <1>1, <1>2, <1>3, PTL DEF Spec

(* Between two events the map of clients is exactly the table of open        *)
(* descriptors, and a handler finds the client whose message it has read,    *)
(* for any number of clients and whatever they send, until the ping thread   *)
(* kicks somebody (handle_client_inactivity).                                *)
THEOREM RegistryIsExact == Spec => []RegistryExact
<1>1. Init => IInv
  BY InitInv DEF IInv
<1>2. IInv /\ [Next]_vars => IInv'
  BY StepInv
<1>3. IInv => RegistryExact
  BY DEF IInv, RegistryInv, RegistryExact
<1> QED BY <1>1, <1>2, <1>3, PTL DEF Spec

(* From whichever step SIGINT or error() calls clean(), with the other       *)
(* threads at any step of their own, it closes no registered client's socket *)
(* before it has sent enb_off to every one of them but those that a deletion *)
(* by the ping thread has moved out of the way of its hashmap_iter, and, if  *)
(* it has not interrupted another clean()'s pthread_join, before the ping    *)
(* thread has ended.                                                         *)
THEOREM EverybodyIsTold == Spec => []ToldBeforeClosed
<1>1. Init => IInv
  BY InitInv DEF IInv
<1>2. IInv /\ [Next]_vars => IInv'
  BY StepInv
<1>3. IInv => ToldBeforeClosed
  BY DEF IInv, ToldInv, Registered, ToldBeforeClosed
<1> QED BY <1>1, <1>2, <1>3, PTL DEF Spec

(* Clients that connect, send any messages in any order and leave in an      *)
(* orderly way never end the server or make it run error() by what the       *)
(* handlers do: their unchecked dereferences of what the map returns are     *)
(* safe until a kick, a reset connection, SIGINT, an accept that fails or    *)
(* the end of the transfer.  Only an iteration of another thread that meets  *)
(* the main thread's change of the map halfway (Torn) may die of it.         *)
THEOREM OrdinaryClientsAreSurvived == Spec => SurvivesOrdinaryClients
<1>1. Init => IInv /\ EndInv
  BY InitInv DEF IInv, Init, EndInv
<1>2. IInv /\ EndInv /\ [Next]_vars => IInv' /\ EndInv'
  BY StepInv, EndStep
<1>3. ASSUME IInv, EndInv, [Next]_vars
      PROVE  [(process' # "up" \/ Len(stack') > Len(stack)) /\ map \in {"ok", "doubling"} =>
                \/ sigint' \/ kicked \/ stack # <<>> \/ pc["transfer"] = "quit"
                \/ pc["main"] = "accept" \/ Torn \/ \E c \in Conn : peer[c] = "reset"]_vars
  <2>1. map = "doubling" => Torn
    BY DEF Torn
  <2> QED BY <1>3, <2>1, Undisturbed
<1> QED BY <1>1, <1>2, <1>3, PTL DEF Spec, SurvivesOrdinaryClients
=============================================================================
