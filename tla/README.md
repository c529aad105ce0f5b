# A verification project for the LTE simulator

The repository simulates a small LTE cell. `clientLTE/` is a user equipment
(UE), `serverLTE/` an eNodeB, and they speak a fixed-size binary protocol
(`message.h`) over one TCP connection per UE. The eNodeB keeps its clients in a
hash map (`lib/hashmap.c`). There are no tests; what the program promises is in
the comments of the headers and of the code, and these are what the properties
here are held against.

## 1. Inventory

### UE client (`clientLTE/`)

*State.* `socket_fd`, the flag `running`, two message buffers `message` and
`received`, the battery record (`power_percentage`, `is_charging`,
`power_is_low`, `sent_notification`), the file being downloaded, the cells.

*Threads.* `main` connects, sends a random access preamble, performs the RRC
handshake, creates the battery thread and then polls the socket
(`recv` with `MSG_DONTWAIT`) in a loop: it answers `ping` by `pong` and drains
the battery, answers measurement requests, writes downloaded data into a file.
`battery_thread` moves the level by 12 once a second and turns at empty and at
full. Both call `check_battery_status`, which announces a low or a full enough
battery. SIGINT clears `running`; both loops then end, `main` joins the battery
thread, sends `ue_off` and returns.

*Hard.* The threads share `message`, the battery and the socket, and the locks
exclude nothing: `lock[0]` is taken by the battery thread only, `lock[1]` by
nobody. A write may block, fail, or kill the process (SIGPIPE). The eNodeB's
threads may send to a UE as soon as it is accepted, so anything may arrive in
place of a handshake answer.

*Correct if* each send function sends its own message; a battery that goes low
is announced, once; the loop ends on SIGINT and on `enb_off`; nothing follows
`ue_off`; data goes into an open file.

### eNodeB (`serverLTE/`)

*State.* The listening socket, the epoll descriptor, `clients` (a hash map from
the decimal descriptor to a `client_t`: rnti, preamble index, timestamps,
battery state, socket), `threads_done`.

*Threads.* `main` waits in `epoll_wait`, accepts clients and handles their
messages (`parse_packet`); the ping thread pings every client that has been
silent for 5 s (10 s on a low battery) and closes and deletes one silent for
4000 s; the measurement thread sends `measurement_control_request` every 5 s;
the transfer thread sends a file to everybody once and then ends the process.
SIGINT runs `clean()`: `enb_off` to everyone, join of the ping thread, close of
all sockets, destruction of the map. `error()` does the same unless `errno` is
`EINTR`.

*Hard.* Four threads use the map without a lock, against its header; a
descriptor is closed before its client is deleted and may be reused in between;
`clean()` runs inside a signal handler; new clients are registered with
uninitialised fields.

*Correct if* every open descriptor has exactly its own client registered, a
handler finds the client it was called for, shutdown tells every client and
ends, a live client is not kicked.

### Hash map (`lib/hashmap.c`)

*State.* A table of buckets, `count`, `table_size`, `max_size`. The first entry
of a bucket lies in the table, further ones in nodes of their own.

*Operations.* `hashmap_init`, `_get`, `_put` (doubling when full), `_delete`,
`_size`, `_clear`, `_destroy`, and `_iter`, whose callback deletes the entry it
is given in one of its uses (`handle_client_inactivity`).

*Hard.* `hashmap_delete` never advances `last_entry`, so wherever the entry is
in its chain it is overwritten by its successor, or zeroed if it is the last:
zeroed nodes stay linked and every other operation has to stop at them. That
same fact keeps iteration with deletion from reading freed memory.

*Correct if* it is a dictionary, frees what it allocates, and an iteration
visits what it should.

### UE cells (`user_equipment.c`)

*State.* The signal power of the serving and of the neighbouring cell and the
direction each moves in, the static flags of `check_events`, `current_event`.

*Operations.* Every iteration of the main loop calls `set_current_signal_event`:
`update_rsrps` moves the signals by 5 when its time is over and turns them at 0
and at 97, `check_events` derives the event A1 to A4 or none. A measurement
request is answered with the event of the iteration before.

*Hard.* One call generates one event at most, so several crossings of one update
have to queue up in the flags; the flag of A1 and A2 is reset by A3 and A4 as
well. Clipping, turning and thresholds meet at boundary values.

*Correct if* the signals keep moving, a crossing is generated once, and a report
carries an event that has happened and was not reported before.

### Keep-alive (`packet_handler.c`, `client_handler.c`)

*State.* `last_activity` and `battery_state` of each client, the clock.

*Operations.* A round of the ping thread every second; pong, battery messages
and power-off of the client. Only `random_access_request` and `pong` renew
`last_activity`.

*Hard.* The first ping is sent after 5 or 10 s of silence and again every round;
a pong may be lost in the UE's shared buffer; rounds are late when an iteration
takes long; the fields are uninitialised until the random access.

*Correct if* a client that answers stays, and one that is silent goes.

### File transfer (`broadcast_sample`, the UE's main loop)

*State.* The file's size and the position in it, the bytes under way, the UE's
message buffer and file.

*Hard.* The stream keeps bytes in order, not messages together, and `recv` is
called once per message; other threads of the eNodeB send on the same socket;
the UE's battery thread may overwrite the type of a message that has just been
received; the last block is padded.

*Correct if* the copy is the file, block by block in order, and is closed.

### The rest

`MurmurHash3` (an arbitrary function of the key here), the logs (output only),
the numbers of the random access and of the RRC messages.

## 2. Modules

| module | models | uses |
|---|---|---|
| `UserEquipment` | the whole UE program and what it sees of the eNodeB and of TCP | |
| `UserEquipmentProofs` | theorems about it | `UserEquipment` |
| `Dictionary` | the abstract map `hashmap.h` describes | |
| `HashMap` | `hashmap.c` on buckets and nodes | refines `Dictionary` |
| `ENodeB` | the eNodeB's four threads, its registry of clients and its shutdown | the map as `HashMap` shows it to be |
| `KeepAlive` | pings, pongs and kicks of one client in time | |
| `Cells` | the UE's signals, the events A1 to A4 and the reports | |
| `FileCopy` | the abstract copy of a file | |
| `Transfer` | one transfer from file to file: sender, byte stream, receiving loop | refines `FileCopy` |
| `HashMapProofs`, `KeepAliveProofs`, `CellsProofs`, `ENodeBProofs`, `TransferProofs` | theorems | the module of that name |
| `IterationProofs` | what `hashmap_iter` visits | `HashMapProofs` |
| `MC...` | small instances for TLC | the module of that name |

### UserEquipment

`pc["main"]` and `pc["battery"]` are the program counters; every other variable
is a variable of the program except `inbox`, `outbox`, `peer`, `xfer` (the TCP
connection and the eNodeB's end) and the histories `notes` and `told`. A step
ends before each store to memory the two threads share, before each system
call, and wherever a value that was read may be stale when used: `send_pong` is
`SetPong` and `send_pong` (store of the type; write of whatever the buffer holds
by then), `check_battery_status` is a test of the level, a test of
`sent_notification`, the store, the write and the store of `sent_notification`,
the level is changed by a load and a store, `decrease_after_ping` and
`update_battery` read it anew for their second condition, and the turn at empty
or full is three stores (`ResetSent`, `ClipLevel`, `SetCharging`). The stored level is wrapped to
`int8_t` (`Int8`).

A message is its type. The RAPID always matches, because the eNodeB computes it
from the same bits as the UE does; downloaded bytes and measurements steer no
control. `recv` takes whole messages (`Transfer` has the partial ones). Using a `FILE` pointer that is not open is
undefined, so the process dies or goes on. The battery's figures, the width of
the level, the buffer capacity and what the eNodeB sends unasked are constants.

`write` appends to a bounded buffer and blocks while it is full; after the
eNodeB has closed, the first write succeeds and draws an RST, the next returns
-1 or raises SIGPIPE. SIGINT kills the process before `sigaction`, and
afterwards clears `running` and interrupts a blocked write of the main thread.
The eNodeB answers requests, closes on `ue_off`, may send anything in
`Unsolicited` at any time and may close at any time.

### HashMap and Dictionary

A bucket is the sequence of entries reached by the `next` links; an entry knows
whether its node is still allocated, and an operation that would visit a freed
node goes to `"crashed"`. `hashmap_iter` takes a step per callback; the callback
may stop it, and may delete its entry. Values are abstract: that
`hashmap_delete` frees the value matters to the eNodeB's threads and belongs to
their module. Allocation is assumed to succeed.

`Dictionary` has one step per public operation with the return value the header
documents; `IsDictionary` is the refinement, with `dict` the contents found by
searching each key.

### ENodeB

`pc[t]` is the step of each of the four threads. `owner` says which connection a
descriptor denotes (`accept` hands out the lowest free one and may fail), `keys`
and `clients` are the map, and a `client_t` is named by the connection it was
allocated for; `freed` and `map` say what has been freed. A pointer into freed
memory yields its old socket or that of another client, and a NULL client kills
the process.

The threads use the map without a lock, so an iteration is not one step.
`todo[t]` are the entries it has not come to, `at[t]` is the one it is at.
`Iterate` goes on to an entry that has a key, `ReadValue` reads its value and
calls back; between the two another thread may have zeroed the entry, and the
callback dies of the NULL. A deletion either empties the last entry of a bucket
(`Empty`) or moves the next one into its place and frees that node (`MoveUp`): an
iteration that was at the deleted entry is then at the moved one and passes it
over, one that was at the moved one is in freed memory (`stray`), where it finds
what was there, ends, or dies. Which entries share a bucket is any choice.
`hashmap_put` doubles a full map first: in between, and to every iteration that
was under way, the table is freed memory. A new entry is linked complete, or its
key is stored before its value; it may lie ahead of an iteration or behind it.

The main thread takes the ready descriptors from `epoll_wait` and handles them in
any order; `accept`, `epoll_ctl` and the insertion into the map are separate
steps, and so are the close of a socket and the deletion of its client, in the
main thread and in the ping thread. `clean()` is entered by `error()` or, at any
step, by SIGINT, which saves what the main thread was doing on `stack`; it
returns there, except that `epoll_wait` fails with `EINTR` and `error()` then
exits. `close_client_socket` is `void` where an `int` is expected, and compiled
as the makefile says it returns what `close` did. A SIGINT inside the
`pthread_join` of `clean()` runs `clean()` again, whose own `pthread_join` returns
`EINVAL` at once (`Nested`), with the ping thread alive.

The program starts with `init_server`, any call of which may fail: `error()`
then runs `clean()` on a map that does not exist yet and dies of it, as SIGINT
does there; between the creation of the map and that of the threads `clean()`
dies in `pthread_join`.

Time is abstract: a client may be due for a ping or a kick whenever it is looked
at (this also covers `last_activity` before it is first set). Sends do not
block. One `hashmap_delete`, and one `hashmap_put` but for the splits above, is
one step: two threads changing the map at once (possible after a kick only) do
not tear its structure, SIGINT does not come in the middle of a change, and the
strings that hold the keys are not read after they are freed. An iteration in
freed memory ends. A `read` of a connection that was reset gives -1, or 0 if a
failing `send` has consumed the error before. Each connection is made once, a client's next message waits until the last is
read, and SIGINT comes at most once.

### KeepAlive

One client and the ping thread, in seconds. `idle` is `time(NULL) -
last_activity` (it counts no further than one past the timeout: beyond it every
comparison has the same outcome); `slept` is the time since the round before,
between 1 (the `sleep`) and `Period`; `pings` holds the ages of the pings that a
live client has not answered, and `Tick` lets none grow older than `Delay`. Up
to `MaxLost` pings in a row may get no pong, because the battery thread has
overwritten the type before the write. A client may fall silent at any time
without closing. Before its random access its fields are garbage: every
comparison may go either way, so a fresh client may be kicked.
`handle_client_inactivity` is two steps, the decision (`round` becomes `"kick"`,
or `"kick_early"` if the client was not known yet) and `Kick`, the close and the
deletion after the log entry; the client's messages are handled in between. A
kick decided on garbage is therefore carried out even if the random access has
come by then. `LiveIsKept` names this one exception.

`TimingAssumption` is what the figures must satisfy for `LiveIsKept`: after the
last activity the first ping is sent within the limit and one period, each lost
pong costs a period, the last answer takes `Delay`. The header only asks for a
timeout above both limits (`packet_handler.h:10`); the real figures (5, 10 and
4000 s) satisfy the assumption for any plausible delay. Steps of the wall clock
are left out: a jump of `time(NULL)` by more than 4000 s would kick everybody.

### Cells

One action per outcome of `set_current_signal_event` (the signals move or stay)
and `send_measurement_report`, which at most once per iteration reads
`current_event`. `check_events` keeps the order of the tests and of the returns:
`Armed` and the two `Checked` are what the assignments before a test leave,
`IsA1` to `IsA4` the tests. `last`, `owed` and `fresh` are histories computed
from the signals alone, by a definition of "crossing" that knows nothing of the
flags: the side of the boundary each event was last on.

`Calls` is how often `set_current_signal_event` runs at least between two moves.
The loop polls without waiting and the signals move every two seconds, so it
runs very often; three calls are what three events of one move need.

### Transfer and FileCopy

A message is two pieces of the stream, its type and the rest; `Arrive` lets any
number of pieces through, `RecvMessage` takes a whole message or the one piece
that is there, which leaves the rest of the buffer as it was and every later
message cut in the wrong place (what a type then is, is any type). `short`
records that this has happened. `SetNotification` is the battery thread's store
into the buffer; `hits` counts the messages of the transfer it overwrote between
`recv` and the switch. The bytes of the file are named by their positions, zero
being the padding. `fread` of a partial element leaves the bytes it did read in
the buffer, as glibc does.

`FileCopy` promises a copy that grows by blocks of the file in order, none
twice, and that is complete when it is closed unless something was missed; all
promises but "whole blocks" end when messages are no longer kept together.
`IsFileCopy` is the refinement.

## 3. Runs

Passing:

| run | properties | what it shows | bounds |
|---|---|---|---|
| `ue_battery` | `TypeOK`, `OneNotePerThread`, `StrayIsHarmless`, `NothingAfterUeOff` | each thread notifies at most once per half cycle although the calls of `check_battery_status` interleave unlocked; a stale store is wrapped into the type; what goes out in place of another message never starts or ends a session; nothing is written after `ue_off` | battery of 4 units, seconds of 2, pings of 1, `int8_t` of 14 values, so that stale stores wrap; one message per direction; pings and measurement requests |
| `ue_ends` | `SigintEnds`, `EarlyEnbOffEnds` | during a transfer too, SIGINT, or an `enb_off` met in the handshake, ends the program: no blocked write and no join lasts for ever | battery of 2 units; under fairness |
| `map_operations` | `NeverCrashes`, `IterationExact`, `IsDictionary` | refinement of the dictionary through chains, updates, deletions (inside iterations too) and a doubling; no freed node is read; an iteration calls back at most once per key and misses at most one entry per deletion | 3 keys in one bucket of a table of 4 (limit 3), 2 values; the doubling to 8 splits the chain |
| `map_all_calls` | `TypeOK`, `CountsItems` | with `hashmap_clear` on chains too, `count` is the number of items until freed memory is read | 3 keys, 1 value, an initial size of 3 that is rounded up to 4 |
| `enb_registry` | `RegistryExact`, `SurvivesOrdinaryClients`, `ToldBeforeClosed` | main and ping thread: until somebody is kicked the open descriptors are the registered ones between two events and a handler finds the client whose message it has, through a doubling too; only a kick, a reset connection, an accept that fails or an iteration that meets the map in the midst of a change (`Torn`) brings the server down; when `error()` does, `clean()` has told every registered client before it closes a socket, except one that a kick has moved out of the notification's way | 2 clients, which reuse descriptors and may share a bucket; `max_size` 1, so that the second is put into a doubled map; `random_access_request`, `pong` and `ue_off`; no SIGINT |
| `enb_shutdown` | `TypeOK`, `CleanEnds`, `ToldBeforeClosed` | all four threads from start-up on, SIGINT at any step: a shutdown that begins in `epoll_wait` or by `error()` ends the process; when `clean()` closes sockets the client has been told and the ping thread is gone, unless this `clean()` has interrupted another one's join | 1 client; `rrc_request`, which dereferences, and `rrc_complete`, which does not; under fairness |
| `cell_events` | `TypeOK`, `LostOnlyOnThreshold`, `ReportSound`, `SignalOscillates` | the signals oscillate for ever; every crossing is generated within three calls, except an A1 or A2 of a serving cell that halted exactly on its threshold; reports neither repeat nor invent an event | the real figures (97, 19, 77, 5) and every pair of initial signals |
| `keep_alive` | `TypeOK`, `LiveIsKept`, `PingsBounded`, `SilentIsKicked` | a client that answers is kicked after its random access only by a round that had read its fields before; pings do not pile up, a silent client is kicked | 5 and 10 s, a timeout of 20 s (one second less violates `LiveIsKept`), rounds 1 to 2 s apart, answers within 3 s, 2 lost pongs; safety without fairness, `SilentIsKicked` with |
| `transfer` | `TypeOK`, `LossIsBounded`, `IsFileCopy`, `TransferEnds` | the copy is the file's blocks in order; it lacks no more blocks than types were overwritten; a complete transfer is closed unless a message was hit or cut | files of 0, 2 and 5 bytes in blocks of 2, one other message, one notification |

`enb_registry` uses the symmetry of its clients: nothing orders the connections.
Both exceptions of `ToldBeforeClosed` are needed, each in one of its two runs: TLC
refutes the property without it.

The bounds are small because the interesting behaviour is in the order of few
steps: a capacity of one already makes writes block, a battery of two to four
units turns within a few steps and has levels inside, below and above both
windows, and two keys in a bucket reach every branch of insertion, deletion and
doubling, the third the middle of a chain. Deadlock is checked in every run;
the only final states are the ended program, the destroyed map and an
`epoll_wait` that nobody wakes (`Ended`, `Over`, `Idle`). In `keep_alive` the
timeout is as small as its assumption allows, so that every slack in the
argument is used; in `transfer` a block of two bytes has a padded and a full
form, and one notification hits the start, a block or the end.

Fairness (`FairSpec`): weak fairness of each thread's next step, because the
scheduler runs a runnable thread and neither waits for anything but a blocking
call, and of the eNodeB's reading, because its `epoll_wait` loop reads every
ready socket. Nothing is assumed of SIGINT, of what the eNodeB sends, or of its
closing. In `ENodeB` it is weak fairness of the main and of the ping thread; the
other two need not run, and nothing is assumed of clients or of SIGINT. That the
battery thread gets through its loop does not depend on
time: `update_battery` may find that a second has passed or not. In `Cells` it
is the polling loop and the passing of time that are fair, in `KeepAlive` time
and the ping thread (the client need not do anything), in `Transfer` the sending
thread, TCP's delivery and the receiving loop; that the sender exits, that other
messages or notifications come is never assumed.

Disagreements between the code and what the repository says of it, each a run
that TLC refutes:

| run | statement | what happens |
|---|---|---|
| `ue_enb_off_ignored` | `StopsAfterEnbOff` (`main.c:151`) | the loop's `recv` stores into `message`, its condition looks at `received` |
| `ue_shared_buffer` | `SendsItsOwnMessage` (`handle_messages.h:32`, `user_equipment.h:39`) | the other thread's store comes between store and write |
| `ue_low_missed` | `LowIsNotified` (`user_equipment.h:13`) | a ping's drain carries the level past the window in which it is announced |

Met while modelling, without a run of their own: a `data_start` that is consumed
as the answer to `rrc_request`, or whose type is overwritten, leaves the data to
be written through an uninitialised pointer (`handle_messages.h:57`; in
`Transfer` the process may die there, in `UserEquipment` too); the ping thread
may delete a client between the read of its pong and `handle_pong`, which
dereferences NULL (`packet_handler.c:18`; the reason for "until somebody is
kicked" in `RegistryExact` and `SurvivesOrdinaryClients`); A3 and A4 reset
`event_change`, which is "here only for event A1 and A2"
(`user_equipment.c:166`), so that a crossing is lost as `LostOnlyOnThreshold`
says; the requirement "should be bigger" (`packet_handler.h:10`) is too weak for
`LiveIsKept`; a client that closes while it is being pinged can take the
server down (SIGPIPE, or `error()` on `ECONNRESET`); an ordinary `ue_off`, or a
connection that makes the map double, can do so while another thread iterates
(`hashmap.c:404-406`; `hashmap_put` and `hashmap_delete` are "not thread safe",
`hashmap.c:273` and `:295`); a kick during the shutdown's notification can leave a
client untold; a client may be kicked just after its random access; the test "Check if eNodeB is
still on" (`main.c:199`) reads a buffer that has been reset since; an iteration
that deletes skips the entry moved into the place (`hashmap.h:96` "for each";
`IterationExact` bounds it); a cleared bucket keeps its links to freed nodes
(`hashmap.h:89`; `map_all_calls` stops there); a node that
was zeroed in place is freed by nobody (`hashmap.h:50`); an initial size of 1
gives a limit of 0 and an endless doubling; the default size is 128, not 64 (`hashmap.h:43`).

## 4. Proofs

`UserEquipmentProofs` proves, from `BatteryAssumption` (positive figures, one
step from a legal level stays in the type) and `LinkAssumption` (buffers hold at
least one message; the unsolicited messages are the ones the code sends):

* `TypeCorrect`: `Spec => []TypeOK`. `TypeOK` is inductive by itself. Its one
  arithmetic fact is `Int8Type`: a wrapped level is a level.
* `UeOffIsLast`: `Spec => NothingAfterUeOff`. It needs `JoinInv`: during the
  handshake the battery thread is idle, and once the main thread is past the
  join it is idle or done. Then a step that finds `main` at its end is `Exit`
  or the eNodeB's, and neither appends to `outbox`.
* `NotificationsAreSingle`: `Spec => []OneNotePerThread`. `notes[t] <= 1` is not
  inductive: nothing in it prevents a thread that has written one from being
  about to write the next. `NoteInv` adds that a notification that was written
  is on record in `sent_notification`, or its writer is just about to record
  it, and that a thread on its way to a notification has none on its account.
  Most steps are `Quiet` (they leave the counters and the flag alone and bring
  nobody onto that way); the steps of `check_battery_status` and the turn at
  empty or full, which resets flag and counters together, are treated one by
  one.

* `StrayMessagesAreHarmless`: `Spec => []StrayIsHarmless`. `StrayInv` says that
  nobody is about to write the shared buffer while it holds a message that
  starts or ends a session; `JoinInv` is needed because the handshake and
  `send_ue_off_signal` do store such messages, when there is no other thread.

`KeepAliveProofs`, from `TimingAssumption`:

* `TypeCorrect`, `LiveClientIsKept` (`LiveIsKept`) and `PingsStayBounded`
  (`PingsBounded`). The inductive invariant follows the deadlines: `IdleAt(k)`
  is how long the client may have been idle when the k-th ping since its last
  sign of life is sent. `IdleInv` says that each ping under way was sent by its
  deadline and that the next round will come before the next one; `AgeInv` that
  the pings under way are of different rounds, hence of different ages, which
  bounds their number by `Delay + 1`; `PingInv` that nobody else is pinged.
  A round that has decided to kick a client it knew finds a silent one, because
  no other is ever idle that long. `TimingAssumption` is used in one place, where `idle` is compared with the
  timeout: it is what the argument needs and no more.

`CellsProofs`, from `CellAssumption` (the thresholds are more than a course away
from the ends and from each other, and the sum fits an `int8_t`; with thresholds
closer together one move could cross both):

* `TypeCorrect`; `ReportsAreSound` (`ReportSound`), from `ReportInv`: an armed
  `event_change` has seen the other side of its threshold, a cleared flag has its
  event still to come or unreported.
* `OnlyThresholdLosesEvents` (`LostOnlyOnThreshold`), under `Calls >= 3`, the
  number of events one move can cause. `EventInv` relates the flags to the
  histories: an event whose boundary may be crossed next is ready to be returned
  (`ReadyInv`), an event is held up only by one that comes before it in
  `check_events` (`TurnInv`), and what is still owed is next or was lost on a
  threshold (`OwedInv`).

`ENodeBProofs`, from `ServerAssumption` (a finite set of clients, messages the
handlers know, any subset of the threads awake, SIGINT or not, any positive
`max_size`):

* `TypeCorrect`. `TypeOK` alone is not inductive, since a client has a descriptor
  only once it was accepted: `TypeInv` says that every client a thread looks at,
  and every client in a frame `clean()` may return to, was accepted (`PcInv`,
  `IterInv`, `StackInv`), that a value is in the map under a key of the map
  (`TableInv`), and when there is a map (`MapInv`).
* `RegistryIsExact` (`RegistryExact`). `RegistryInv` says at every step of the
  main thread how the map and the table of descriptors differ: by nothing, by
  the client being accepted (also while its entry has a key and no value, and
  while the map is doubled), or by the descriptor just closed; and that pending
  events are of open descriptors, because a handler closes only its own.
* `EverybodyIsTold` (`ToldBeforeClosed`), from `ToldInv`: during the notification
  a registered client has been told, is still to be visited, is the one at hand,
  or was missed; and if the notification itself has gone astray all of them were.
  Clients are only added by the main thread, which is busy in `clean()`; the ping
  thread's deletions move entries, and `ToldDelete` goes through the cases of
  where the notification was. The join gives the first half of the property.
* `OrdinaryClientsAreSurvived` (`SurvivesOrdinaryClients`), an action property: a
  step that ends the process or enters `error()` although none of the excuses
  holds would need a failing lookup or read, which `RegistryInv` excludes, or a
  NULL value, which is `Torn`. `EndInv` (a process that has ended has no thread
  left) is needed for steps that change nothing.

`HashMapProofs`, from `MapAssumption` (any keys, values and hash function, an
initial size of at most 2^30):

* `TypeCorrect` and `CountIsExact` (`CountsItems`), for every sequence of calls.
  That `count` is the number of items is not inductive: `MapInv` says what every
  bucket looks like. A bucket is a `Chain` (all nodes allocated, a zeroed entry
  only at the end or behind an emptied slot, every key in the bucket of its hash,
  once, with a value) or, after `hashmap_clear`, a `Stump`: the slot is linked to
  freed nodes and only its first entry can be reached. `count` is the number of
  reachable keys (`Members`), and if no walk reads a freed node these are the
  keys a walk finds. Each operation has a lemma for one bucket (`InsertChain`,
  `RemoveChain`, `ClearSound`, `RehashIs`) and one for the table (`InsertTable`,
  `RemoveTable`, `ClearTable`, `DoubleTable`). `DoubleTable` needs that an entry
  of slot i of 2n slots comes from slot i % n (`HomeHalf`), and that `Nth`
  enumerates the entries that are moved (`NthIs`).
* `NeverReadsFreed` (`NeverCrashes`) and `ImplementsDictionary` (`IsDictionary`),
  under `Usage`: `hashmap_clear` is not called and the table does not start with
  one slot (as in the server, which asks for no size and never clears). Both
  hypotheses are needed: without the first a walk comes to freed nodes, without
  the second doubling never ends. `CleanInv` says that all buckets are chains and
  `max_size` is positive. Every step is then a step of `Dictionary` or leaves it
  unchanged; a deletion by a callback of `hashmap_iter` is a `DDelete` of the key
  the callback has, because `CurrentIs`: the entry at the cursor is the one
  `hashmap_delete` finds, and the node that is freed is the one after it.
* That `RoundUp` gives a positive size, and not 1, rests on `PowerType`: 2^b is the
  number of subsets of a set of b elements (the provers know nothing of powers).

`IterationProofs`, from `MapAssumption` and with the invariant of `HashMapProofs`:

* `IterationIsExact` (`IterationExact`), for every sequence of calls, with no
  hypothesis on them. The property speaks of the end of an iteration only, so
  `VisitInv` follows the cursor: a key was visited once and no visited key is
  ahead of the cursor (`Ahead`: reachable, in a later slot or at the cursor's
  place or behind it); the buckets passed could be walked to their end; and if
  all buckets can be, the keys that are neither visited nor ahead are no more
  than the keys deleted since the start. A call back moves the key at the cursor
  from the keys ahead to the visited ones (`CallbackAhead`). A deletion moves
  every later entry of the bucket one place forward, so that the cursor, which
  goes on to the next place, passes over the one key that has come into this
  place (`RemoveWhere`, `DeleteAhead`), while the deletion adds one to the other
  side (`MissedIs`). At the end nothing is ahead. `hashmap_clear` does no harm:
  a cursor that has reached the end has walked every bucket, so none holds a
  freed node it could have come to.

`TransferProofs`, from `TransferAssumption` (any file, a block of at least one
byte):

* `TypeCorrect`, `LossIsLimited` (`LossIsBounded`) and `ImplementsFileCopy`
  (`IsFileCopy`): the initial states map to initial states of `FileCopy` and every
  step to one of its steps or to a stutter. The invariant `WireInv` numbers the
  messages of the transfer from 0 (`data_start`) to N + 1 (`data_end`). As long as
  `recv` returns whole messages there is a function `g` that says how many of
  them were sent up to each place in the stream: what follows in the stream is
  the next one or a message of another thread (`StreamInv`), the buffer holds the
  last one received or has been overwritten (`HandInv`), and the copy is as far
  as the messages handled so far, less the ones hit (`CopyInv`).

The inductive invariants were checked by TLC on the instances of the runs before
they were proved.

The SMT translation of tlapm 1.4.5 states of every value `S` that `DOMAIN S =
1..n` is the same as `Len(S) = n`; together with a function whose domain is, say,
`0..n` this is contradictory, and a leaf that mentions both could be proved from
nothing. All proofs here were therefore checked a second time with that axiom
weakened to the direction that holds (a function with the domain `1..n` has the
length n), and leaves were replaced by FALSE to see that their hypotheses do not
prove it.

Every invariant, action property and refinement a passing run checks is a theorem.
Only model-checked: liveness (`SigintEnds`, `EarlyEnbOffEnds`, `CleanEnds`,
`SignalOscillates`, `SilentIsKicked`, `TransferEnds`), because the prover has no
fairness or ENABLED. The two parts of the code that are loops over data, the walk along a
bucket and the doubling, are written with sets rather than recursion (`Least`,
`Nth`), so that no induction is needed to prove what they compute; MurmurHash3
stays a constant function.

## 5. Not modelled

* MurmurHash3: 64-bit products, out of reach of both tools; the map is checked
  for a hash with collisions that a doubling does and does not resolve.
* The logs: output that nothing reads.
* The numbers of the random access and of the RRC messages: `ra_rnti` is at most
  60, both sides take the same two bits of it, and nothing else looks at them.
* Partial reads outside the transfer: `UserEquipment` and `ENodeB` take messages
  whole.
* Failure of `malloc`, `pthread_create` and of the UE's `fopen`; jumps of the
  wall clock; a second transfer, which `"ab+"` appends to the first.
* `hashmap.c` under two concurrent changes, access by access: `ENodeB` has
  iterations against a change, and a change as one step (section 2).
* Both programs in one state space: the product of `UserEquipment` and `ENodeB`
  is too large. `UserEquipment` lets its eNodeB send and close at any time,
  `ENodeB` lets its clients send and leave at any time, and `KeepAlive` and
  `Transfer` compose the two sides of one protocol each.

## 6. Plan

Done: all modules of section 2, and a theorem for every safety property of the
passing runs. What stays with TLC is the liveness named in section 4. What could
be added is in section 5: two concurrent changes of the map, access by access,
and a second transfer into the same file.
