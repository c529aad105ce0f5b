------------------------------ MODULE Transfer ------------------------------
(***************************************************************************)
(* The transfer of one file to one UE: broadcast_sample in the eNodeB's    *)
(* transfer thread, the TCP stream, and the main loop of the UE, whose     *)
(* buffer the battery thread shares.                                       *)
(*                                                                         *)
(* A message is two halves of the stream: the type, and the rest.  TCP     *)
(* keeps bytes in order but not messages together: recv takes what has     *)
(* arrived, and after a read of one half every later message is cut in the *)
(* wrong place.  What bytes of data mean when read as a type is anything.  *)
(* The bytes of the file are named by their positions, FileCopy's Block.   *)
(***************************************************************************)
EXTENDS Integers, Sequences

CONSTANTS
  Sizes,        \* the sizes a file may have
  BUFFER_SIZE,  \* bytes in a data message (16)
  MaxOther,     \* messages the eNodeB's other threads send meanwhile
  MaxNotes      \* battery notifications meanwhile

ASSUME TransferAssumption ==
  /\ Sizes \subseteq Nat /\ BUFFER_SIZE \in Nat \ {0} /\ MaxOther \in Nat /\ MaxNotes \in Nat

VARIABLES
  size,       \* file_size
  sender,     \* broadcast_sample: "start", "data", "done" or "gone" (the process has exited)
  bytes_read,
  stream,     \* the halves sent and not read
  arrived,    \* how many of them have arrived
  pc,         \* the UE's main loop: "recv", "switch", "end" or "killed"
  type, body, \* message.message_type and message.message_value of the shared buffer
  file,       \* file_to_recv: "garbage", "open", "stray" (another name), "closed"
  copy,       \* blocks appended to the file of the right name
  others, notes,   \* how many other messages, and battery notifications
  short, hits      \* histories: recv has returned half a message; messages of the
                   \* transfer whose type the battery thread has overwritten

enb    == <<size, sender, bytes_read, others>>
buffer == <<type, body>>
vars   == <<enb, stream, arrived, pc, buffer, file, copy, notes, short, hits>>

-----------------------------------------------------------------------------
Fill(x) == [k \in 1..BUFFER_SIZE |-> x]
Name    == Fill(-1)   \* the file's name, "obrazek.png"
Junk    == Fill(-2)   \* bytes that were meant for something else
Tag     == {"data_start", "data", "data_end"}
Half    == [kind : {"type"}, type : Tag \cup {"other"}]
             \cup [kind : {"rest"}, body : {Name, Junk} \cup [1..BUFFER_SIZE -> Nat]]

(* send of a whole message; the queue is long enough never to block. *)
Send(t, b) == stream' = stream \o <<[kind |-> "type", type |-> t], [kind |-> "rest", body |-> b]>>

-----------------------------------------------------------------------------
(* broadcast_sample: the tag with the name, the blocks, the tag again.  The  *)
(* buffer is zeroed before fread, which may find fewer bytes than a block.   *)
ReadBlock == [k \in 1..BUFFER_SIZE |-> IF bytes_read + k <= size THEN bytes_read + k ELSE 0]

SendStart ==
  /\ sender = "start" /\ sender' = "data"
  /\ Send("data_start", Name)
  /\ UNCHANGED <<size, bytes_read, others, arrived, pc, buffer, file, copy, notes, short, hits>>

SendOneMore ==   \* mutant: off by one at the end of the file
  /\ sender = "data" /\ bytes_read <= size
  /\ bytes_read' = bytes_read + BUFFER_SIZE
  /\ Send("data", ReadBlock)
  /\ UNCHANGED <<size, sender, others, arrived, pc, buffer, file, copy, notes, short, hits>>

SendBlock ==
  /\ sender = "data" /\ bytes_read < size
  /\ bytes_read' = bytes_read + BUFFER_SIZE
  /\ Send("data", ReadBlock)
  /\ UNCHANGED <<size, sender, others, arrived, pc, buffer, file, copy, notes, short, hits>>

SendEndEarly ==   \* mutant: the loop ends before a last block that is not full
  /\ sender = "data" /\ bytes_read + BUFFER_SIZE > size /\ sender' = "done"
  /\ Send("data_end", Name)
  /\ UNCHANGED <<size, bytes_read, others, arrived, pc, buffer, file, copy, notes, short, hits>>

SendEnd ==
  /\ sender = "data" /\ bytes_read >= size /\ sender' = "done"
  /\ Send("data_end", Name)
  /\ UNCHANGED <<size, bytes_read, others, arrived, pc, buffer, file, copy, notes, short, hits>>

(* The file does not open, a send fails, or another thread ends the process. *)
SenderExits ==
  /\ sender \in {"start", "data"} /\ sender' = "gone"
  /\ UNCHANGED <<size, bytes_read, others, stream, arrived, pc, buffer, file, copy, notes,
                 short, hits>>

(* A ping or a measurement request on the same socket. *)
OtherSend ==
  /\ sender # "gone" /\ others < MaxOther /\ others' = others + 1
  /\ Send("other", Junk)
  /\ UNCHANGED <<size, sender, bytes_read, arrived, pc, buffer, file, copy, notes, short, hits>>

Arrive ==
  /\ arrived' \in (arrived + 1)..Len(stream)
  /\ UNCHANGED <<enb, stream, pc, buffer, file, copy, notes, short, hits>>

-----------------------------------------------------------------------------
(* The loop of main() *)

AsType(h) == IF h.kind = "type" THEN {h.type} ELSE Tag \cup {"other"}
AsBody(h) == IF h.kind = "rest" THEN h.body ELSE Junk

Take(n) == stream' = SubSeq(stream, n + 1, Len(stream)) /\ arrived' = arrived - n

(* recv with MSG_DONTWAIT; half a message leaves the rest of the buffer as   *)
(* the last one left it.                                                     *)
RecvMessage ==
  /\ pc = "recv" /\ pc' = "switch"
  /\ \/ /\ arrived >= 2 /\ Take(2)
        /\ type' \in AsType(stream[1]) /\ body' = AsBody(stream[2]) /\ short' = short
     \/ /\ arrived = 1 /\ Take(1)
        /\ type' \in AsType(stream[1]) /\ body' = body /\ short' = TRUE
     \/ arrived = 0 /\ UNCHANGED <<stream, arrived, buffer, short>>
  /\ UNCHANGED <<enb, file, copy, notes, hits>>

(* The battery thread stores the type of its notification. *)
SetNotification ==
  /\ pc # "killed" /\ notes < MaxNotes /\ notes' = notes + 1
  /\ type' = "other" /\ body' = body
  /\ hits' = IF pc = "switch" /\ type \in Tag THEN hits + 1 ELSE hits
  /\ UNCHANGED <<enb, stream, arrived, pc, file, copy, short>>

OpenFile ==
  /\ type = "data_start"
  /\ file' = IF body = Name THEN "open" ELSE "stray"
  /\ UNCHANGED copy

Prepend ==   \* mutant: the file is written from its start
  /\ type = "data" /\ file \in {"open", "stray"}
  /\ copy' = IF file = "open" THEN <<body>> \o copy ELSE copy
  /\ UNCHANGED file

download_data ==
  /\ type = "data" /\ file \in {"open", "stray"}
  /\ copy' = IF file = "open" THEN Append(copy, body) ELSE copy
  /\ UNCHANGED file

NotClosed ==   \* mutant: fclose is forgotten
  /\ type = "data_end" /\ file \in {"open", "stray"}
  /\ UNCHANGED <<file, copy>>

CloseFile ==
  /\ type = "data_end" /\ file \in {"open", "stray"}
  /\ file' = "closed" /\ UNCHANGED copy

(* A FILE pointer that is not open: the process dies or carries on. *)
Switch ==
  /\ pc = "switch"
  /\ \/ (OpenFile \/ download_data \/ CloseFile) /\ pc' = "end"
     \/ /\ type \in {"data", "data_end"} /\ file \in {"garbage", "closed"}
        /\ pc' \in {"end", "killed"} /\ UNCHANGED <<file, copy>>
     \/ type \in {"other", "none"} /\ pc' = "end" /\ UNCHANGED <<file, copy>>
  /\ UNCHANGED <<enb, stream, arrived, buffer, notes, short, hits>>

EndOfIteration ==
  /\ pc = "end" /\ pc' = "recv"
  /\ type' = "none" /\ body' = body
  /\ UNCHANGED <<enb, stream, arrived, file, copy, notes, short, hits>>

-----------------------------------------------------------------------------
Init ==
  /\ size \in Sizes /\ sender = "start" /\ bytes_read = 0 /\ others = 0
  /\ stream = <<>> /\ arrived = 0
  /\ pc = "recv" /\ type = "none" /\ body = Junk /\ file = "garbage" /\ copy = <<>>
  /\ notes = 0 /\ short = FALSE /\ hits = 0

(* The UE is dead; what the eNodeB still does no longer matters. *)
Ended == pc = "killed" /\ UNCHANGED vars

Sender == SendStart \/ SendBlock \/ SendEnd
Loop   == RecvMessage \/ Switch \/ EndOfIteration
Next   == \/ SendStart \/ SendBlock \/ SendEnd \/ SenderExits \/ OtherSend \/ Arrive
          \/ RecvMessage \/ Switch \/ EndOfIteration \/ SetNotification \/ Ended

Spec == Init /\ [][Next]_vars

(* Both threads run and TCP delivers what was sent. *)
FairSpec == Spec /\ WF_vars(Sender) /\ WF_vars(Loop) /\ WF_vars(Arrive)

-----------------------------------------------------------------------------
TypeOK ==
  /\ size \in Sizes /\ sender \in {"start", "data", "done", "gone"}
  /\ bytes_read \in Nat /\ bytes_read < size + BUFFER_SIZE
  /\ stream \in Seq(Half) /\ arrived \in 0..Len(stream)
  /\ pc \in {"recv", "switch", "end", "killed"} /\ type \in Tag \cup {"other", "none"}
  /\ file \in {"garbage", "open", "stray", "closed"}
  /\ others \in 0..MaxOther /\ notes \in 0..MaxNotes /\ hits \in 0..notes
  /\ short \in BOOLEAN

(* The copy is what FileCopy promises: blocks of the file in their order,    *)
(* none twice, and all of them if the file is closed and the battery thread  *)
(* has overwritten nothing; until recv returns half a message.               *)
CopyState == IF short THEN "broken"
             ELSE IF file = "garbage" THEN "none" ELSE file
Promise == INSTANCE FileCopy WITH state <- CopyState, missed <- hits > 0
IsFileCopy == Promise!Spec

(* A file that is opened and closed lacks no more blocks than the battery    *)
(* thread has overwritten types, whatever else is sent meanwhile.            *)
LossIsBounded ==
  ~short /\ file = "closed" => Promise!Blocks(size) - Len(copy) <= hits

(* A transfer that is sent completely is received completely: the UE closes  *)
(* its file, unless it lost a message or the place where messages begin.     *)
TransferEnds == sender = "done" ~> (file = "closed" \/ hits > 0 \/ short)
=============================================================================
