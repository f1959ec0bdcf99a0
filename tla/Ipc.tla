-------------------------------- MODULE Ipc --------------------------------
(***************************************************************************)
(* One direction of a connection, with ipc_send at one end and ipc_recv at *)
(* the other: common/ipc.c.  A message is a header and a payload of raw    *)
(* bytes.  write moves as much as the socket's buffer has room for and     *)
(* read as much as there is, up to what is asked for; write_full and       *)
(* read_full repeat them, also after a signal.  The unit is a cell, a      *)
(* piece of the message that is moved as a whole.                          *)
(*                                                                         *)
(* A process that dies closes its end.  The receiver then finds the rest   *)
(* of what was written, and after it the end of the connection; a sender   *)
(* is killed by SIGPIPE.  Magic and version are those of every sender.     *)
(***************************************************************************)
EXTENDS Naturals, Sequences

CONSTANTS
  HEADER_SIZE,          \* cells of a header
  SOCKET_BUFFER,        \* cells the kernel keeps
  MAX_PAYLOAD_SIZE      \* in cells

VARIABLE wire

Nothing == [state |-> "nothing"]

\* message: what ipc_send was called with; todo: cells to be written;
\* buffer: cells in the kernel; got: cells read; sender and receiver: the ends.
NewWire == [message |-> Nothing, todo |-> <<>>, buffer |-> <<>>, got |-> <<>>,
            sender |-> "open", receiver |-> "reading"]

Message(type, payload) == [state |-> "message", type |-> type, payload |-> payload]

Header(m) == [i \in 1..HEADER_SIZE |->
               [kind |-> "header", part |-> i, type |-> m.type, payload_len |-> Len(m.payload)]]

\* ipc_send: a payload that is too large is refused, and nothing is written.
ipc_send(w, m) ==
  IF Len(m.payload) > MAX_PAYLOAD_SIZE THEN w
  ELSE [w EXCEPT !.message = m, !.todo = Header(m) \o m.payload]

AtMost(a, b) == IF a < b THEN a ELSE b

\* One write of write_full.
Write ==
  /\ wire.sender = "open" /\ wire.receiver # "closed"
  /\ \E n \in 1..AtMost(Len(wire.todo), SOCKET_BUFFER - Len(wire.buffer)) :
       wire' = [wire EXCEPT !.buffer = @ \o SubSeq(wire.todo, 1, n),
                            !.todo = SubSeq(@, n + 1, Len(@))]

\* Mutant: one read of the payload is taken for all of it.
ShortRead(got) ==
  IF Len(got) < HEADER_SIZE THEN HEADER_SIZE - Len(got)
  ELSE IF Len(got) > HEADER_SIZE THEN 0
  ELSE got[HEADER_SIZE].payload_len

\* What ipc_recv has yet to read, for the header first.
Wanted(got) ==
  IF Len(got) < HEADER_SIZE THEN HEADER_SIZE - Len(got)
  ELSE HEADER_SIZE + got[HEADER_SIZE].payload_len - Len(got)

\* Where ipc_recv is after a read.
AfterRead(got) ==
  IF Len(got) >= HEADER_SIZE /\ got[HEADER_SIZE].payload_len > MAX_PAYLOAD_SIZE THEN "failed"
  ELSE IF Len(got) >= HEADER_SIZE /\ Wanted(got) = 0 THEN "done"
  ELSE "reading"

\* One read of read_full.
Read ==
  /\ wire.receiver = "reading"
  /\ \E n \in 1..AtMost(Len(wire.buffer), Wanted(wire.got)) :
       LET got == wire.got \o SubSeq(wire.buffer, 1, n)
       IN wire' = [wire EXCEPT !.got = got, !.receiver = AfterRead(got),
                               !.buffer = SubSeq(@, n + 1, Len(@))]

\* Mutant: read is called again at the end of the connection.
IgnoreEnd ==
  /\ wire.receiver = "reading" /\ wire.buffer = <<>> /\ wire.sender = "closed"
  /\ wire' = wire

\* read returns 0: the peer has closed before all was written.
EndOfStream ==
  /\ wire.receiver = "reading" /\ wire.buffer = <<>> /\ wire.sender = "closed"
  /\ wire' = [wire EXCEPT !.receiver = "failed"]

\* An end is closed, by ipc_close or with its process.
CloseSender(w) == [w EXCEPT !.sender = "closed", !.todo = <<>>]
CloseReceiver(w) == [w EXCEPT !.receiver = IF @ = "reading" THEN "closed" ELSE @]

-----------------------------------------------------------------------------
Received ==
  CASE wire.receiver = "done" ->
         Message(wire.got[1].type, SubSeq(wire.got, HEADER_SIZE + 1, Len(wire.got)))
    [] wire.receiver = "failed" -> [state |-> "error"]
    [] OTHER -> Nothing

D == INSTANCE Delivery WITH sent <- wire.message, received <- Received

\* A direction of a connection delivers all of a message or none of it,
\* however write and read cut it up and whenever the sender dies.
DeliversAllOrNothing == D!Spec
=============================================================================
