------------------------------ MODULE Delivery ------------------------------
(***************************************************************************)
(* What common/ipc.c promises for the one message that goes in one         *)
(* direction of a connection: the receiver gets the message that was sent, *)
(* all of it, or an error.  It never gets a part of it.                    *)
(***************************************************************************)
VARIABLES
  sent,        \* the message, once it was given to ipc_send
  received     \* what ipc_recv has returned

vars == <<sent, received>>

Nothing == [state |-> "nothing"]
Error == [state |-> "error"]
IsMessage(m) == m.state = "message"

Init == sent = Nothing /\ received = Nothing

Send ==
  /\ sent = Nothing /\ IsMessage(sent')
  /\ UNCHANGED received

Deliver ==
  /\ IsMessage(sent) /\ received = Nothing
  /\ received' = sent
  /\ UNCHANGED sent

Fail ==
  /\ received = Nothing /\ received' = Error
  /\ UNCHANGED sent

\* The next connection, whose message may already be on its way.
Connect == (sent' = Nothing \/ IsMessage(sent')) /\ received' = Nothing

Next == Send \/ Deliver \/ Fail \/ Connect
Spec == Init /\ [][Next]_vars
=============================================================================
