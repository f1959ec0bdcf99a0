-------------------------------- MODULE Fifo --------------------------------
(***************************************************************************)
(* What node_queue.h promises: a bounded first-in first-out queue that     *)
(* takes no message any more once it is shut down, and still gives out the *)
(* ones it has.  Nothing here knows of ring slots, condition variables or  *)
(* threads.                                                                *)
(***************************************************************************)
EXTENDS Naturals, Sequences

CONSTANTS Message, Capacity

VARIABLES
  queue,   \* messages in the queue, oldest first
  taken,   \* messages given out, in that order
  open     \* the queue has not been shut down

fifoVars == <<queue, taken, open>>

Init == queue = <<>> /\ taken = <<>> /\ open = TRUE

Put == /\ open /\ Len(queue) < Capacity
       /\ \E m \in Message : queue' = Append(queue, m)
       /\ UNCHANGED <<taken, open>>

Take == /\ queue # <<>>
        /\ taken' = Append(taken, Head(queue))
        /\ queue' = Tail(queue)
        /\ UNCHANGED open

Close == open /\ open' = FALSE /\ UNCHANGED <<queue, taken>>

Next == Put \/ Take \/ Close

Spec == Init /\ [][Next]_fifoVars
=============================================================================
