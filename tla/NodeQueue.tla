----------------------------- MODULE NodeQueue -----------------------------
(***************************************************************************)
(* The queue of common/node_queue.c with the threads node.c runs on it:    *)
(* one receiver that pushes, the workers that pop, and the main thread,    *)
(* which waits in node_run's joins and on which the termination handler    *)
(* calls node_stop.                                                        *)
(*                                                                         *)
(* A critical section runs from taking q->lock to releasing it, and        *)
(* pthread_cond_wait is where it is cut: a thread that waits is in the     *)
(* wait set of its condition variable, and a thread that was woken tries   *)
(* the condition again, in any order with the others.                      *)
(*                                                                         *)
(* Message i is the i-th one the receiver reads from a connection.         *)
(***************************************************************************)
EXTENDS Naturals, Sequences, FiniteSets

CONSTANTS
  Workers,        \* NODE_WORKER_COUNT threads
  Capacity,       \* NODE_QUEUE_CAPACITY
  MaxMessages     \* bound: messages that arrive

ASSUME WorkersAssumption == Workers # {}
ASSUME CapacityAssumption == Capacity \in Nat \ {0}
ASSUME MessagesAssumption == MaxMessages \in Nat

Message == 1..MaxMessages
Slots == 0..(Capacity - 1)
Blank == 0                          \* a slot that was never written

VARIABLES
  items, head, tail, count,         \* the ring
  shutting_down,                    \* q->shutting_down
  running,                          \* node->running
  listening,                        \* server_fd has not been shut down
  receiver,                         \* where the receiver thread is
  accepted,                         \* messages read from connections so far
  worker,                           \* where each worker thread is
  stopper,                          \* how far node_stop has got
  popped,                           \* messages given to workers (history)
  refused                           \* messages push refused (history)

ring == <<items, head, tail, count>>
vars == <<items, head, tail, count, shutting_down, running, listening,
          receiver, accepted, worker, stopper, popped, refused>>

\* A thread in "wait_not_full" or "wait_not_empty" is in the wait set of that
\* condition variable; one in "push" or "pop" is about to test its condition.
ReceiverPc == {"loop", "accept", "recv", "push", "wait_not_full", "done"}
WorkerPc == {"pop", "wait_not_empty", "handle", "done"}
StopperPc == {"joining", "queue", "socket", "stopped"}

TypeOK ==
  /\ items \in [Slots -> Message \cup {Blank}]
  /\ head \in Slots /\ tail \in Slots /\ count \in 0..Capacity
  /\ shutting_down \in BOOLEAN /\ running \in BOOLEAN /\ listening \in BOOLEAN
  /\ receiver \in ReceiverPc /\ accepted \in 0..MaxMessages
  /\ worker \in [Workers -> WorkerPc]
  /\ stopper \in StopperPc
  /\ popped \in Seq(Message) /\ refused \in Seq(Message)

\* node_queue_init, and node_run once it has created its threads.
Init ==
  /\ items = [s \in Slots |-> Blank]
  /\ head = 0 /\ tail = 0 /\ count = 0 /\ shutting_down = FALSE
  /\ running = TRUE /\ listening = TRUE
  /\ receiver = "loop" /\ accepted = 0
  /\ worker = [w \in Workers |-> "pop"]
  /\ stopper = "joining"
  /\ popped = <<>> /\ refused = <<>>

-----------------------------------------------------------------------------
(* The receiver thread.                                                    *)

\* The test of receiver_main's loop.
ReceiverLoop ==
  /\ receiver = "loop"
  /\ receiver' = IF running THEN "accept" ELSE "done"
  /\ UNCHANGED <<ring, shutting_down, running, listening, accepted, worker,
                 stopper, popped, refused>>

\* ipc_server_accept gives a connection.
Accept ==
  /\ receiver = "accept" /\ listening
  /\ receiver' = "recv"
  /\ UNCHANGED <<ring, shutting_down, running, listening, accepted, worker,
                 stopper, popped, refused>>

\* ipc_recv gives a message.  It waits for it as long as the connection is
\* open: what node_stop does to the listening socket does not reach it.
Receive ==
  /\ receiver = "recv" /\ accepted < MaxMessages
  /\ accepted' = accepted + 1
  /\ receiver' = "push"
  /\ UNCHANGED <<ring, shutting_down, running, listening, worker, stopper,
                 popped, refused>>

\* The connection closes before a whole message has come, or what has come is
\* no message: the receiver closes it.
RecvFails ==
  /\ receiver = "recv"
  /\ receiver' = "loop"
  /\ UNCHANGED <<ring, shutting_down, running, listening, accepted, worker,
                 stopper, popped, refused>>

\* accept fails once the socket is shut down.
AcceptFails ==
  /\ receiver = "accept" /\ ~listening
  /\ receiver' = "loop"
  /\ UNCHANGED <<ring, shutting_down, running, listening, accepted, worker,
                 stopper, popped, refused>>

SignalNobody == UNCHANGED worker      \* mutant: the signal is forgotten

\* pthread_cond_signal(&q->not_empty): one waiting worker, if there is one.
SignalNotEmpty ==
  \/ \E w \in Workers : /\ worker[w] = "wait_not_empty"
                        /\ worker' = [worker EXCEPT ![w] = "pop"]
  \/ /\ \A w \in Workers : worker[w] # "wait_not_empty"
     /\ UNCHANGED worker

\* Mutant: the test for a full ring is off by one.
PushOverwrites ==
  /\ receiver = "push" /\ ~shutting_down
  /\ items' = [items EXCEPT ![tail] = accepted]
  /\ tail' = (tail + 1) % Capacity
  /\ count' = count + 1
  /\ SignalNotEmpty
  /\ receiver' = "loop"
  /\ UNCHANGED <<head, shutting_down, running, listening, accepted, stopper,
                 popped, refused>>

\* Mutant: a shutdown does not keep messages out.
PushAfterShutdown ==
  /\ receiver = "push" /\ count < Capacity
  /\ items' = [items EXCEPT ![tail] = accepted]
  /\ tail' = (tail + 1) % Capacity
  /\ count' = count + 1
  /\ SignalNotEmpty
  /\ receiver' = "loop"
  /\ UNCHANGED <<head, shutting_down, running, listening, accepted, stopper,
                 popped, refused>>

\* node_queue_push, from the test of its loop on.  A message that is refused
\* because of a shutdown is freed and its connection closed.
Push ==
  /\ receiver = "push"
  /\ \/ /\ count = Capacity /\ ~shutting_down
        /\ receiver' = "wait_not_full"
        /\ UNCHANGED <<ring, worker, refused>>
     \/ /\ shutting_down
        /\ receiver' = "loop"
        /\ refused' = Append(refused, accepted)
        /\ UNCHANGED <<ring, worker>>
     \/ /\ count < Capacity /\ ~shutting_down
        /\ items' = [items EXCEPT ![tail] = accepted]
        /\ tail' = (tail + 1) % Capacity
        /\ count' = count + 1
        /\ SignalNotEmpty
        /\ receiver' = "loop"
        /\ UNCHANGED <<head, refused>>
  /\ UNCHANGED <<shutting_down, running, listening, accepted, stopper, popped>>

-----------------------------------------------------------------------------
(* The worker threads.                                                     *)

\* pthread_cond_signal(&q->not_full): the receiver, if it waits.
SignalNotFull ==
  receiver' = IF receiver = "wait_not_full" THEN "push" ELSE receiver

\* Mutant: a worker leaves as soon as the queue is shut down.
PopLeavesEarly(w) ==
  /\ worker[w] = "pop" /\ shutting_down
  /\ worker' = [worker EXCEPT ![w] = "done"]
  /\ UNCHANGED <<ring, shutting_down, running, listening, receiver, accepted,
                 stopper, popped, refused>>

\* node_queue_pop, from the test of its loop on.  An empty queue that is
\* shut down ends the worker.
Pop(w) ==
  /\ worker[w] = "pop"
  /\ \/ /\ count = 0 /\ ~shutting_down
        /\ worker' = [worker EXCEPT ![w] = "wait_not_empty"]
        /\ UNCHANGED <<ring, receiver, popped>>
     \/ /\ count = 0 /\ shutting_down
        /\ worker' = [worker EXCEPT ![w] = "done"]
        /\ UNCHANGED <<ring, receiver, popped>>
     \/ /\ count > 0
        /\ popped' = Append(popped, items[head])
        /\ head' = (head + 1) % Capacity
        /\ count' = count - 1
        /\ SignalNotFull
        /\ worker' = [worker EXCEPT ![w] = "handle"]
        /\ UNCHANGED <<items, tail>>
  /\ UNCHANGED <<shutting_down, running, listening, accepted, stopper, refused>>

\* handle_message returns; module Replication models what it does.
Handled(w) ==
  /\ worker[w] = "handle"
  /\ worker' = [worker EXCEPT ![w] = "pop"]
  /\ UNCHANGED <<ring, shutting_down, running, listening, receiver, accepted,
                 stopper, popped, refused>>

\* pthread_cond_wait may return without a signal.
SpuriousWakeup ==
  /\ \/ /\ receiver = "wait_not_full" /\ receiver' = "push"
        /\ UNCHANGED worker
     \/ /\ \E w \in Workers : /\ worker[w] = "wait_not_empty"
                              /\ worker' = [worker EXCEPT ![w] = "pop"]
        /\ UNCHANGED receiver
  /\ UNCHANGED <<ring, shutting_down, running, listening, accepted, stopper,
                 popped, refused>>

-----------------------------------------------------------------------------
(* node_stop, on the main thread.                                          *)

StopRunning ==
  /\ stopper = "joining"
  /\ running' = FALSE
  /\ stopper' = "queue"
  /\ UNCHANGED <<ring, shutting_down, listening, receiver, accepted, worker,
                 popped, refused>>

\* Mutant: the flag is set and nobody is woken.
ShutDownSilently ==
  /\ stopper = "queue"
  /\ shutting_down' = TRUE
  /\ stopper' = "socket"
  /\ UNCHANGED <<ring, running, listening, receiver, accepted, worker, popped,
                 refused>>

\* node_queue_shutdown, with its two broadcasts.
ShutDownQueue ==
  /\ stopper = "queue"
  /\ shutting_down' = TRUE
  /\ worker' = [w \in Workers |-> IF worker[w] = "wait_not_empty" THEN "pop"
                                                                  ELSE worker[w]]
  /\ receiver' = IF receiver = "wait_not_full" THEN "push" ELSE receiver
  /\ stopper' = "socket"
  /\ UNCHANGED <<ring, running, listening, accepted, popped, refused>>

ShutDownSocket ==
  /\ stopper = "socket"
  /\ listening' = FALSE
  /\ stopper' = "stopped"
  /\ UNCHANGED <<ring, shutting_down, running, receiver, accepted, worker,
                 popped, refused>>

-----------------------------------------------------------------------------
ReceiverStep == ReceiverLoop \/ AcceptFails \/ Push
PeerStep == Receive \/ RecvFails
WorkerStep(w) == Pop(w) \/ Handled(w)
StopStep == ShutDownQueue \/ ShutDownSocket

Next ==
  \/ ReceiverStep \/ Accept \/ PeerStep \/ SpuriousWakeup \/ StopRunning \/ StopStep
  \/ \E w \in Workers : WorkerStep(w)

Spec == Init /\ [][Next]_vars

\* The threads that can run do, and a peer that has connected writes its
\* message or closes: every sender writes right after connect, and its end
\* closes the connection.  Nobody has to connect or to stop the node, and no
\* wake-up comes from nowhere.
FairSpec ==
  /\ Spec
  /\ WF_vars(ReceiverStep) /\ WF_vars(PeerStep) /\ WF_vars(StopStep)
  /\ \A w \in Workers : WF_vars(WorkerStep(w))

-----------------------------------------------------------------------------
(* Properties.                                                             *)

\* The messages in the ring, oldest first.
Contents == [i \in 1..count |-> items[(head + (i - 1)) % Capacity]]

\* Every message the receiver has taken is, once, in the hands of a worker,
\* in the ring or refused by the shutdown, and they leave in the order they
\* came, also when head and tail have gone round the ring.
InOrderOnce ==
  LET kept == Len(popped) + count
      holding == receiver \in {"push", "wait_not_full"}
  IN /\ \A i \in 1..Len(popped) : popped[i] = i
     /\ \A i \in 1..count : Contents[i] = Len(popped) + i
     /\ \A i \in 1..Len(refused) : refused[i] = kept + i
     /\ accepted = kept + Len(refused) + (IF holding THEN 1 ELSE 0)

\* No thread sleeps through its wake-up: the receiver waits only while the
\* ring is full, the workers do not all wait while it holds a message, and
\* nobody waits on a queue that is shut down.
NoLostWakeup ==
  /\ receiver = "wait_not_full" => count = Capacity /\ ~shutting_down
  /\ count > 0 => \E w \in Workers : worker[w] # "wait_not_empty"
  /\ shutting_down => \A w \in Workers : worker[w] # "wait_not_empty"

\* A shutdown drains: the workers leave only once the ring is empty for good.
DrainedBeforeExit ==
  (\E w \in Workers : worker[w] = "done") => count = 0 /\ shutting_down

\* The ring implements the abstract queue.
F == INSTANCE Fifo WITH queue <- Contents, taken <- popped, open <- ~shutting_down
ImplementsFifo == F!Spec

\* A message that got into the ring reaches a worker, with or without a
\* shutdown in between.
EveryMessageHandled ==
  \A m \in Message :
    (\E i \in 1..count : Contents[i] = m) ~> (\E i \in 1..Len(popped) : popped[i] = m)

\* node_stop makes every thread that node_run joins end, also a receiver that
\* it finds between accept and the message.
StopEndsThreads ==
  stopper = "queue" ~> receiver = "done" /\ \A w \in Workers : worker[w] = "done"

-----------------------------------------------------------------------------
\* InOrderOnce, NoLostWakeup and DrainedBeforeExit are preserved together,
\* given that tail is where the next message belongs and that push refuses
\* nothing before the shutdown.
IInv ==
  /\ TypeOK
  /\ tail = (head + count) % Capacity
  /\ refused # <<>> => shutting_down
  /\ InOrderOnce
  /\ NoLostWakeup
  /\ DrainedBeforeExit
=============================================================================
