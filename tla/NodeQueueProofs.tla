-------------------------- MODULE NodeQueueProofs --------------------------
(***************************************************************************)
(* Proofs about NodeQueue, for every capacity, every non-empty set of      *)
(* workers and every number of messages.                                   *)
(***************************************************************************)
EXTENDS NodeQueue, TLAPS

-----------------------------------------------------------------------------
(* Slots of the ring.                                                      *)

\* Going k < Capacity slots on from slot h wraps around at most once.
LEMMA Wrap ==
  ASSUME NEW h \in Slots, NEW k \in 0..Capacity
  PROVE  /\ (h + k) % Capacity \in Slots
         /\ (h + k) % Capacity = IF h + k < Capacity THEN h + k ELSE h + k - Capacity
<1>1. Capacity \in Nat /\ Capacity > 0 /\ h \in Nat /\ k \in Nat
      /\ h < Capacity /\ k <= Capacity
  BY CapacityAssumption DEF Slots
<1>2. CASE h + k < Capacity
  <2>1. h + k \in Nat
    BY <1>1
  <2>2. (h + k) % Capacity = h + k
    BY <1>1, <1>2, <2>1
  <2> QED BY <1>1, <1>2, <2>1, <2>2 DEF Slots
<1>3. CASE ~(h + k < Capacity)
  <2>1. h + k \in Nat /\ Capacity <= h + k /\ h + k < 2 * Capacity
    BY <1>1, <1>3
  <2>2. (h + k) % Capacity = h + k - Capacity
    BY <1>1, <2>1
  <2> QED BY <1>1, <1>3, <2>1, <2>2 DEF Slots
<1> QED BY <1>2, <1>3

\* Two different distances below Capacity lead to different slots.
LEMMA WrapInjective ==
  ASSUME NEW h \in Slots, NEW j \in 0..Capacity, NEW k \in 0..Capacity, j < k, k - j < Capacity
  PROVE  (h + j) % Capacity # (h + k) % Capacity
<1>1. Capacity \in Nat /\ h \in Nat /\ j \in Nat /\ k \in Nat
  BY CapacityAssumption DEF Slots
<1>2. (h + j) % Capacity = IF h + j < Capacity THEN h + j ELSE h + j - Capacity
  BY Wrap
<1>3. (h + k) % Capacity = IF h + k < Capacity THEN h + k ELSE h + k - Capacity
  BY Wrap
<1> QED BY <1>1, <1>2, <1>3

\* One slot on from head, the distances shrink by one.
LEMMA WrapStep ==
  ASSUME NEW h \in Slots, NEW k \in 0..(Capacity - 1)
  PROVE  /\ (h + 1) % Capacity \in Slots
         /\ (((h + 1) % Capacity) + k) % Capacity = (h + (k + 1)) % Capacity
<1>1. Capacity \in Nat /\ Capacity > 0
  BY CapacityAssumption
<1>2. 1 \in 0..Capacity /\ k \in 0..Capacity /\ k + 1 \in 0..Capacity
  BY <1>1
<1>3. (h + 1) % Capacity \in Slots
      /\ (h + 1) % Capacity = IF h + 1 < Capacity THEN h + 1 ELSE h + 1 - Capacity
  BY <1>2, Wrap
<1>4. (h + (k + 1)) % Capacity = IF h + (k + 1) < Capacity THEN h + (k + 1)
                                 ELSE h + (k + 1) - Capacity
  BY <1>2, Wrap
<1> DEFINE g == (h + 1) % Capacity
<1>5. (g + k) % Capacity = IF g + k < Capacity THEN g + k ELSE g + k - Capacity
  BY <1>2, <1>3, Wrap
<1>6. h \in Nat /\ h < Capacity /\ k \in Nat /\ k < Capacity
  BY <1>1 DEF Slots
<1>7. CASE h + 1 < Capacity
  <2>1. g = h + 1
    BY <1>3, <1>7
  <2> HIDE DEF g
  <2> QED BY <1>1, <1>3, <1>4, <1>5, <1>6, <2>1 DEF g
<1>8. CASE ~(h + 1 < Capacity)
  <2>1. g = 0 /\ h = Capacity - 1
    BY <1>1, <1>3, <1>6, <1>8
  <2>2. g + k < Capacity
    BY <1>6, <2>1
  <2> QED BY <1>1, <1>3, <1>4, <1>5, <1>6, <2>1, <2>2
<1> QED BY <1>7, <1>8

-----------------------------------------------------------------------------
(* The inductive invariant.                                                *)

\* The initial states satisfy the invariant.
LEMMA InitIInv == Init => IInv
<1> SUFFICES ASSUME Init PROVE IInv
  OBVIOUS
<1> USE CapacityAssumption, WorkersAssumption, MessagesAssumption
<1>1. TypeOK
  <2>1. 0 \in Slots /\ 0 \in 0..Capacity /\ 0 \in 0..MaxMessages
    BY DEF Slots
  <2>2. items \in [Slots -> Message \cup {Blank}] /\ worker \in [Workers -> WorkerPc]
    BY DEF Init, WorkerPc
  <2>3. popped \in Seq(Message) /\ refused \in Seq(Message)
    BY DEF Init
  <2>4. receiver \in ReceiverPc /\ stopper \in StopperPc
    BY DEF Init, ReceiverPc, StopperPc
  <2> QED BY <2>1, <2>2, <2>3, <2>4 DEF Init, TypeOK
<1>2. tail = (head + count) % Capacity
  <2>1. 0 \in Slots /\ 0 \in 0..Capacity
    BY DEF Slots
  <2>2. (0 + 0) % Capacity = 0
    BY <2>1, Wrap
  <2> QED BY <2>2 DEF Init
<1>3. InOrderOnce /\ NoLostWakeup /\ DrainedBeforeExit
  BY DEF Init, InOrderOnce, NoLostWakeup, DrainedBeforeExit
<1> QED BY <1>1, <1>2, <1>3 DEF IInv, Init

\* A step that leaves the ring, the histories and the shutdown flag alone and
\* moves the receiver only between places that hold the same message keeps
\* the order.
LEMMA OrderKept ==
  ASSUME InOrderOnce,
         UNCHANGED <<items, head, count, popped, refused, accepted>>,
         receiver' \in {"push", "wait_not_full"} <=> receiver \in {"push", "wait_not_full"}
  PROVE  InOrderOnce'
BY DEF InOrderOnce, Contents

\* Push preserves the invariant.
LEMMA PushIInv == ASSUME IInv, Push PROVE IInv'
<1> USE CapacityAssumption, WorkersAssumption, MessagesAssumption
<1>0. TypeOK /\ InOrderOnce /\ NoLostWakeup /\ DrainedBeforeExit
      /\ tail = (head + count) % Capacity /\ (refused # <<>> => shutting_down)
  BY DEF IInv
<1>a. receiver = "push" /\ UNCHANGED <<shutting_down, running, listening, accepted, stopper, popped>>
  BY DEF Push
<1>b. accepted = Len(popped) + count + Len(refused) + 1
  BY <1>0, <1>a DEF InOrderOnce
<1>c. Len(popped) \in Nat /\ Len(refused) \in Nat /\ count \in Nat /\ count <= Capacity
      /\ head \in Slots /\ accepted \in Nat /\ accepted <= MaxMessages
  BY <1>0 DEF TypeOK
<1>1. CASE /\ count = Capacity /\ ~shutting_down
           /\ receiver' = "wait_not_full"
           /\ UNCHANGED <<ring, worker, refused>>
  <2>1. TypeOK'
    BY <1>0, <1>1, <1>a DEF TypeOK, ring, ReceiverPc
  <2>2. InOrderOnce'
    BY <1>0, <1>1, <1>a, OrderKept DEF ring
  <2>3. NoLostWakeup' /\ DrainedBeforeExit'
    BY <1>0, <1>1, <1>a DEF NoLostWakeup, DrainedBeforeExit, ring
  <2> QED BY <1>0, <1>1, <1>a, <2>1, <2>2, <2>3 DEF IInv, ring
<1>2. CASE /\ shutting_down
           /\ receiver' = "loop"
           /\ refused' = Append(refused, accepted)
           /\ UNCHANGED <<ring, worker>>
  <2>1. accepted \in Message
    BY <1>b, <1>c DEF Message
  <2>2. TypeOK'
    BY <1>0, <1>2, <1>a, <2>1 DEF TypeOK, ring, ReceiverPc
  <2>3. InOrderOnce'
    <3>1. Len(refused') = Len(refused) + 1
          /\ \A i \in 1..Len(refused') : refused'[i] = IF i = Len(refused) + 1 THEN accepted
                                                       ELSE refused[i]
      BY <1>0, <1>2, <2>1 DEF TypeOK
    <3>2. \A i \in 1..Len(refused') : refused'[i] = Len(popped) + count + i
      <4> SUFFICES ASSUME NEW i \in 1..Len(refused')
                   PROVE  refused'[i] = Len(popped) + count + i
        OBVIOUS
      <4>1. i \in Nat /\ (i = Len(refused) + 1 \/ i \in 1..Len(refused))
        BY <1>c, <3>1
      <4>2. CASE i = Len(refused) + 1
        BY <1>b, <1>c, <3>1, <4>2
      <4>3. CASE i \in 1..Len(refused)
        <5>1. refused[i] = Len(popped) + count + i
          BY <1>0, <4>3 DEF InOrderOnce
        <5> QED BY <1>c, <3>1, <4>3, <5>1
      <4> QED BY <4>1, <4>2, <4>3
    <3> QED BY <1>0, <1>2, <1>a, <1>b, <1>c, <3>1, <3>2 DEF InOrderOnce, Contents, ring
  <2>4. NoLostWakeup' /\ DrainedBeforeExit'
    BY <1>0, <1>2, <1>a DEF NoLostWakeup, DrainedBeforeExit, ring
  <2> QED BY <1>0, <1>2, <1>a, <2>2, <2>3, <2>4 DEF IInv, ring
<1>3. CASE /\ count < Capacity /\ ~shutting_down
           /\ items' = [items EXCEPT ![tail] = accepted]
           /\ tail' = (tail + 1) % Capacity
           /\ count' = count + 1
           /\ SignalNotEmpty
           /\ receiver' = "loop"
           /\ UNCHANGED <<head, refused>>
  <2>1. refused = <<>> /\ Len(refused) = 0
    BY <1>0, <1>3
  <2>2. accepted = Len(popped) + count + 1 /\ accepted \in Message
    BY <1>b, <1>c, <2>1 DEF Message
  <2>3. worker' \in [Workers -> WorkerPc] /\ \E w \in Workers : worker'[w] # "wait_not_empty"
    <3>1. CASE \E w \in Workers : /\ worker[w] = "wait_not_empty"
                                  /\ worker' = [worker EXCEPT ![w] = "pop"]
      <4>1. PICK w \in Workers : worker' = [worker EXCEPT ![w] = "pop"]
        BY <3>1
      <4>2. worker'[w] = "pop"
        BY <1>0, <4>1 DEF TypeOK
      <4> QED BY <1>0, <4>1, <4>2 DEF TypeOK, WorkerPc
    <3>2. CASE (\A w \in Workers : worker[w] # "wait_not_empty") /\ UNCHANGED worker
      BY <1>0, <3>2 DEF TypeOK
    <3> QED BY <1>3, <3>1, <3>2 DEF SignalNotEmpty
  <2>4. tail' \in Slots /\ tail' = (head + count') % Capacity
    <3>1. count \in 0..(Capacity - 1)
      BY <1>c, <1>3
    <3>2. tail \in Slots /\ 1 \in 0..Capacity
      BY <1>0 DEF TypeOK
    <3>3. tail' \in Slots
      BY <1>3, <3>2, Wrap
    <3>4. tail = IF head + count < Capacity THEN head + count ELSE head + count - Capacity
      BY <1>0, <1>c, <3>1, Wrap
    <3>5. tail' = IF tail + 1 < Capacity THEN tail + 1 ELSE tail + 1 - Capacity
      BY <1>3, <3>2, Wrap
    <3>6. (head + (count + 1)) % Capacity = IF head + (count + 1) < Capacity THEN head + (count + 1)
                                            ELSE head + (count + 1) - Capacity
      <4>1. count + 1 \in 0..Capacity
        BY <3>1
      <4> QED BY <1>c, <4>1, Wrap
    <3>7. head \in Nat /\ head < Capacity
      BY <1>c DEF Slots
    <3>8. tail' = (head + (count + 1)) % Capacity
      BY <1>c, <1>3, <3>4, <3>5, <3>6, <3>7
    <3> QED BY <1>3, <3>3, <3>8
  <2>5. TypeOK'
    BY <1>0, <1>3, <1>a, <1>c, <2>1, <2>2, <2>3, <2>4 DEF TypeOK, ReceiverPc
  <2>6. InOrderOnce'
    <3>1. \A i \in 1..count' : items'[(head + (i - 1)) % Capacity] = Len(popped) + i
      <4> SUFFICES ASSUME NEW i \in 1..count'
                   PROVE  items'[(head + (i - 1)) % Capacity] = Len(popped) + i
        OBVIOUS
      <4>1. i \in 1..(count + 1) /\ i - 1 \in 0..Capacity /\ count \in 0..Capacity
        BY <1>c, <1>3
      <4>2. (head + (i - 1)) % Capacity \in Slots
        BY <1>c, <4>1, Wrap
      <4>3. CASE i = count + 1
        BY <1>0, <1>3, <1>c, <2>2, <4>2, <4>3 DEF TypeOK
      <4>4. CASE i # count + 1
        <5>1. i \in 1..count /\ i - 1 < count /\ count - (i - 1) < Capacity
          BY <1>c, <1>3, <4>1, <4>4
        <5>2. (head + (i - 1)) % Capacity # tail
          BY <1>0, <1>c, <4>1, <5>1, WrapInjective
        <5>3. items[(head + (i - 1)) % Capacity] = Len(popped) + i
          BY <1>0, <5>1 DEF InOrderOnce, Contents
        <5> QED BY <1>0, <1>3, <4>2, <5>2, <5>3 DEF TypeOK
      <4> QED BY <4>3, <4>4
    <3>2. \A i \in 1..count' : Contents'[i] = Len(popped') + i
      BY <1>3, <1>a, <3>1 DEF Contents
    <3> QED BY <1>0, <1>3, <1>a, <1>c, <2>1, <2>2, <3>2 DEF InOrderOnce
  <2>7. NoLostWakeup'
    BY <1>0, <1>3, <1>a, <2>3 DEF NoLostWakeup
  <2>8. DrainedBeforeExit'
    <3>1. \A w \in Workers : worker'[w] # "done"
      BY <1>0, <1>3 DEF DrainedBeforeExit, SignalNotEmpty, TypeOK
    <3> QED BY <3>1 DEF DrainedBeforeExit
  <2> QED BY <1>3, <1>a, <2>1, <2>4, <2>5, <2>6, <2>7, <2>8 DEF IInv
<1> QED BY <1>1, <1>2, <1>3 DEF Push

\* Pop preserves the invariant.
LEMMA PopIInv == ASSUME IInv, NEW w \in Workers, Pop(w) PROVE IInv'
<1> USE CapacityAssumption, WorkersAssumption, MessagesAssumption
<1>0. TypeOK /\ InOrderOnce /\ NoLostWakeup /\ DrainedBeforeExit
      /\ tail = (head + count) % Capacity /\ (refused # <<>> => shutting_down)
  BY DEF IInv
<1>a. worker[w] = "pop" /\ UNCHANGED <<shutting_down, running, listening, accepted, stopper, refused>>
  BY DEF Pop
<1>c. Len(popped) \in Nat /\ Len(refused) \in Nat /\ count \in Nat /\ count <= Capacity
      /\ head \in Slots /\ accepted \in Nat /\ accepted <= MaxMessages
  BY <1>0 DEF TypeOK
<1>1. CASE /\ count = 0 /\ ~shutting_down
           /\ worker' = [worker EXCEPT ![w] = "wait_not_empty"]
           /\ UNCHANGED <<ring, receiver, popped>>
  <2>1. TypeOK'
    BY <1>0, <1>1, <1>a DEF TypeOK, ring, WorkerPc
  <2>2. InOrderOnce'
    BY <1>0, <1>1, <1>a, OrderKept DEF ring
  <2>3. NoLostWakeup'
    BY <1>0, <1>1, <1>a DEF NoLostWakeup, ring
  <2>4. DrainedBeforeExit'
    BY <1>0, <1>1, <1>a DEF DrainedBeforeExit, ring, TypeOK
  <2> QED BY <1>0, <1>1, <1>a, <2>1, <2>2, <2>3, <2>4 DEF IInv, ring
<1>2. CASE /\ count = 0 /\ shutting_down
           /\ worker' = [worker EXCEPT ![w] = "done"]
           /\ UNCHANGED <<ring, receiver, popped>>
  <2>1. TypeOK'
    BY <1>0, <1>2, <1>a DEF TypeOK, ring, WorkerPc
  <2>2. InOrderOnce'
    BY <1>0, <1>2, <1>a, OrderKept DEF ring
  <2>3. NoLostWakeup'
    BY <1>0, <1>2, <1>a DEF NoLostWakeup, ring, TypeOK
  <2>4. DrainedBeforeExit'
    BY <1>2, <1>a DEF DrainedBeforeExit, ring
  <2> QED BY <1>0, <1>2, <1>a, <2>1, <2>2, <2>3, <2>4 DEF IInv, ring
<1>3. CASE /\ count > 0
           /\ popped' = Append(popped, items[head])
           /\ head' = (head + 1) % Capacity
           /\ count' = count - 1
           /\ SignalNotFull
           /\ worker' = [worker EXCEPT ![w] = "handle"]
           /\ UNCHANGED <<items, tail>>
  <2>1. items[head] = Len(popped) + 1 /\ items[head] \in Message
    <3>1. 1 \in 1..count /\ 1 - 1 = 0 /\ 0 \in 0..Capacity
      BY <1>c, <1>3
    <3>2. (head + 0) % Capacity = head
      <4>1. (head + 0) % Capacity = IF head + 0 < Capacity THEN head + 0 ELSE head + 0 - Capacity
        BY <1>c, <3>1, Wrap
      <4> QED BY <1>c, <4>1 DEF Slots
    <3>3. items[(head + (1 - 1)) % Capacity] = Len(popped) + 1
      BY <1>0, <3>1 DEF InOrderOnce, Contents
    <3>4. Len(popped) + 1 \in Message
      BY <1>0, <1>c, <1>3 DEF InOrderOnce, Message
    <3> QED BY <3>1, <3>2, <3>3, <3>4
  <2>2. Len(popped') = Len(popped) + 1 /\ popped' \in Seq(Message)
        /\ \A i \in 1..Len(popped') : popped'[i] = IF i = Len(popped) + 1 THEN items[head]
                                                   ELSE popped[i]
    BY <1>0, <1>3, <2>1 DEF TypeOK
  <2>3. head' \in Slots /\ count' \in 0..(Capacity - 1) /\ 1 \in 0..Capacity
    BY <1>c, <1>3, Wrap
  <2>4. tail' = (head' + count') % Capacity
    <3>1. (head' + count') % Capacity = (head + (count' + 1)) % Capacity
      BY <1>3, <1>c, <2>3, WrapStep
    <3>2. count' + 1 = count
      BY <1>3, <1>c
    <3> QED BY <1>0, <1>3, <3>1, <3>2
  <2>5. receiver' = IF receiver = "wait_not_full" THEN "push" ELSE receiver
    BY <1>3 DEF SignalNotFull
  <2>6. TypeOK'
    <3>1. worker' \in [Workers -> WorkerPc] /\ receiver' \in ReceiverPc
      BY <1>0, <1>3, <2>5 DEF TypeOK, WorkerPc, ReceiverPc
    <3>2. count' \in 0..Capacity
      BY <2>3
    <3> QED BY <1>0, <1>3, <1>a, <2>2, <2>3, <3>1, <3>2 DEF TypeOK
  <2>7. InOrderOnce'
    <3>1. \A i \in 1..Len(popped') : popped'[i] = i
      <4> SUFFICES ASSUME NEW i \in 1..Len(popped') PROVE popped'[i] = i
        OBVIOUS
      <4>1. i = Len(popped) + 1 \/ i \in 1..Len(popped)
        BY <1>c, <2>2
      <4>2. CASE i = Len(popped) + 1
        BY <2>1, <2>2, <4>2
      <4>3. CASE i \in 1..Len(popped)
        <5>1. popped[i] = i
          BY <1>0, <4>3 DEF InOrderOnce
        <5> QED BY <1>c, <2>2, <4>3, <5>1
      <4> QED BY <4>1, <4>2, <4>3
    <3>2. \A i \in 1..count' : items[(head' + (i - 1)) % Capacity] = Len(popped') + i
      <4> SUFFICES ASSUME NEW i \in 1..count'
                   PROVE  items[(head' + (i - 1)) % Capacity] = Len(popped') + i
        OBVIOUS
      <4>1. i \in Nat /\ i - 1 \in 0..(Capacity - 1) /\ i + 1 \in 1..count
            /\ (i - 1) + 1 = (i + 1) - 1
        BY <1>c, <1>3
      <4>2. (head' + (i - 1)) % Capacity = (head + ((i - 1) + 1)) % Capacity
        BY <1>3, <1>c, <4>1, WrapStep
      <4>3. items[(head + ((i + 1) - 1)) % Capacity] = Len(popped) + (i + 1)
        BY <1>0, <4>1 DEF InOrderOnce, Contents
      <4>4. Len(popped) + (i + 1) = Len(popped') + i
        BY <1>c, <2>2, <4>1
      <4> QED BY <4>1, <4>2, <4>3, <4>4
    <3>3. \A i \in 1..count' : Contents'[i] = Len(popped') + i
      BY <1>3, <3>2 DEF Contents
    <3>4. Len(popped') + count' = Len(popped) + count
      BY <1>c, <1>3, <2>2
    <3>5. receiver' \in {"push", "wait_not_full"} <=> receiver \in {"push", "wait_not_full"}
      BY <2>5
    <3> QED BY <1>0, <1>a, <3>1, <3>3, <3>4, <3>5 DEF InOrderOnce
  <2>8. NoLostWakeup'
    <3>1. worker'[w] = "handle" /\ \A v \in Workers : worker'[v] = "wait_not_empty" => worker[v] = "wait_not_empty"
      BY <1>0, <1>3 DEF TypeOK
    <3>2. receiver' # "wait_not_full"
      BY <2>5
    <3> QED BY <1>0, <1>a, <3>1, <3>2 DEF NoLostWakeup
  <2>9. DrainedBeforeExit'
    <3>1. \A v \in Workers : worker'[v] # "done"
      BY <1>0, <1>3, <1>c DEF DrainedBeforeExit, TypeOK
    <3> QED BY <3>1 DEF DrainedBeforeExit
  <2> QED BY <1>0, <1>a, <2>4, <2>6, <2>7, <2>8, <2>9 DEF IInv
<1> QED BY <1>1, <1>2, <1>3 DEF Pop

\* The steps that leave the ring and the histories alone: where the threads
\* are is all that changes.
LEMMA ThreadStepIInv ==
  ASSUME IInv,
         ReceiverLoop \/ Accept \/ AcceptFails \/ RecvFails \/ SpuriousWakeup \/ StopRunning
         \/ ShutDownQueue \/ ShutDownSocket \/ \E w \in Workers : Handled(w)
  PROVE  IInv'
<1> USE CapacityAssumption, WorkersAssumption, MessagesAssumption
<1>0. TypeOK /\ InOrderOnce /\ NoLostWakeup /\ DrainedBeforeExit
      /\ tail = (head + count) % Capacity /\ (refused # <<>> => shutting_down)
  BY DEF IInv
<1>1. CASE ReceiverLoop
  <2>1. TypeOK'
    BY <1>0, <1>1 DEF TypeOK, ReceiverLoop, ring, ReceiverPc
  <2>2. InOrderOnce'
    BY <1>0, <1>1, OrderKept DEF ReceiverLoop, ring
  <2>3. NoLostWakeup' /\ DrainedBeforeExit'
    BY <1>0, <1>1 DEF NoLostWakeup, DrainedBeforeExit, ReceiverLoop, ring
  <2> QED BY <1>0, <1>1, <2>1, <2>2, <2>3 DEF IInv, ReceiverLoop, ring
<1>2. CASE Accept \/ AcceptFails \/ RecvFails
  <2>0. /\ UNCHANGED <<ring, shutting_down, running, listening, accepted, worker, stopper,
                       popped, refused>>
        /\ receiver \in {"accept", "recv"} /\ receiver' \in {"recv", "loop"}
    BY <1>2 DEF Accept, AcceptFails, RecvFails
  <2>1. TypeOK'
    BY <1>0, <2>0 DEF TypeOK, ring, ReceiverPc
  <2>2. InOrderOnce'
    BY <1>0, <2>0, OrderKept DEF ring
  <2>3. NoLostWakeup' /\ DrainedBeforeExit'
    BY <1>0, <2>0 DEF NoLostWakeup, DrainedBeforeExit, ring
  <2> QED BY <1>0, <2>0, <2>1, <2>2, <2>3 DEF IInv, ring
<1>3. CASE SpuriousWakeup
  <2>0. UNCHANGED <<items, head, tail, count, shutting_down, running, listening, accepted,
                    stopper, popped, refused>>
    BY <1>3 DEF SpuriousWakeup, ring
  <2>1. CASE receiver = "wait_not_full" /\ receiver' = "push" /\ UNCHANGED worker
    <3>1. TypeOK'
      BY <1>0, <2>0, <2>1 DEF TypeOK, ReceiverPc
    <3>2. InOrderOnce'
      BY <1>0, <2>0, <2>1, OrderKept
    <3>3. NoLostWakeup' /\ DrainedBeforeExit'
      BY <1>0, <2>0, <2>1 DEF NoLostWakeup, DrainedBeforeExit
    <3> QED BY <1>0, <2>0, <3>1, <3>2, <3>3 DEF IInv
  <2>2. ASSUME NEW w \in Workers, worker[w] = "wait_not_empty",
               worker' = [worker EXCEPT ![w] = "pop"], UNCHANGED receiver
        PROVE  IInv'
    <3>1. TypeOK'
      BY <1>0, <2>0, <2>2 DEF TypeOK, WorkerPc
    <3>2. InOrderOnce'
      BY <1>0, <2>0, <2>2, OrderKept
    <3>3. worker'[w] = "pop" /\ \A v \in Workers : worker'[v] = worker[v] \/ worker'[v] = "pop"
      BY <1>0, <2>2 DEF TypeOK
    <3>4. NoLostWakeup' /\ DrainedBeforeExit'
      BY <1>0, <2>0, <2>2, <3>3 DEF NoLostWakeup, DrainedBeforeExit
    <3> QED BY <1>0, <2>0, <3>1, <3>2, <3>4 DEF IInv
  <2> QED BY <1>3, <2>1, <2>2 DEF SpuriousWakeup
<1>4. CASE StopRunning
  <2>1. TypeOK'
    BY <1>0, <1>4 DEF TypeOK, StopRunning, ring, StopperPc
  <2>2. InOrderOnce'
    BY <1>0, <1>4, OrderKept DEF StopRunning, ring
  <2>3. NoLostWakeup' /\ DrainedBeforeExit'
    BY <1>0, <1>4 DEF NoLostWakeup, DrainedBeforeExit, StopRunning, ring
  <2> QED BY <1>0, <1>4, <2>1, <2>2, <2>3 DEF IInv, StopRunning, ring
<1>5. CASE ShutDownQueue
  <2>0. UNCHANGED <<items, head, tail, count, running, listening, accepted, popped, refused>>
        /\ shutting_down' = TRUE /\ stopper' = "socket"
        /\ receiver' = IF receiver = "wait_not_full" THEN "push" ELSE receiver
    BY <1>5 DEF ShutDownQueue, ring
  <2>1. worker' \in [Workers -> WorkerPc]
        /\ \A v \in Workers : /\ worker'[v] # "wait_not_empty"
                              /\ worker'[v] = "done" => worker[v] = "done"
    BY <1>0, <1>5 DEF ShutDownQueue, TypeOK, WorkerPc
  <2>2. TypeOK'
    BY <1>0, <2>0, <2>1 DEF TypeOK, ReceiverPc, StopperPc
  <2>3. InOrderOnce'
    BY <1>0, <2>0, OrderKept
  <2>4. NoLostWakeup' /\ DrainedBeforeExit'
    BY <1>0, <2>0, <2>1 DEF NoLostWakeup, DrainedBeforeExit
  <2> QED BY <1>0, <2>0, <2>2, <2>3, <2>4 DEF IInv
<1>6. CASE ShutDownSocket
  <2>1. TypeOK'
    BY <1>0, <1>6 DEF TypeOK, ShutDownSocket, ring, StopperPc
  <2>2. InOrderOnce'
    BY <1>0, <1>6, OrderKept DEF ShutDownSocket, ring
  <2>3. NoLostWakeup' /\ DrainedBeforeExit'
    BY <1>0, <1>6 DEF NoLostWakeup, DrainedBeforeExit, ShutDownSocket, ring
  <2> QED BY <1>0, <1>6, <2>1, <2>2, <2>3 DEF IInv, ShutDownSocket, ring
<1>7. ASSUME NEW w \in Workers, Handled(w) PROVE IInv'
  <2>1. TypeOK'
    BY <1>0, <1>7 DEF TypeOK, Handled, ring, WorkerPc
  <2>2. InOrderOnce'
    BY <1>0, <1>7, OrderKept DEF Handled, ring
  <2>3. worker'[w] = "pop" /\ \A v \in Workers : worker'[v] = worker[v] \/ worker'[v] = "pop"
    BY <1>0, <1>7 DEF TypeOK, Handled
  <2>4. NoLostWakeup' /\ DrainedBeforeExit'
    BY <1>0, <1>7, <2>3 DEF NoLostWakeup, DrainedBeforeExit, Handled, ring
  <2> QED BY <1>0, <1>7, <2>1, <2>2, <2>4 DEF IInv, Handled, ring
<1> QED BY <1>1, <1>2, <1>3, <1>4, <1>5, <1>6, <1>7

\* Receive preserves the invariant: the new message is the one held.
LEMMA ReceiveIInv == ASSUME IInv, Receive PROVE IInv'
<1> USE CapacityAssumption, WorkersAssumption, MessagesAssumption
<1>0. TypeOK /\ InOrderOnce /\ NoLostWakeup /\ DrainedBeforeExit
      /\ tail = (head + count) % Capacity /\ (refused # <<>> => shutting_down)
  BY DEF IInv
<1>1. TypeOK'
  BY <1>0 DEF TypeOK, Receive, ring, ReceiverPc
<1>2. InOrderOnce'
  <2>1. Len(popped) \in Nat /\ Len(refused) \in Nat /\ count \in Nat
    BY <1>0 DEF TypeOK
  <2>2. receiver = "recv" /\ receiver' = "push" /\ accepted' = accepted + 1
        /\ UNCHANGED <<items, head, count, popped, refused>>
    BY DEF Receive, ring
  <2> QED BY <1>0, <2>1, <2>2 DEF InOrderOnce, Contents
<1>3. NoLostWakeup' /\ DrainedBeforeExit'
  BY <1>0 DEF NoLostWakeup, DrainedBeforeExit, Receive, ring
<1> QED BY <1>0, <1>1, <1>2, <1>3 DEF IInv, Receive, ring

\* The invariant holds in every reachable state: node_queue.c keeps its ring
\* in order, loses no wake-up and drains on shutdown, for every capacity,
\* every pool of workers and every number of messages.
THEOREM QueueInvariant == Spec => []IInv
<1>1. Init => IInv
  BY InitIInv
<1>2. IInv /\ [Next]_vars => IInv'
  <2> SUFFICES ASSUME IInv, [Next]_vars PROVE IInv'
    OBVIOUS
  <2>1. CASE UNCHANGED vars
    BY <2>1 DEF vars, IInv, TypeOK, InOrderOnce, Contents, NoLostWakeup, DrainedBeforeExit
  <2>2. CASE Next
    BY <2>2, PushIInv, PopIInv, ThreadStepIInv, ReceiveIInv
       DEF Next, ReceiverStep, PeerStep, StopStep, WorkerStep
  <2> QED BY <2>1, <2>2
<1> QED BY <1>1, <1>2, PTL DEF Spec

\* Every message the receiver takes leaves the queue once and in order.
THEOREM QueueInOrder == Spec => []InOrderOnce
<1>1. IInv => InOrderOnce
  BY DEF IInv
<1> QED BY <1>1, QueueInvariant, PTL

\* No thread of the node sleeps through the signal that was meant for it.
THEOREM QueueNoLostWakeup == Spec => []NoLostWakeup
<1>1. IInv => NoLostWakeup
  BY DEF IInv
<1> QED BY <1>1, QueueInvariant, PTL

\* No worker leaves a message behind when the node is stopped.
THEOREM QueueDrained == Spec => []DrainedBeforeExit
<1>1. IInv => DrainedBeforeExit
  BY DEF IInv
<1> QED BY <1>1, QueueInvariant, PTL

-----------------------------------------------------------------------------
(* The ring implements the abstract queue.                                 *)

\* Two sequences of messages with the same elements are the same.
LEMMA SameSequence ==
  ASSUME NEW s \in Seq(Message), NEW t \in Seq(Message), Len(s) = Len(t),
         \A i \in 1..Len(s) : s[i] = t[i]
  PROVE  s = t
OBVIOUS

\* The ring's contents are a sequence of count messages.
LEMMA ContentsSeq ==
  ASSUME IInv
  PROVE  Contents \in Seq(Message) /\ Len(Contents) = count
<1>1. count \in Nat /\ Len(popped) \in Nat /\ accepted <= MaxMessages /\ accepted \in Nat
      /\ Len(refused) \in Nat /\ MaxMessages \in Nat
  BY MessagesAssumption DEF IInv, TypeOK
<1>2. Len(popped) + count <= MaxMessages
  BY <1>1 DEF IInv, InOrderOnce
<1>3. \A i \in 1..count : items[(head + (i - 1)) % Capacity] = Len(popped) + i
  BY DEF IInv, InOrderOnce, Contents
<1>4. \A i \in 1..count : items[(head + (i - 1)) % Capacity] \in Message
  BY <1>1, <1>2, <1>3 DEF Message
<1> QED BY <1>1, <1>4 DEF Contents

\* A step that keeps the ring is no step of the abstract queue, apart from
\* the shutdown itself.
LEMMA RingKept ==
  ASSUME UNCHANGED <<items, head, count>> PROVE Contents' = Contents
BY DEF Contents

\* node_queue.c with the threads of a node implements the queue that
\* node_queue.h describes: bounded, first in first out, drained on shutdown.
THEOREM QueueImplementsFifo == Spec => ImplementsFifo
<1> USE CapacityAssumption, WorkersAssumption, MessagesAssumption
<1>1. Init => F!Init
  <2> SUFFICES ASSUME Init PROVE F!Init
    OBVIOUS
  <2>1. count = 0 /\ popped = <<>> /\ shutting_down = FALSE
    BY DEF Init
  <2>2. Contents = <<>>
    BY <2>1 DEF Contents
  <2> QED BY <2>1, <2>2 DEF F!Init
<1>2. IInv /\ IInv' /\ [Next]_vars => [F!Next]_F!fifoVars
  <2> SUFFICES ASSUME IInv, IInv', [Next]_vars PROVE [F!Next]_F!fifoVars
    OBVIOUS
  <2>0. Contents \in Seq(Message) /\ Len(Contents) = count
    BY ContentsSeq
  <2>00. Contents' \in Seq(Message) /\ Len(Contents') = count'
    <3>1. IInv' => (Contents \in Seq(Message) /\ Len(Contents) = count)'
      BY ContentsSeq, PTL
    <3> QED BY <3>1
  <2>a. count \in Nat /\ Len(popped) \in Nat /\ Len(refused) \in Nat /\ accepted \in Nat
        /\ count <= Capacity /\ accepted <= MaxMessages
    BY DEF IInv, TypeOK
  <2>b. \A i \in 1..count : Contents[i] = Len(popped) + i
    BY DEF IInv, InOrderOnce
  <2>c. \A i \in 1..count' : Contents'[i] = Len(popped') + i
    BY DEF IInv, InOrderOnce
  <2>1. ASSUME UNCHANGED <<items, head, count, popped, shutting_down>>
        PROVE  UNCHANGED F!fifoVars
    BY <2>1, RingKept DEF F!fifoVars
  <2>2. CASE UNCHANGED vars
    BY <2>1, <2>2 DEF vars
  <2>3. CASE \/ ReceiverLoop \/ Accept \/ AcceptFails \/ Receive \/ RecvFails
             \/ SpuriousWakeup \/ StopRunning \/ ShutDownSocket
    BY <2>1, <2>3 DEF ReceiverLoop, Accept, AcceptFails, Receive, RecvFails, SpuriousWakeup,
                      StopRunning, ShutDownSocket, ring
  <2>4. CASE \E w \in Workers : Handled(w)
    BY <2>1, <2>4 DEF Handled, ring
  <2>5. CASE ShutDownQueue
    <3>1. Contents' = Contents /\ popped' = popped /\ shutting_down' = TRUE
      BY <2>5, RingKept DEF ShutDownQueue, ring
    <3>2. CASE shutting_down = FALSE
      BY <3>1, <3>2 DEF F!Next, F!Close
    <3>3. CASE shutting_down = TRUE
      BY <3>1, <3>3 DEF F!fifoVars
    <3>4. shutting_down \in BOOLEAN
      BY DEF IInv, TypeOK
    <3> QED BY <3>2, <3>3, <3>4
  <2>6. CASE Push
    <3>1. popped' = popped /\ shutting_down' = shutting_down /\ receiver = "push"
      BY <2>6 DEF Push
    <3>2. CASE UNCHANGED ring
      BY <2>1, <3>1, <3>2 DEF ring
    <3>3. CASE count < Capacity /\ ~shutting_down /\ count' = count + 1 /\ UNCHANGED refused
      <4>1. refused = <<>> /\ Len(refused) = 0
        BY <3>3 DEF IInv
      <4>2. accepted = Len(popped) + count + 1 /\ accepted \in Message
        BY <2>a, <3>1, <4>1 DEF IInv, InOrderOnce, Message
      <4>3. Append(Contents, accepted) \in Seq(Message)
            /\ Len(Append(Contents, accepted)) = count + 1
            /\ \A i \in 1..(count + 1) :
                 Append(Contents, accepted)[i] = IF i = count + 1 THEN accepted ELSE Contents[i]
        BY <2>0, <4>2
      <4>4. \A i \in 1..(count + 1) : Append(Contents, accepted)[i] = Len(popped) + i
        BY <2>a, <2>b, <4>2, <4>3
      <4>5. \A i \in 1..Len(Contents') : Contents'[i] = Append(Contents, accepted)[i]
        BY <2>00, <2>c, <3>1, <3>3, <4>4
      <4>6. Contents' = Append(Contents, accepted)
        BY <2>00, <3>3, <4>3, <4>5, SameSequence
      <4>7. shutting_down = FALSE /\ shutting_down' = FALSE
        BY <3>1, <3>3 DEF IInv, TypeOK
      <4> QED BY <2>0, <3>1, <3>3, <4>2, <4>6, <4>7 DEF F!Next, F!Put
    <3> QED BY <2>6, <3>2, <3>3 DEF Push, ring
  <2>7. ASSUME NEW w \in Workers, Pop(w) PROVE [F!Next]_F!fifoVars
    <3>1. shutting_down' = shutting_down
      BY <2>7 DEF Pop
    <3>2. CASE UNCHANGED <<ring, popped>>
      BY <2>1, <3>1, <3>2 DEF ring
    <3>3. CASE count > 0 /\ popped' = Append(popped, items[head]) /\ count' = count - 1
      <4>0. Contents # <<>>
        BY <2>0, <3>3
      <4>1. Head(Contents) = Len(popped) + 1
        <5>1. 1 \in 1..count
          BY <2>a, <3>3
        <5> QED BY <2>0, <2>b, <4>0, <5>1
      <4>2. items[head] = Len(popped) + 1 /\ Len(popped') = Len(popped) + 1
        <5>1. 1 \in 1..count /\ 1 - 1 = 0 /\ head \in Slots /\ 0 \in 0..Capacity
          BY <2>a, <3>3 DEF IInv, TypeOK
        <5>2. (head + 0) % Capacity = IF head + 0 < Capacity THEN head + 0 ELSE head + 0 - Capacity
          BY <5>1, Wrap
        <5>3. (head + (1 - 1)) % Capacity = head
          BY <5>1, <5>2 DEF Slots
        <5>4. Contents[1] = items[(head + (1 - 1)) % Capacity]
          BY <5>1 DEF Contents
        <5>5. popped \in Seq(Message)
          BY DEF IInv, TypeOK
        <5> QED BY <2>b, <3>3, <5>1, <5>3, <5>4, <5>5
      <4>3. Tail(Contents) \in Seq(Message) /\ Len(Tail(Contents)) = count - 1
            /\ \A i \in 1..(count - 1) : Tail(Contents)[i] = Contents[i + 1]
        BY <2>0, <4>0
      <4>4. \A i \in 1..(count - 1) : Tail(Contents)[i] = Len(popped) + 1 + i
        BY <2>a, <2>b, <4>3
      <4>5. \A i \in 1..Len(Contents') : Contents'[i] = Tail(Contents)[i]
        BY <2>00, <2>a, <2>c, <3>3, <4>2, <4>4
      <4>6. Contents' = Tail(Contents)
        BY <2>00, <3>3, <4>3, <4>5, SameSequence
      <4> QED BY <3>1, <3>3, <4>0, <4>1, <4>2, <4>6 DEF F!Next, F!Take
    <3> QED BY <2>7, <3>2, <3>3 DEF Pop
  <2> QED BY <2>2, <2>3, <2>4, <2>5, <2>6, <2>7
      DEF Next, ReceiverStep, PeerStep, StopStep, WorkerStep
<1> QED BY <1>1, <1>2, QueueInvariant, PTL DEF Spec, F!Spec, ImplementsFifo
=============================================================================
