---------------------------- MODULE ClientProofs ----------------------------
(***************************************************************************)
(* Proofs about Client, for any number of clients and miners, any backlog, *)
(* mempool and limit of discovered miners, and whoever is killed.          *)
(***************************************************************************)
EXTENDS Client, FiniteSetTheorems, SequenceTheorems, TLAPS

-----------------------------------------------------------------------------
(* Positions in the list of miners.                                        *)

\* The attempts of a submission wrap around at most once.
LEMMA Wrap ==
  ASSUME NEW n \in Nat \ {0}, NEW h \in 0..(n - 1), NEW k \in 0..n
  PROVE  (h + k) % n = IF h + k < n THEN h + k ELSE h + k - n
<1>1. CASE h + k < n
  <2>1. h + k \in Nat
    OBVIOUS
  <2>2. (h + k) % n = h + k
    BY <1>1, <2>1
  <2> QED BY <1>1, <2>2
<1>2. CASE ~(h + k < n)
  <2>1. h + k \in Nat /\ n <= h + k /\ h + k < 2 * n
    BY <1>2
  <2>2. (h + k) % n = h + k - n
    BY <2>1
  <2> QED BY <1>2, <2>2
<1> QED BY <1>1, <1>2

\* n attempts that start at h try all n positions.
LEMMA EveryPositionTried ==
  ASSUME NEW n \in Nat \ {0}, NEW h \in 0..(n - 1), NEW p \in 0..(n - 1)
  PROVE  \E k \in 0..(n - 1) : (h + k) % n = p
<1>1. CASE h <= p
  <2>1. p - h \in 0..(n - 1) /\ p - h \in 0..n
    BY <1>1
  <2>2. (h + (p - h)) % n = p
    BY <2>1, Wrap
  <2> QED BY <2>1, <2>2
<1>2. CASE p < h
  <2>1. (p - h) + n \in 0..(n - 1) /\ (p - h) + n \in 0..n
    BY <1>2
  <2>2. (h + ((p - h) + n)) % n = p
    BY <2>1, Wrap
  <2> QED BY <2>1, <2>2
<1> QED BY <1>1, <1>2

\* The position before the one a search starts at is the last it comes to.
LEMMA LastPosition ==
  ASSUME NEW n \in Nat \ {0}, NEW p \in 0..(n - 1), NEW k \in 0..(n - 1),
         ((((p + 1) % n) + k) % n) = p
  PROVE  k = n - 1
<1>0. 1 \in 0..n /\ k \in 0..n
  OBVIOUS
<1>1. (p + 1) % n = IF p + 1 < n THEN p + 1 ELSE p + 1 - n
  BY <1>0, Wrap
<1>2. (p + 1) % n \in 0..(n - 1)
  BY <1>1
<1> DEFINE h == (p + 1) % n
<1> HIDE DEF h
<1>3. (h + k) % n = IF h + k < n THEN h + k ELSE h + k - n
  <2>1. h \in 0..(n - 1)
    BY <1>2 DEF h
  <2> QED BY <1>0, <2>1, Wrap
<1>4. h = IF p + 1 < n THEN p + 1 ELSE p + 1 - n
  BY <1>1 DEF h
<1>5. (h + k) % n = p
  BY DEF h
<1> QED BY <1>3, <1>4, <1>5

-----------------------------------------------------------------------------
(* The backlog of a miner.                                                 *)

LEMMA RangeOfAppend ==
  ASSUME NEW S, NEW q \in Seq(S), NEW c \in S
  PROVE  Range(Append(q, c)) = Range(q) \cup {c}
<1>1. /\ Len(Append(q, c)) = Len(q) + 1
      /\ \A i \in 1..Len(q) : Append(q, c)[i] = q[i]
      /\ Append(q, c)[Len(q) + 1] = c
      /\ DOMAIN Append(q, c) = 1..Len(q) + 1 /\ DOMAIN q = 1..Len(q) /\ Len(q) \in Nat
  BY AppendProperties
<1> QED BY <1>1 DEF Range

LEMMA RangeOfTail ==
  ASSUME NEW S, NEW q \in Seq(S), q # <<>>,
         \A i, j \in 1..Len(q) : q[i] = q[j] => i = j
  PROVE  /\ Range(q) = Range(Tail(q)) \cup {Head(q)} /\ Head(q) \notin Range(Tail(q))
         /\ Head(q) \in S /\ Tail(q) \in Seq(S)
         /\ \A i, j \in 1..Len(Tail(q)) : Tail(q)[i] = Tail(q)[j] => i = j
<1>1. /\ Len(q) \in Nat /\ Len(q) >= 1
      /\ Head(q) = q[1] /\ Head(q) \in S /\ Tail(q) \in Seq(S) /\ Len(Tail(q)) = Len(q) - 1
      /\ \A i \in 1..(Len(q) - 1) : Tail(q)[i] = q[i + 1]
      /\ DOMAIN Tail(q) = 1..(Len(q) - 1) /\ DOMAIN q = 1..Len(q)
  OBVIOUS
<1>2. Range(q) = Range(Tail(q)) \cup {Head(q)}
  <2>1. ASSUME NEW i \in 1..Len(q) PROVE q[i] \in Range(Tail(q)) \cup {Head(q)}
    <3>1. CASE i = 1
      BY <1>1, <3>1
    <3>2. CASE i # 1
      <4>1. i - 1 \in 1..(Len(q) - 1) /\ Tail(q)[i - 1] = q[i]
        BY <1>1, <3>2
      <4>2. Tail(q)[i - 1] \in Range(Tail(q))
        BY <1>1, <4>1 DEF Range
      <4> QED BY <4>1, <4>2
    <3> QED BY <3>1, <3>2
  <2>2. ASSUME NEW i \in 1..(Len(q) - 1) PROVE Tail(q)[i] \in Range(q)
    BY <1>1 DEF Range
  <2>3. Head(q) \in Range(q)
    BY <1>1 DEF Range
  <2> QED BY <1>1, <2>1, <2>2, <2>3 DEF Range
<1>3. Head(q) \notin Range(Tail(q))
  BY <1>1 DEF Range
<1>4. \A i, j \in 1..Len(Tail(q)) : Tail(q)[i] = Tail(q)[j] => i = j
  BY <1>1
<1> QED BY <1>1, <1>2, <1>3, <1>4

-----------------------------------------------------------------------------
(* What a step leaves alone.                                               *)

Says(m, c) == miner[m] = [pc |-> "reply", client |-> c, answer |-> "OK"]

\* A client that has no part in a step: its own state and its connection
\* stay as they are, and no miner comes to serve it.
Bystander(c) ==
  /\ client'[c] = client[c] /\ next_miner'[c] = next_miner[c] /\ made'[c] = made[c]
  /\ conn'[c] = conn[c] /\ outcome'[c] = outcome[c] /\ served'[c] = served[c]
  /\ steady'[c] \subseteq steady[c]
  /\ c \in shutdown => c \in shutdown'
  /\ \A m \in Miners :
       /\ c \in Unanswered(m)' => c \in Unanswered(m)
       /\ miner'[m].pc = "reply" /\ miner'[m].client = c =>
            miner[m].pc = "reply" /\ miner[m].client = c
       /\ miner[m].pc = "killed" => miner'[m].pc = "killed"
       /\ Listening(m) => Listening(m)' \/ m \notin steady'[c]
       /\ \A tx \in taken'[m] : tx[1] = c => tx \in taken[m]
       /\ <<c, made[c]>> \in taken[m] =>
            <<c, made[c]>> \in taken'[m] \/ miner'[m].pc = "killed"
       /\ Says(m, c)' => Says(m, c)
       /\ Says(m, c) => Says(m, c)' \/ taken'[m] = {}

\* Nothing that a client relies on changes when it has no part in the step.
LEMMA BystanderInv ==
  ASSUME TypeOK, NEW c \in Clients, ClientInv(c), Bystander(c)
  PROVE  ClientInv(c)'
<1> USE DEF ClientInv, Bystander
<1>1. MinerId(c)' = MinerId(c) /\ (Submitting(c)' <=> Submitting(c))
  BY DEF MinerId, Position, Submitting
<1>2. WaitsForMiner(c)'
  BY <1>1 DEF WaitsForMiner
<1>3. ConnectionOf(c)'
  BY <1>1 DEF ConnectionOf, NoConn
<1>4. TakenOf(c)'
  <2>1. \A m \in Miners : \A tx \in taken'[m] : tx[1] = c =>
          /\ tx[2] <= made'[c]
          /\ \A n \in Miners : tx \in taken'[n] => n = m
    BY DEF TakenOf
  <2>2. ASSUME NEW m \in Miners, <<c, made[c]>> \in taken'[m]
        PROVE  \/ Says(m, c)'
               \/ /\ \A n \in Miners : c \notin Unanswered(n)'
                  /\ \/ client'[c].pc = "killed"
                     \/ client'[c].pc = "await" /\ conn'[c].answer = "OK"
                     \/ client'[c].pc \in {"idle", "done"} /\ outcome'[c] = "accepted"
    <3>1. <<c, made[c]>> \in taken[m]
      BY <2>2
    <3>2. CASE Says(m, c)
      BY <2>2, <3>2
    <3>3. CASE ~Says(m, c)
      BY <3>1, <3>3 DEF TakenOf, Says
    <3> QED BY <3>2, <3>3
  <2>3. ASSUME NEW m \in Miners, Says(m, c)'
        PROVE  <<c, made[c]>> \in taken'[m]
    <3>1. Says(m, c) /\ <<c, made[c]>> \in taken[m]
      BY <2>3 DEF TakenOf, Says
    <3>2. miner'[m].pc # "killed"
      BY <2>3 DEF Says
    <3> QED BY <3>1, <3>2
  <2>4. \/ client[c].pc = "await" /\ conn[c].answer = "OK"
        \/ client[c].pc \in {"idle", "done"} /\ outcome[c] = "accepted"
        => \E m \in Miners : <<c, made[c]>> \in taken'[m] \/ miner'[m].pc = "killed"
    BY DEF TakenOf
  <2> QED BY <2>1, <2>2, <2>3, <2>4 DEF TakenOf, Says
<1>5. SearchOf(c)'
  <2>1. \A m \in steady'[c] : Listening(m)'
    BY DEF SearchOf, TypeOK
  <2>2. client'[c].pc = "idle" /\ outcome'[c] = "unavailable" /\ c \notin shutdown' =>
          steady'[c] = {}
    BY DEF SearchOf
  <2> QED BY <1>1, <2>1, <2>2 DEF SearchOf
<1>6. RobinOf(c)'
  BY <1>1 DEF RobinOf
<1> QED BY <1>2, <1>3, <1>4, <1>5, <1>6

\* The records of clients and miners.
LEMMA SubmittingState ==
  ASSUME TypeOK, NEW c \in Clients, Submitting(c)
  PROVE  client[c] \in [pc : {"connect", "write", "await"}, ids : Seq(Miners),
                        attempt : Nat, start : Nat]
<1>1. client[c] \in ClientState
  BY DEF TypeOK
<1>2. client[c].pc \notin {"idle", "done", "killed"}
  BY DEF Submitting
<1> QED BY <1>1, <1>2 DEF ClientState

LEMMA MinerIdType ==
  ASSUME TypeOK, NEW c \in Clients, Submitting(c), SearchOf(c)
  PROVE  /\ Len(client[c].ids) \in Nat \ {0} /\ client[c].ids \in Seq(Miners)
         /\ client[c].start \in 0..(Len(client[c].ids) - 1)
         /\ client[c].attempt \in 0..(Len(client[c].ids) - 1)
         /\ Position(c) \in 0..(Len(client[c].ids) - 1)
         /\ MinerId(c) \in Miners
<1>1. /\ client[c].ids \in Seq(Miners) /\ client[c].attempt \in Nat
      /\ client[c].start \in Nat /\ Len(client[c].ids) \in Nat
  BY SubmittingState
<1>2. client[c].start < Len(client[c].ids) /\ client[c].attempt < Len(client[c].ids)
  BY DEF SearchOf
<1> DEFINE n == Len(client[c].ids)
<1>3. /\ n \in Nat \ {0} /\ client[c].start \in 0..(n - 1)
      /\ client[c].attempt \in 0..(n - 1) /\ client[c].attempt \in 0..n
  BY <1>1, <1>2
<1> HIDE DEF n
<1>4. (client[c].start + client[c].attempt) % n \in 0..(n - 1)
  BY <1>3, Wrap
<1>5. Position(c) \in 0..(n - 1)
  BY <1>4 DEF Position, n
<1>6. Position(c) + 1 \in 1..n
  BY <1>3, <1>5
<1>7. MinerId(c) \in Miners
  BY <1>1, <1>6 DEF MinerId, n
<1> QED BY <1>1, <1>3, <1>5, <1>7 DEF n

\* A step of client c in which no miner has a part: the other clients see
\* nothing of it.
LEMMA OtherClients ==
  ASSUME IInv, NEW c \in Clients, UNCHANGED <<miner, taken>>,
         \A m \in Miners : \A d \in Clients \ {c} : d \in Unanswered(m)' => d \in Unanswered(m),
         \A d \in Clients \ {c} :
           /\ client'[d] = client[d] /\ next_miner'[d] = next_miner[d] /\ made'[d] = made[d]
           /\ conn'[d] = conn[d] /\ outcome'[d] = outcome[d] /\ served'[d] = served[d]
           /\ steady'[d] = steady[d],
         shutdown \subseteq shutdown',
         NEW d \in Clients \ {c}
  PROVE  ClientInv(d)'
<1>1. TypeOK /\ ClientInv(d)
  BY DEF IInv
<1>2. \A m \in Miners : (Listening(m)' <=> Listening(m)) /\ (Says(m, d)' <=> Says(m, d))
  BY DEF Listening, Says
<1>3. Bystander(d)
  BY <1>2 DEF Bystander
<1> QED BY <1>1, <1>3, BystanderInv

\* With the backlogs and the threads the places of the connections stay.
LEMMA SamePlaces ==
  ASSUME UNCHANGED <<miner, backlog>>
  PROVE  /\ \A m \in Miners : Unanswered(m)' = Unanswered(m) /\ (Listening(m)' <=> Listening(m))
         /\ OnePlace => OnePlace'
  BY DEF Unanswered, Listening, OnePlace

\* A client that has no connection waits for nobody, and its transaction is
\* with nobody.
LEMMA NotConnected ==
  ASSUME IInv, NEW c \in Clients,
         client[c].pc \in {"idle", "connect", "done"} \/ conn[c].answer # "none"
  PROVE  \A m \in Miners : c \notin Unanswered(m) /\ ~Says(m, c)
<1>1. WaitsForMiner(c)
  BY DEF IInv, ClientInv
<1>2. ASSUME NEW m \in Miners PROVE c \notin Unanswered(m)
  BY <1>1 DEF WaitsForMiner
<1>3. ASSUME NEW m \in Miners, Says(m, c) PROVE FALSE
  <2>1. c \in Unanswered(m)
    BY <1>3 DEF Says, Unanswered
  <2> QED BY <1>2, <2>1
<1> QED BY <1>2, <1>3

LEMMA NotTaken ==
  ASSUME IInv, NEW c \in Clients,
         \/ client[c].pc \in {"connect", "write"}
         \/ client[c].pc = "await" /\ conn[c].answer \in {"eof", "ERR"}
         \/ client[c].pc \in {"idle", "done"} /\ outcome[c] # "accepted"
  PROVE  \A m \in Miners : <<c, made[c]>> \notin taken[m]
<1> SUFFICES ASSUME NEW m \in Miners, <<c, made[c]>> \in taken[m] PROVE FALSE
  OBVIOUS
<1>1. ClientInv(c)
  BY DEF IInv
<1>2. Says(m, c)
  BY <1>1 DEF ClientInv, TakenOf, Says
<1>3. c \in Unanswered(m) /\ miner[m].pc = "reply" /\ miner[m].client = c
  BY <1>2 DEF Says, Unanswered
<1>4. conn[c].written /\ client[c].pc \in {"write", "await", "killed"} /\ conn[c].answer = "none"
  BY <1>1, <1>3 DEF ClientInv, WaitsForMiner
<1> QED BY <1>1, <1>4 DEF ClientInv, ConnectionOf

-----------------------------------------------------------------------------
(* The steps of a client.                                                  *)

LEMMA NextRecord ==
  ASSUME NEW s \in [pc : {"connect", "write", "await"}, ids : Seq(Miners),
                    attempt : Nat, start : Nat],
         NEW r, r = [s EXCEPT !.pc = "connect", !.attempt = @ + 1]
  PROVE  /\ r.pc = "connect" /\ r.attempt = s.attempt + 1
         /\ r.ids = s.ids /\ r.start = s.start
         /\ r \in [pc : {"connect", "write", "await"}, ids : Seq(Miners),
                   attempt : Nat, start : Nat]
<1>1. s.attempt \in Nat /\ s.start \in Nat /\ s.ids \in Seq(Miners)
  OBVIOUS
<1>2. DOMAIN s = {"pc", "ids", "attempt", "start"}
  OBVIOUS
<1>3. r.pc = "connect" /\ r.ids = s.ids /\ r.start = s.start
  BY <1>2
<1>4. r.attempt = s.attempt + 1
  BY <1>2
<1>5. r = [pc |-> "connect", ids |-> s.ids, attempt |-> s.attempt + 1, start |-> s.start]
  BY <1>2, <1>4
<1> QED BY <1>1, <1>3, <1>4, <1>5

\* To go on with the next miner, or to give up after the last, is right when
\* this one cannot have taken the transaction and has not listened all the
\* time, unless a signal has cut the search short.
LEMMA NextAttemptInv ==
  ASSUME IInv, NEW c \in Clients, NextAttempt(c),
         client[c].pc = "connect" \/ (client[c].pc = "await" /\ conn[c].answer = "eof"),
         MinerId(c) \notin steady[c] \/ c \in shutdown',
         shutdown \subseteq shutdown',
         UNCHANGED <<miner, backlog, taken, made, steady>>
  PROVE  IInv'
<1> DEFINE n == Len(client[c].ids)
<1> DEFINE r == [client[c] EXCEPT !.pc = "connect", !.attempt = @ + 1]
<1>0. TypeOK /\ OnePlace /\ ClientInv(c) /\ Submitting(c)
  BY DEF IInv, Submitting
<1>1. /\ n \in Nat \ {0} /\ client[c].ids \in Seq(Miners)
      /\ client[c].start \in 0..(n - 1) /\ client[c].attempt \in 0..(n - 1)
      /\ MinerId(c) \in Miners
  BY <1>0, MinerIdType DEF ClientInv
<1>2. client[c] \in [pc : {"connect", "write", "await"}, ids : Seq(Miners),
                     attempt : Nat, start : Nat]
  BY <1>0, SubmittingState
<1>3. \A m \in Miners : c \notin Unanswered(m) /\ ~Says(m, c)
  BY NotConnected
<1>4. \A m \in Miners : <<c, made[c]>> \notin taken[m]
  BY NotTaken
<1>5. OnePlace' /\ \A m \in Miners : Unanswered(m)' = Unanswered(m)
                                    /\ (Listening(m)' <=> Listening(m))
  BY <1>0, SamePlaces
<1>6. \A m \in Miners : ~Says(m, c)'
  BY <1>3 DEF Says
<1>7. conn'[c] = NoConn
  BY <1>0 DEF NextAttempt, TypeOK
<1>8. \A d \in Clients \ {c} :
        /\ client'[d] = client[d] /\ next_miner'[d] = next_miner[d] /\ made'[d] = made[d]
        /\ conn'[d] = conn[d] /\ outcome'[d] = outcome[d] /\ served'[d] = served[d]
        /\ steady'[d] = steady[d]
  BY <1>0 DEF NextAttempt, SetClient, TypeOK
<1>9. \A d \in Clients \ {c} : ClientInv(d)'
  BY <1>5, <1>8, OtherClients
<1>10. conn' \in [Clients -> [written : BOOLEAN, answer : {"none", "eof", "OK", "ERR"}]]
  BY <1>0 DEF NextAttempt, NoConn, TypeOK
<1>11. CASE client[c].attempt + 1 < n
  <2>1. /\ r.pc = "connect" /\ r.attempt = client[c].attempt + 1
        /\ r.ids = client[c].ids /\ r.start = client[c].start
        /\ r \in [pc : {"connect", "write", "await"}, ids : Seq(Miners),
                  attempt : Nat, start : Nat]
    BY <1>2, NextRecord
  <2>2. client' = [client EXCEPT ![c] = r] /\ UNCHANGED <<next_miner, outcome, served>>
    BY <1>11 DEF NextAttempt, SetClient
  <2> HIDE DEF r
  <2>3. client'[c] = r
    BY <1>0, <2>2 DEF TypeOK
  <2>4. TypeOK'
    BY <1>0, <1>10, <2>1, <2>2 DEF TypeOK, ClientState
  <2>5. WaitsForMiner(c)' /\ ConnectionOf(c)'
    BY <1>3, <1>5, <1>7, <2>1, <2>3 DEF WaitsForMiner, ConnectionOf, NoConn
  <2>6. TakenOf(c)'
    BY <1>0, <1>4, <1>6, <2>1, <2>3 DEF ClientInv, TakenOf, Says
  <2>7. SearchOf(c)'
    <3>1. \A m \in steady'[c] : Listening(m)'
      BY <1>0, <1>5 DEF ClientInv, SearchOf, TypeOK
    <3>2. ASSUME c \notin shutdown', NEW k \in 0..client[c].attempt
          PROVE  client[c].ids[((client[c].start + k) % n) + 1] \notin steady[c]
      <4>1. CASE k = client[c].attempt
        BY <3>2, <4>1 DEF MinerId, Position
      <4>2. CASE k # client[c].attempt
        <5>1. k \in 0..(client[c].attempt - 1)
          BY <1>1, <4>2
        <5> QED BY <1>0, <3>2, <5>1 DEF ClientInv, SearchOf
      <4> QED BY <4>1, <4>2
    <3>3. r.attempt - 1 = client[c].attempt
      BY <1>1, <2>1
    <3>4. /\ r.start < n /\ r.attempt < n
          /\ \A i, j \in 1..n : i < j => r.ids[i] < r.ids[j]
          /\ steady'[c] \subseteq Range(r.ids)
      BY <1>0, <1>11, <2>1 DEF ClientInv, SearchOf
    <3> QED BY <2>1, <2>3, <3>1, <3>2, <3>3, <3>4 DEF SearchOf
  <2>8. RobinOf(c)'
    BY <1>0, <2>1, <2>2, <2>3 DEF ClientInv, RobinOf
  <2> QED BY <1>5, <1>9, <2>4, <2>5, <2>6, <2>7, <2>8 DEF IInv, ClientInv
<1>12. CASE ~(client[c].attempt + 1 < n)
  <2>1. /\ client' = [client EXCEPT ![c] = At("idle")]
        /\ next_miner' = [next_miner EXCEPT ![c] = client[c].start + 1]
        /\ outcome' = [outcome EXCEPT ![c] = "unavailable"]
        /\ served' = [served EXCEPT ![c] = Nobody]
    BY <1>12 DEF NextAttempt, SetClient
  <2>2. /\ client'[c] = At("idle") /\ client'[c].pc = "idle" /\ outcome'[c] = "unavailable"
        /\ served'[c] = Nobody /\ served'[c].ids = <<>>
    BY <1>0, <2>1 DEF TypeOK, At, Nobody
  <2>3. TypeOK'
    <3>1. Nobody \in [miner : Nat, ids : Seq(Miners)]
      BY ClientAssumption DEF Nobody
    <3>2. client' \in [Clients -> ClientState]
      BY <1>0, <2>1 DEF TypeOK, ClientState, At
    <3>3. next_miner' \in [Clients -> Nat]
      BY <1>0, <1>1, <2>1 DEF TypeOK
    <3> QED BY <1>0, <1>10, <2>1, <3>1, <3>2, <3>3 DEF TypeOK
  <2>4. WaitsForMiner(c)' /\ ConnectionOf(c)'
    BY <1>3, <1>5, <1>7, <2>2 DEF WaitsForMiner, ConnectionOf, NoConn, Submitting
  <2>5. TakenOf(c)'
    BY <1>0, <1>4, <1>6, <2>2 DEF ClientInv, TakenOf, Says
  <2>6. SearchOf(c)'
    <3>1. \A m \in steady'[c] : Listening(m)'
      BY <1>0, <1>5 DEF ClientInv, SearchOf, TypeOK
    <3>2. ASSUME c \notin shutdown', NEW m \in steady[c] PROVE FALSE
      <4>1. m \in Range(client[c].ids)
        BY <1>0 DEF ClientInv, SearchOf
      <4>2. PICK i \in 1..n : client[c].ids[i] = m
        BY <1>1, <4>1 DEF Range
      <4>3. i - 1 \in 0..(n - 1)
        BY <1>1
      <4>4. PICK k \in 0..(n - 1) : (client[c].start + k) % n = i - 1
        BY <1>1, <4>3, EveryPositionTried
      <4>5. client[c].ids[((client[c].start + k) % n) + 1] = m
        BY <1>1, <4>2, <4>4
      <4>6. CASE k = client[c].attempt
        BY <3>2, <4>5, <4>6 DEF MinerId, Position
      <4>7. CASE k # client[c].attempt
        <5>1. k \in 0..(client[c].attempt - 1)
          BY <1>1, <1>12, <4>7
        <5> QED BY <1>0, <3>2, <4>5, <5>1 DEF ClientInv, SearchOf
      <4> QED BY <4>6, <4>7
    <3> QED BY <2>2, <3>1, <3>2 DEF SearchOf, Submitting
  <2>7. RobinOf(c)'
    BY <2>2 DEF RobinOf, Submitting
  <2> QED BY <1>5, <1>9, <2>3, <2>4, <2>5, <2>6, <2>7 DEF IInv, ClientInv
<1> QED BY <1>11, <1>12

\* The loop of a client ends, or the client is killed.
LEMMA EndsInv ==
  ASSUME IInv, NEW c \in Clients, Leave(c) \/ KillClient(c)
  PROVE  IInv'
<1>0. TypeOK /\ OnePlace /\ ClientInv(c)
  BY DEF IInv
<1>1. \/ client' = [client EXCEPT ![c] = At("done")] /\ client[c].pc = "idle"
      \/ client' = [client EXCEPT ![c] = At("killed")]
  BY DEF Leave, KillClient, SetClient
<1>2. UNCHANGED <<next_miner, made, outcome, served, conn, backlog, miner, taken, shutdown, steady>>
  BY DEF Leave, KillClient, minerVars
<1>3. OnePlace' /\ \A m \in Miners : Unanswered(m)' = Unanswered(m)
                                    /\ (Listening(m)' <=> Listening(m))
  BY <1>0, <1>2, SamePlaces
<1>4. \A d \in Clients \ {c} : ClientInv(d)'
  <2>1. \A d \in Clients \ {c} : client'[d] = client[d]
    BY <1>0, <1>1 DEF TypeOK
  <2> QED BY <1>2, <1>3, <2>1, OtherClients
<1>5. TypeOK'
  <2>1. At("done") \in ClientState /\ At("killed") \in ClientState
    BY DEF At, ClientState
  <2>2. client' \in [Clients -> ClientState]
    BY <1>0, <1>1, <2>1 DEF TypeOK
  <2> QED BY <1>0, <1>2, <2>2 DEF TypeOK
<1>6. client'[c] \in {At("done"), At("killed")} /\ client'[c].pc \in {"done", "killed"}
      /\ (client'[c].pc = "done" => client[c].pc = "idle")
  BY <1>0, <1>1 DEF TypeOK, At
<1>7. ~Submitting(c)'
  BY <1>6 DEF Submitting
<1>8. WaitsForMiner(c)'
  <2>1. client[c].pc = "idle" => \A m \in Miners : c \notin Unanswered(m)
    BY NotConnected
  <2> QED BY <1>0, <1>2, <1>3, <1>6, <2>1 DEF ClientInv, WaitsForMiner
<1>9. ConnectionOf(c)'
  BY <1>0, <1>2, <1>6, <1>7 DEF ClientInv, ConnectionOf, NoConn
<1>10. TakenOf(c)'
  BY <1>0, <1>2, <1>3, <1>6 DEF ClientInv, TakenOf
<1>11. SearchOf(c)'
  BY <1>0, <1>2, <1>3, <1>6, <1>7 DEF ClientInv, SearchOf, TypeOK
<1>12. RobinOf(c)'
  BY <1>0, <1>2, <1>7 DEF ClientInv, RobinOf
<1> QED BY <1>3, <1>4, <1>5, <1>8, <1>9, <1>10, <1>11, <1>12 DEF IInv, ClientInv

\* What discover_miners finds is a sorted list of miners.
LEMMA Discovered ==
  ASSUME NEW ids \in discover_miners
  PROVE  /\ ids \in Seq(Miners) /\ Len(ids) \in Nat
         /\ \A i, j \in 1..Len(ids) : i < j => ids[i] < ids[j]
<1> DEFINE Found == {m \in Miners : file[m]}
           count == Min({Cardinality(Found), MAX_DISCOVERED_MINERS})
<1>1. Cardinality(Found) \in Nat
  <2>1. IsFiniteSet(Miners)
    BY ClientAssumption, FS_Interval DEF Miners
  <2>2. Found \subseteq Miners
    OBVIOUS
  <2> QED BY <2>1, <2>2, FS_Subset, FS_CardinalityType
<1>2. count \in Nat
  <2> HIDE DEF Found
  <2>1. Cardinality(Found) <= MAX_DISCOVERED_MINERS \/ MAX_DISCOVERED_MINERS <= Cardinality(Found)
    BY <1>1, ClientAssumption
  <2>2. \E x \in {Cardinality(Found), MAX_DISCOVERED_MINERS} :
          \A y \in {Cardinality(Found), MAX_DISCOVERED_MINERS} : x <= y
    BY <1>1, <2>1, ClientAssumption
  <2>3. count \in {Cardinality(Found), MAX_DISCOVERED_MINERS}
    BY <2>2, Zenon DEF Min
  <2> QED BY <1>1, <2>3, ClientAssumption
<1>3. ids \in [1..count -> Found] /\ \A i, j \in 1..count : i < j => ids[i] < ids[j]
  BY DEF discover_miners
<1> HIDE DEF count
<1>4. ids \in [1..count -> Miners]
  BY <1>3
<1>5. ids \in Seq(Miners) /\ Len(ids) = count
  BY <1>2, <1>4
<1> QED BY <1>2, <1>3, <1>5

\* A new transaction is with nobody, and the search for a miner begins.
LEMMA SubmitInv ==
  ASSUME IInv, NEW c \in Clients, Submit(c)
  PROVE  IInv'
<1>0. TypeOK /\ OnePlace /\ ClientInv(c) /\ client[c].pc = "idle"
  BY DEF IInv, Submit
<1>1. PICK ids \in discover_miners :
        /\ SetClient(c, IF ids = <<>> THEN At("idle")
                        ELSE [pc |-> "connect", ids |-> ids, attempt |-> 0,
                              start |-> next_miner[c] % Len(ids)])
        /\ outcome' = [outcome EXCEPT ![c] = IF ids = <<>> THEN "unavailable" ELSE "none"]
        /\ steady' = [steady EXCEPT ![c] = {m \in Range(ids) : Listening(m)}]
  BY DEF Submit
<1>2. /\ made' = [made EXCEPT ![c] = @ + 1]
      /\ UNCHANGED <<next_miner, served, conn, backlog, miner, taken, shutdown>>
  BY DEF Submit, minerVars
<1>3. OnePlace' /\ \A m \in Miners : Unanswered(m)' = Unanswered(m)
                                    /\ (Listening(m)' <=> Listening(m))
  BY <1>0, <1>2, SamePlaces
<1>4. \A d \in Clients \ {c} : ClientInv(d)'
  <2>1. \A d \in Clients \ {c} :
          /\ client'[d] = client[d] /\ made'[d] = made[d]
          /\ outcome'[d] = outcome[d] /\ steady'[d] = steady[d]
    BY <1>0, <1>1, <1>2 DEF TypeOK, SetClient
  <2> QED BY <1>2, <1>3, <2>1, OtherClients
<1>5. /\ ids \in Seq(Miners) /\ Len(ids) \in Nat
      /\ \A i, j \in 1..Len(ids) : i < j => ids[i] < ids[j]
  BY <1>1, Discovered
<1>6. Range(ids) \subseteq Miners /\ (ids = <<>> => Range(ids) = {})
  BY <1>5 DEF Range
<1>7. /\ made'[c] = made[c] + 1 /\ made[c] \in Nat
      /\ steady'[c] = {m \in Range(ids) : Listening(m)}
      /\ outcome'[c] = IF ids = <<>> THEN "unavailable" ELSE "none"
  BY <1>0, <1>1, <1>2 DEF TypeOK
<1>8. \A m \in Miners : c \notin Unanswered(m) /\ ~Says(m, c)
  BY <1>0, NotConnected
<1>9. \A m \in Miners : <<c, made'[c]>> \notin taken'[m]
  <2> SUFFICES ASSUME NEW m \in Miners, <<c, made[c] + 1>> \in taken[m] PROVE FALSE
    BY <1>2, <1>7
  <2> DEFINE tx == <<c, made[c] + 1>>
  <2>1. tx[1] = c /\ tx[2] = made[c] + 1
    OBVIOUS
  <2>2. tx \in taken[m]
    OBVIOUS
  <2> HIDE DEF tx
  <2>3. tx[2] <= made[c]
    BY <1>0, <2>1, <2>2 DEF ClientInv, TakenOf
  <2> QED BY <1>7, <2>1, <2>3
<1>10. \A m \in Miners : ~Says(m, c)'
  BY <1>2, <1>8 DEF Says
<1>11. conn'[c] = NoConn
  BY <1>0, <1>2 DEF ClientInv, ConnectionOf
<1>12. \A m \in steady'[c] : Listening(m)'
  BY <1>3, <1>6, <1>7
<1>13. \A m \in Miners : \A tx \in taken'[m] : tx[1] = c =>
         /\ tx[2] <= made'[c]
         /\ \A n \in Miners : tx \in taken'[n] => n = m
  <2> SUFFICES ASSUME NEW m \in Miners, NEW tx \in taken[m], tx[1] = c
               PROVE  /\ tx[2] <= made[c] + 1
                      /\ \A n \in Miners : tx \in taken[n] => n = m
    BY <1>2, <1>7
  <2>1. tx[2] \in Nat
    BY <1>0 DEF TypeOK
  <2>2. /\ tx[2] <= made[c]
        /\ \A n \in Miners : tx \in taken[n] => n = m
    BY <1>0 DEF ClientInv, TakenOf
  <2> QED BY <1>7, <2>1, <2>2
<1>14. CASE ids = <<>>
  <2>1. client' = [client EXCEPT ![c] = At("idle")] /\ client'[c] = At("idle")
        /\ client'[c].pc = "idle"
    BY <1>0, <1>1, <1>14 DEF SetClient, TypeOK, At
  <2>2. TypeOK'
    <3>1. At("idle") \in ClientState
      BY DEF At, ClientState
    <3>2. client' \in [Clients -> ClientState] /\ made' \in [Clients -> Nat]
      BY <1>0, <1>2, <2>1, <3>1 DEF TypeOK
    <3>3. steady' \in [Clients -> SUBSET Miners]
          /\ outcome' \in [Clients -> {"none", "accepted", "rejected", "unavailable"}]
      BY <1>0, <1>1, <1>6 DEF TypeOK
    <3> QED BY <1>0, <1>2, <3>2, <3>3 DEF TypeOK
  <2>3. WaitsForMiner(c)' /\ ConnectionOf(c)'
    BY <1>3, <1>8, <1>11, <2>1 DEF WaitsForMiner, ConnectionOf, NoConn, Submitting
  <2>4. TakenOf(c)'
    BY <1>7, <1>9, <1>10, <1>13, <1>14, <2>1 DEF TakenOf, Says
  <2>5. SearchOf(c)'
    BY <1>6, <1>7, <1>12, <1>14, <2>1 DEF SearchOf, Submitting
  <2>6. RobinOf(c)'
    BY <1>0, <1>2, <2>1 DEF ClientInv, RobinOf, Submitting
  <2> QED BY <1>3, <1>4, <2>2, <2>3, <2>4, <2>5, <2>6 DEF IInv, ClientInv
<1>15. CASE ids # <<>>
  <2> DEFINE r == [pc |-> "connect", ids |-> ids, attempt |-> 0,
                   start |-> next_miner[c] % Len(ids)]
  <2>0. Len(ids) \in Nat \ {0} /\ next_miner[c] \in Nat
    BY <1>0, <1>5, <1>15 DEF TypeOK
  <2>1. next_miner[c] % Len(ids) \in 0..(Len(ids) - 1)
    BY <2>0
  <2>2. /\ r.pc = "connect" /\ r.ids = ids /\ r.attempt = 0
        /\ r.start = next_miner[c] % Len(ids)
        /\ r \in ClientState
    BY <1>5, <2>0, <2>1 DEF ClientState
  <2>3. client' = [client EXCEPT ![c] = r] 
    BY <1>1, <1>15 DEF SetClient
  <2> HIDE DEF r
  <2>4. client'[c] = r
    BY <1>0, <2>3 DEF TypeOK
  <2>5. TypeOK'
    <3>2. client' \in [Clients -> ClientState] /\ made' \in [Clients -> Nat]
      BY <1>0, <1>2, <2>2, <2>3 DEF TypeOK
    <3>3. steady' \in [Clients -> SUBSET Miners]
          /\ outcome' \in [Clients -> {"none", "accepted", "rejected", "unavailable"}]
      BY <1>0, <1>1, <1>6 DEF TypeOK
    <3> QED BY <1>0, <1>2, <3>2, <3>3 DEF TypeOK
  <2>6. WaitsForMiner(c)' /\ ConnectionOf(c)'
    BY <1>3, <1>8, <1>11, <2>2, <2>4 DEF WaitsForMiner, ConnectionOf, NoConn
  <2>7. TakenOf(c)'
    BY <1>7, <1>9, <1>10, <1>13, <2>2, <2>4 DEF TakenOf, Says
  <2>8. SearchOf(c)'
    <3>1. r.start < Len(ids) /\ r.attempt < Len(ids) /\ 0..(r.attempt - 1) = {}
      BY <2>0, <2>1, <2>2
    <3>2. steady'[c] \subseteq Range(ids)
      BY <1>7
    <3> QED BY <1>5, <1>12, <2>2, <2>4, <3>1, <3>2 DEF SearchOf
  <2>9. RobinOf(c)'
    BY <1>0, <1>2, <2>2, <2>4 DEF ClientInv, RobinOf
  <2> QED BY <1>3, <1>4, <2>5, <2>6, <2>7, <2>8, <2>9 DEF IInv, ClientInv
<1> QED BY <1>14, <1>15

\* A record that only its pc changes of.
LEMMA SetPc ==
  ASSUME NEW s \in [pc : {"connect", "write", "await"}, ids : Seq(Miners),
                    attempt : Nat, start : Nat],
         NEW pc \in {"connect", "write", "await"},
         NEW r, r = [s EXCEPT !.pc = pc]
  PROVE  /\ r.pc = pc /\ r.attempt = s.attempt /\ r.ids = s.ids /\ r.start = s.start
         /\ r \in ClientState
<1>1. s.attempt \in Nat /\ s.start \in Nat /\ s.ids \in Seq(Miners)
  OBVIOUS
<1>2. r.pc = pc /\ r.ids = s.ids /\ r.start = s.start /\ r.attempt = s.attempt
  OBVIOUS
<1>3. r = [pc |-> pc, ids |-> s.ids, attempt |-> s.attempt, start |-> s.start]
  OBVIOUS
<1> QED BY <1>1, <1>2, <1>3 DEF ClientState

\* While a client goes on with the same miner, its place in the list stays.
LEMMA SearchGoesOn ==
  ASSUME IInv, NEW c \in Clients, Submitting(c), NEW pc \in {"connect", "write", "await"},
         SetClient(c, [client[c] EXCEPT !.pc = pc]),
         UNCHANGED <<miner, next_miner, made, outcome, served, taken, shutdown, steady>>
  PROVE  /\ client'[c].pc = pc /\ MinerId(c)' = MinerId(c) /\ Submitting(c)'
         /\ client' \in [Clients -> ClientState]
         /\ \A d \in Clients \ {c} : client'[d] = client[d]
         /\ SearchOf(c)' /\ RobinOf(c)'
<1> DEFINE r == [client[c] EXCEPT !.pc = pc]
<1>0. TypeOK /\ ClientInv(c)
  BY DEF IInv
<1>1. /\ r.pc = pc /\ r.attempt = client[c].attempt /\ r.ids = client[c].ids
      /\ r.start = client[c].start /\ r \in ClientState
  BY <1>0, SubmittingState, SetPc
<1>2. client' = [client EXCEPT ![c] = r]
  BY DEF SetClient
<1> HIDE DEF r
<1>3. client'[c] = r /\ client' \in [Clients -> ClientState]
      /\ \A d \in Clients \ {c} : client'[d] = client[d]
  BY <1>0, <1>1, <1>2 DEF TypeOK
<1>4. MinerId(c)' = MinerId(c) /\ Submitting(c)'
  BY <1>1, <1>3 DEF MinerId, Position, Submitting
<1>5. SearchOf(c)'
  BY <1>0, <1>1, <1>3 DEF ClientInv, SearchOf, Listening
<1>6. RobinOf(c)'
  BY <1>0, <1>1, <1>3 DEF ClientInv, RobinOf
<1> QED BY <1>1, <1>3, <1>4, <1>5, <1>6

\* A connection waits in the backlog of the miner that is tried, and in no
\* other.  A miner that refuses it does not listen.
LEMMA ConnectInv ==
  ASSUME IInv, NEW c \in Clients, Connect(c)
  PROVE  IInv'
<1>0. TypeOK /\ OnePlace /\ ClientInv(c) /\ client[c].pc = "connect" /\ Submitting(c)
  BY DEF IInv, Connect, Submitting
<1>1. PICK m \in Miners : m = MinerId(c)
  BY <1>0, MinerIdType DEF ClientInv
<1>2. UNCHANGED <<made, miner, taken, shutdown, steady>>
  BY DEF Connect
<1>3. \A k \in Miners : c \notin Unanswered(k) /\ ~Says(k, c)
  BY <1>0, NotConnected
<1>4. CASE Listening(m)
  <2>1. /\ backlog' = [backlog EXCEPT ![m] = Append(@, c)]
        /\ SetClient(c, [client[c] EXCEPT !.pc = "write"])
        /\ UNCHANGED <<next_miner, outcome, served, conn>>
    BY <1>1, <1>4 DEF Connect
  <2>2. /\ client'[c].pc = "write" /\ MinerId(c)' = m /\ Submitting(c)'
        /\ client' \in [Clients -> ClientState]
        /\ \A d \in Clients \ {c} : client'[d] = client[d]
        /\ SearchOf(c)' /\ RobinOf(c)'
    BY <1>0, <1>1, <1>2, <2>1, SearchGoesOn
  <2>3. /\ backlog' \in [Miners -> Seq(Clients)] /\ backlog[m] \in Seq(Clients)
        /\ backlog'[m] = Append(backlog[m], c)
        /\ \A k \in Miners \ {m} : backlog'[k] = backlog[k]
    BY <1>0, <1>1, <2>1 DEF TypeOK
  <2>4. TypeOK'
    BY <1>0, <1>2, <2>1, <2>2, <2>3 DEF TypeOK
  <2>5. Range(backlog'[m]) = Range(backlog[m]) \cup {c}
    BY <2>3, RangeOfAppend
  <2>6. /\ Unanswered(m)' = Unanswered(m) \cup {c}
        /\ \A k \in Miners \ {m} : Unanswered(k)' = Unanswered(k)
    BY <1>2, <2>3, <2>5 DEF Unanswered
  <2>7. c \notin Range(backlog[m]) /\ (miner[m].pc \in {"recv", "reply"} => miner[m].client # c)
    BY <1>1, <1>3 DEF Unanswered
  <2>8. OnePlace'
    <3>1. ASSUME NEW i \in 1..Len(backlog'[m]), NEW j \in 1..Len(backlog'[m]),
                 backlog'[m][i] = backlog'[m][j]
          PROVE  i = j
      <4>1. /\ Len(backlog'[m]) = Len(backlog[m]) + 1 /\ Len(backlog[m]) \in Nat
            /\ \A k \in 1..Len(backlog[m]) : backlog'[m][k] = backlog[m][k]
            /\ backlog'[m][Len(backlog[m]) + 1] = c
        BY <2>3, AppendProperties
      <4>2. \A k \in 1..Len(backlog[m]) : backlog[m][k] # c
        BY <2>3, <2>7 DEF Range
      <4>3. \A k, l \in 1..Len(backlog[m]) : backlog[m][k] = backlog[m][l] => k = l
        BY <1>0, <1>1 DEF OnePlace
      <4>4. CASE i \in 1..Len(backlog[m]) /\ j \in 1..Len(backlog[m])
        BY <3>1, <4>1, <4>3, <4>4
      <4>5. CASE i = Len(backlog[m]) + 1 \/ j = Len(backlog[m]) + 1
        <5>1. backlog'[m][i] = c /\ backlog'[m][j] = c
          BY <3>1, <4>1, <4>5
        <5>2. i \notin 1..Len(backlog[m]) /\ j \notin 1..Len(backlog[m])
          BY <4>1, <4>2, <5>1
        <5> QED BY <4>1, <5>2
      <4> QED BY <4>1, <4>4, <4>5
    <3>2. miner'[m].pc \in {"recv", "reply"} => miner'[m].client \notin Range(backlog'[m])
      BY <1>0, <1>1, <1>2, <2>5, <2>7 DEF OnePlace
    <3> QED BY <1>0, <1>2, <2>3, <3>1, <3>2 DEF OnePlace
  <2>9. \A d \in Clients \ {c} : ClientInv(d)'
    <3>1. \A k \in Miners : \A d \in Clients \ {c} : d \in Unanswered(k)' => d \in Unanswered(k)
      BY <2>6
    <3> QED BY <1>2, <2>1, <2>2, <3>1, OtherClients
  <2>10. conn'[c] = NoConn /\ conn'[c].answer = "none" /\ ~conn'[c].written
    BY <1>0, <2>1 DEF ClientInv, ConnectionOf, NoConn
  <2>11. WaitsForMiner(c)'
    <3>1. \A k \in Miners : c \in Unanswered(k)' => k = m
      BY <1>3, <2>6
    <3>2. ~(miner'[m].pc = "reply" /\ miner'[m].client = c)
      BY <1>2, <2>7
    <3> QED BY <1>1, <2>2, <2>10, <3>1, <3>2 DEF WaitsForMiner
  <2>12. ConnectionOf(c)'
    BY <2>2, <2>10 DEF ConnectionOf
  <2>13. TakenOf(c)'
    <3>1. \A k \in Miners : <<c, made[c]>> \notin taken[k]
      BY <1>0, NotTaken
    <3> QED BY <1>0, <1>2, <1>3, <2>2, <3>1 DEF ClientInv, TakenOf, Says
  <2> QED BY <2>2, <2>4, <2>8, <2>9, <2>11, <2>12, <2>13 DEF IInv, ClientInv
<1>5. CASE ~Listening(m)
  <2>1. NextAttempt(c) /\ UNCHANGED backlog
    BY <1>1, <1>5 DEF Connect
  <2>2. MinerId(c) \notin steady[c]
    BY <1>0, <1>1, <1>5 DEF ClientInv, SearchOf
  <2> QED BY <1>0, <1>2, <2>1, <2>2, NextAttemptInv
<1> QED BY <1>4, <1>5

\* A client writes to its miner, or is killed because the miner is gone.
LEMMA WriteInv ==
  ASSUME IInv, NEW c \in Clients, Write(c)
  PROVE  IInv'
<1>0. TypeOK /\ OnePlace /\ ClientInv(c) /\ client[c].pc = "write" /\ Submitting(c)
  BY DEF IInv, Write, Submitting
<1>1. UNCHANGED <<next_miner, made, outcome, served, backlog, miner, taken, shutdown, steady>>
  BY DEF Write, minerVars
<1>2. OnePlace' /\ \A m \in Miners : Unanswered(m)' = Unanswered(m)
                                    /\ (Listening(m)' <=> Listening(m))
  BY <1>0, <1>1, SamePlaces
<1>3. \A m \in Miners : <<c, made[c]>> \notin taken[m]
  BY <1>0, NotTaken
<1>4. \A m \in Miners : ~Says(m, c)
  BY <1>0, <1>3 DEF ClientInv, TakenOf, Says
<1>5. CASE conn[c].answer = "eof"
  <2>1. client' = [client EXCEPT ![c] = At("killed")] /\ UNCHANGED conn
    BY <1>5 DEF Write, SetClient
  <2>2. client'[c].pc = "killed" /\ \A d \in Clients \ {c} : client'[d] = client[d]
    BY <1>0, <2>1 DEF TypeOK, At
  <2>3. \A d \in Clients \ {c} : ClientInv(d)'
    BY <1>1, <1>2, <2>1, <2>2, OtherClients
  <2>4. TypeOK'
    <3>1. At("killed") \in ClientState
      BY DEF At, ClientState
    <3>2. client' \in [Clients -> ClientState]
      BY <1>0, <2>1, <3>1 DEF TypeOK
    <3> QED BY <1>0, <1>1, <2>1, <3>2 DEF TypeOK
  <2>5. WaitsForMiner(c)' /\ ConnectionOf(c)'
    BY <1>0, <1>1, <1>2, <2>1, <2>2 DEF ClientInv, WaitsForMiner, ConnectionOf, Submitting
  <2>6. TakenOf(c)'
    BY <1>0, <1>1, <1>3, <1>4, <2>2 DEF ClientInv, TakenOf, Says
  <2>7. SearchOf(c)' /\ RobinOf(c)'
    BY <1>0, <1>1, <1>2, <2>2 DEF ClientInv, SearchOf, RobinOf, Submitting, TypeOK
  <2> QED BY <1>2, <2>3, <2>4, <2>5, <2>6, <2>7 DEF IInv, ClientInv
<1>6. CASE conn[c].answer # "eof"
  <2>1. /\ SetClient(c, [client[c] EXCEPT !.pc = "await"])
        /\ conn' = [conn EXCEPT ![c].written = TRUE]
    BY <1>6 DEF Write
  <2>2. /\ client'[c].pc = "await" /\ MinerId(c)' = MinerId(c) /\ Submitting(c)'
        /\ client' \in [Clients -> ClientState]
        /\ \A d \in Clients \ {c} : client'[d] = client[d]
        /\ SearchOf(c)' /\ RobinOf(c)'
    BY <1>0, <1>1, <2>1, SearchGoesOn
  <2>3. conn[c].answer = "none"
    BY <1>0, <1>6 DEF ClientInv, ConnectionOf
  <2>4. /\ conn' \in [Clients -> [written : BOOLEAN, answer : {"none", "eof", "OK", "ERR"}]]
        /\ conn'[c].written /\ conn'[c].answer = "none"
        /\ \A d \in Clients \ {c} : conn'[d] = conn[d]
    BY <1>0, <2>1, <2>3 DEF TypeOK
  <2>5. \A d \in Clients \ {c} : ClientInv(d)'
    BY <1>1, <1>2, <2>2, <2>4, OtherClients
  <2>6. TypeOK'
    BY <1>0, <1>1, <2>2, <2>4 DEF TypeOK
  <2>7. WaitsForMiner(c)'
    BY <1>0, <1>1, <1>2, <2>2, <2>4 DEF ClientInv, WaitsForMiner
  <2>8. ConnectionOf(c)'
    BY <2>2, <2>4 DEF ConnectionOf
  <2>9. TakenOf(c)'
    BY <1>0, <1>1, <1>3, <1>4, <2>2, <2>4 DEF ClientInv, TakenOf, Says
  <2> QED BY <1>2, <2>2, <2>5, <2>6, <2>7, <2>8, <2>9 DEF IInv, ClientInv
<1> QED BY <1>5, <1>6

\* An answer says where the transaction is, and the next search starts behind
\* the miner that gave it.
LEMMA ReceiveInv ==
  ASSUME IInv, NEW c \in Clients, Receive(c)
  PROVE  IInv'
<1>0. /\ TypeOK /\ OnePlace /\ ClientInv(c) /\ Submitting(c)
      /\ client[c].pc = "await" /\ conn[c].answer # "none"
  BY DEF IInv, Receive, Submitting
<1>1. UNCHANGED <<made, backlog, miner, taken, shutdown, steady>>
  BY DEF Receive, minerVars
<1>2. CASE conn[c].answer = "eof"
  <2>1. NextAttempt(c) /\ MinerId(c) \notin steady[c]
    BY <1>0, <1>2 DEF Receive, ClientInv, ConnectionOf
  <2> QED BY <1>0, <1>1, <1>2, <2>1, NextAttemptInv
<1>3. CASE conn[c].answer # "eof"
  <2>0. /\ client' = [client EXCEPT ![c] = At("idle")]
        /\ next_miner' = [next_miner EXCEPT ![c] = Position(c) + 1]
        /\ outcome' = [outcome EXCEPT ![c] = IF conn[c].answer = "OK" THEN "accepted"
                                                                      ELSE "rejected"]
        /\ served' = [served EXCEPT ![c] = [miner |-> MinerId(c), ids |-> client[c].ids]]
        /\ conn' = [conn EXCEPT ![c] = NoConn]
    BY <1>3 DEF Receive, Answered, SetClient
  <2>1. /\ client[c].ids \in Seq(Miners) /\ MinerId(c) \in Miners
        /\ Position(c) \in 0..(Len(client[c].ids) - 1)
    BY <1>0, MinerIdType DEF ClientInv
  <2>2. /\ client'[c] = At("idle") /\ client'[c].pc = "idle"
        /\ next_miner'[c] = Position(c) + 1 /\ conn'[c] = NoConn
        /\ served'[c].miner = MinerId(c) /\ served'[c].ids = client[c].ids
        /\ outcome'[c] = IF conn[c].answer = "OK" THEN "accepted" ELSE "rejected"
    BY <1>0, <2>0 DEF TypeOK, At
  <2>3. \A d \in Clients \ {c} :
          /\ client'[d] = client[d] /\ next_miner'[d] = next_miner[d] /\ conn'[d] = conn[d]
          /\ served'[d] = served[d] /\ outcome'[d] = outcome[d]
    BY <1>0, <2>0 DEF TypeOK
  <2>4. OnePlace' /\ \A m \in Miners : Unanswered(m)' = Unanswered(m)
                                      /\ (Listening(m)' <=> Listening(m))
    BY <1>0, <1>1, SamePlaces
  <2>5. \A d \in Clients \ {c} : ClientInv(d)'
    BY <1>1, <2>3, <2>4, OtherClients
  <2>6. TypeOK'
    <3>1. At("idle") \in ClientState /\ Miners \subseteq Nat
          /\ NoConn \in [written : BOOLEAN, answer : {"none", "eof", "OK", "ERR"}]
      BY ClientAssumption DEF At, ClientState, NoConn, Miners
    <3>2. client' \in [Clients -> ClientState] /\ next_miner' \in [Clients -> Nat]
      BY <1>0, <2>0, <2>1, <3>1 DEF TypeOK
    <3>3. /\ served' \in [Clients -> [miner : Nat, ids : Seq(Miners)]]
          /\ conn' \in [Clients -> [written : BOOLEAN, answer : {"none", "eof", "OK", "ERR"}]]
      BY <1>0, <2>0, <2>1, <3>1 DEF TypeOK
    <3>4. outcome' \in [Clients -> {"none", "accepted", "rejected", "unavailable"}]
      BY <1>0, <2>0 DEF TypeOK
    <3> QED BY <1>0, <1>1, <3>2, <3>3, <3>4 DEF TypeOK
  <2>7. \A m \in Miners : c \notin Unanswered(m) /\ ~Says(m, c)
    BY <1>0, NotConnected
  <2>8. WaitsForMiner(c)' /\ ConnectionOf(c)'
    BY <2>2, <2>4, <2>7 DEF WaitsForMiner, ConnectionOf, Submitting
  <2>9. TakenOf(c)'
    BY <1>0, <1>1, <2>2, <2>4, <2>7 DEF ClientInv, TakenOf, Says
  <2>10. SearchOf(c)'
    <3>1. \A m \in steady'[c] : Listening(m)'
      BY <1>0, <1>1, <2>4 DEF ClientInv, SearchOf, TypeOK
    <3> QED BY <2>2, <3>1 DEF SearchOf, Submitting
  <2>11. RobinOf(c)'
    BY <2>1, <2>2 DEF RobinOf, Submitting, MinerId
  <2> QED BY <2>4, <2>5, <2>6, <2>8, <2>9, <2>10, <2>11 DEF IInv, ClientInv
<1> QED BY <1>2, <1>3

\* The signal cuts a connect short that is blocked, and nothing else.
LEMMA TerminateClientInv ==
  ASSUME IInv, NEW c \in Clients, TerminateClient(c)
  PROVE  IInv'
<1>0. TypeOK /\ OnePlace /\ ClientInv(c)
  BY DEF IInv
<1>1. /\ UNCHANGED <<made, backlog, miner, taken, steady>>
      /\ c \in shutdown' /\ shutdown \subseteq shutdown'
  BY DEF TerminateClient, minerVars
<1>2. CASE Blocked(c)
  <2>1. client[c].pc = "connect" /\ NextAttempt(c)
    BY <1>2 DEF Blocked, TerminateClient
  <2> QED BY <1>1, <2>1, NextAttemptInv
<1>3. CASE ~Blocked(c)
  <2>1. UNCHANGED <<client, next_miner, outcome, served, conn>>
    BY <1>3 DEF TerminateClient
  <2>2. OnePlace' /\ \A m \in Miners : Unanswered(m)' = Unanswered(m)
                                      /\ (Listening(m)' <=> Listening(m))
    BY <1>0, <1>1, SamePlaces
  <2>3. \A d \in Clients : Bystander(d)
    BY <1>1, <2>1, <2>2 DEF Bystander, Says
  <2>4. \A d \in Clients : ClientInv(d)'
    BY <1>0, <2>3, BystanderInv DEF IInv
  <2>5. TypeOK'
    BY <1>0, <1>1, <2>1 DEF TypeOK
  <2> QED BY <2>2, <2>4, <2>5 DEF IInv
<1> QED BY <1>2, <1>3

-----------------------------------------------------------------------------
(* The steps of a miner.                                                   *)

\* A thread that answers nobody, before and after, or stays where it is.
LEMMA SameAnswer ==
  ASSUME NEW n \in Miners, NEW d \in Clients,
         \/ miner'[n] = miner[n]
         \/ miner'[n].pc # "reply" /\ miner[n].pc # "reply"
  PROVE  /\ Says(n, d)' <=> Says(n, d)
         /\ miner'[n].pc = "reply" /\ miner'[n].client = d =>
              miner[n].pc = "reply" /\ miner[n].client = d
<1>1. CASE miner'[n] = miner[n]
  BY <1>1 DEF Says
<1>2. CASE miner'[n].pc # "reply" /\ miner[n].pc # "reply"
  <2>1. ~Says(n, d) /\ ~Says(n, d)'
    BY <1>2 DEF Says
  <2> QED BY <1>2, <2>1
<1> QED BY <1>1, <1>2

\* A thread that serves nobody, before and after: where it is matters to no
\* client, as long as it goes on listening.
LEMMA ThreadMovesInv ==
  ASSUME IInv, NEW m \in Miners, NEW pc,
         pc \in {"starting", "bound", "poll", "closing", "unlink", "closed", "killed"},
         miner' = [miner EXCEPT ![m] = At(pc)],
         miner[m].pc \notin {"recv", "reply", "killed"},
         Listening(m) => pc \in {"poll", "closing"},
         UNCHANGED <<clientVars, conn, backlog, taken, steady>>,
         shutdown \subseteq shutdown'
  PROVE  IInv'
<1>0. TypeOK /\ OnePlace
  BY DEF IInv
<1>1. miner'[m] = At(pc) /\ miner'[m].pc = pc /\ \A n \in Miners \ {m} : miner'[n] = miner[n]
  BY <1>0 DEF TypeOK, At
<1>2. TypeOK'
  <2>1. At(pc) \in MinerState
    BY DEF At, MinerState
  <2>2. miner' \in [Miners -> MinerState]
    BY <1>0, <2>1 DEF TypeOK
  <2> QED BY <1>0, <2>2 DEF TypeOK, clientVars
<1>3. \A n \in Miners : Unanswered(n)' = Unanswered(n)
  <2>1. Unanswered(m)' = Unanswered(m)
    BY <1>1 DEF Unanswered
  <2> QED BY <1>1, <2>1 DEF Unanswered
<1>4. OnePlace'
  BY <1>0, <1>1 DEF OnePlace
<1>5. \A n \in Miners :
        /\ Listening(n) => Listening(n)'
        /\ miner[n].pc = "killed" => miner'[n].pc = "killed"
        /\ \/ miner'[n] = miner[n]
           \/ miner'[n].pc # "reply" /\ miner[n].pc # "reply"
  BY <1>1 DEF Listening
<1>6. \A d \in Clients : \A n \in Miners :
        /\ Says(n, d)' <=> Says(n, d)
        /\ miner'[n].pc = "reply" /\ miner'[n].client = d =>
             miner[n].pc = "reply" /\ miner[n].client = d
  <2> TAKE d \in Clients
  <2> TAKE n \in Miners
  <2>1. \/ miner'[n] = miner[n]
        \/ miner'[n].pc # "reply" /\ miner[n].pc # "reply"
    BY <1>5
  <2> QED BY <2>1, SameAnswer
<1>7. \A d \in Clients : Bystander(d)
  BY <1>3, <1>5, <1>6 DEF Bystander, clientVars
<1>8. \A d \in Clients : ClientInv(d)'
  BY <1>0, <1>7, BystanderInv DEF IInv
<1> QED BY <1>2, <1>4, <1>8 DEF IInv

LEMMA SmallStepsInv ==
  ASSUME IInv, NEW m \in Miners, Bind(m) \/ Listen(m) \/ Unlink(m)
  PROVE  IInv'
<1>1. CASE Bind(m)
  BY <1>1, ThreadMovesInv DEF Bind, SetMiner, Listening
<1>2. CASE Listen(m)
  <2>1. NextPoll(m) = At("poll") \/ NextPoll(m) = At("closing")
    BY DEF NextPoll
  <2> QED BY <1>2, <2>1, ThreadMovesInv DEF Listen, SetMiner, Listening
<1>3. CASE Unlink(m)
  BY <1>3, ThreadMovesInv DEF Unlink, SetMiner, Listening
<1> QED BY <1>1, <1>2, <1>3

LEMMA NobodysStepInv ==
  ASSUME IInv, UNCHANGED <<clientVars, conn, miner, backlog, taken, steady>>,
         shutdown \subseteq shutdown'
  PROVE  IInv'
<1>0. TypeOK /\ OnePlace
  BY DEF IInv
<1>1. OnePlace' /\ \A m \in Miners : Unanswered(m)' = Unanswered(m)
                                    /\ (Listening(m)' <=> Listening(m))
  BY <1>0, SamePlaces
<1>2. \A d \in Clients : Bystander(d)
  BY <1>1 DEF Bystander, Says, clientVars
<1>3. \A d \in Clients : ClientInv(d)'
  BY <1>0, <1>2, BystanderInv DEF IInv
<1>4. TypeOK'
  BY <1>0 DEF TypeOK, clientVars
<1> QED BY <1>1, <1>3, <1>4 DEF IInv

\* An accepted connection moves from the backlog to the thread.
LEMMA AcceptInv ==
  ASSUME IInv, NEW m \in Miners, Accept(m)
  PROVE  IInv'
<1> DEFINE q == backlog[m]
<1>0. TypeOK /\ OnePlace /\ q \in Seq(Clients) /\ q # <<>> /\ miner[m].pc = "poll"
  BY DEF IInv, TypeOK, Accept
<1>1. /\ miner' = [miner EXCEPT ![m] = [pc |-> "recv", client |-> Head(q)]]
      /\ backlog' = [backlog EXCEPT ![m] = Tail(q)]
      /\ UNCHANGED <<clientVars, conn, taken, shutdown, steady>>
  BY DEF Accept, SetMiner
<1>2. \A i, j \in 1..Len(q) : q[i] = q[j] => i = j
  BY <1>0 DEF OnePlace
<1>3. /\ Range(q) = Range(Tail(q)) \cup {Head(q)} /\ Head(q) \notin Range(Tail(q))
      /\ Head(q) \in Clients /\ Tail(q) \in Seq(Clients)
      /\ \A i, j \in 1..Len(Tail(q)) : Tail(q)[i] = Tail(q)[j] => i = j
  <2> HIDE DEF q
  <2> QED BY <1>0, <1>2, RangeOfTail
<1>4. /\ backlog'[m] = Tail(q) /\ \A n \in Miners \ {m} : backlog'[n] = backlog[n]
      /\ miner'[m].pc = "recv" /\ miner'[m].client = Head(q)
      /\ \A n \in Miners \ {m} : miner'[n] = miner[n]
  BY <1>0, <1>1 DEF TypeOK
<1>5. TypeOK'
  <2>1. [pc |-> "recv", client |-> Head(q)] \in MinerState
    BY <1>3 DEF MinerState
  <2>2. miner' \in [Miners -> MinerState] /\ backlog' \in [Miners -> Seq(Clients)]
    BY <1>0, <1>1, <1>3, <2>1 DEF TypeOK
  <2> QED BY <1>0, <1>1, <2>2 DEF TypeOK, clientVars
<1>6. OnePlace'
  <2>1. /\ \A i, j \in 1..Len(backlog'[m]) : backlog'[m][i] = backlog'[m][j] => i = j
        /\ miner'[m].client \notin Range(backlog'[m])
    BY <1>3, <1>4
  <2>2. ASSUME NEW n \in Miners \ {m}
        PROVE  /\ \A i, j \in 1..Len(backlog'[n]) : backlog'[n][i] = backlog'[n][j] => i = j
               /\ miner'[n].pc \in {"recv", "reply"} => miner'[n].client \notin Range(backlog'[n])
    BY <1>0, <1>4 DEF OnePlace
  <2> QED BY <2>1, <2>2 DEF OnePlace
<1>7. \A n \in Miners : Unanswered(n)' = Unanswered(n)
  <2>1. Unanswered(m)' = Range(Tail(q)) \cup {Head(q)}
    BY <1>4 DEF Unanswered
  <2>2. Unanswered(m) = Range(q)
    BY <1>0 DEF Unanswered
  <2>3. ASSUME NEW n \in Miners \ {m} PROVE Unanswered(n)' = Unanswered(n)
    BY <1>4 DEF Unanswered
  <2> QED BY <1>3, <2>1, <2>2, <2>3
<1>8. \A n \in Miners :
        /\ Listening(n) => Listening(n)'
        /\ miner[n].pc = "killed" => miner'[n].pc = "killed"
        /\ \/ miner'[n] = miner[n]
           \/ miner'[n].pc # "reply" /\ miner[n].pc # "reply"
  BY <1>0, <1>4 DEF Listening
<1>9. \A d \in Clients : \A n \in Miners :
        /\ Says(n, d)' <=> Says(n, d)
        /\ miner'[n].pc = "reply" /\ miner'[n].client = d =>
             miner[n].pc = "reply" /\ miner[n].client = d
  <2> TAKE d \in Clients
  <2> TAKE n \in Miners
  <2>1. \/ miner'[n] = miner[n]
        \/ miner'[n].pc # "reply" /\ miner[n].pc # "reply"
    BY <1>8
  <2> QED BY <2>1, SameAnswer
<1>10. \A d \in Clients : Bystander(d)
  BY <1>1, <1>7, <1>8, <1>9 DEF Bystander, clientVars
<1>11. \A d \in Clients : ClientInv(d)'
  BY <1>0, <1>10, BystanderInv DEF IInv
<1> QED BY <1>5, <1>6, <1>11 DEF IInv

\* The client that a thread serves.
LEMMA ServedClient ==
  ASSUME TypeOK, NEW m \in Miners, miner[m].pc \in {"recv", "reply"}
  PROVE  /\ miner[m].client \in Clients /\ miner[m].client \in Unanswered(m)
         /\ miner[m].pc = "reply" =>
              /\ miner[m].answer \in {"OK", "ERR"}
              /\ miner[m] = [pc |-> "reply", client |-> miner[m].client,
                             answer |-> miner[m].answer]
<1>1. miner[m] \in [pc : {"recv"}, client : Clients] \cup
                   [pc : {"reply"}, client : Clients, answer : {"OK", "ERR"}]
  BY DEF TypeOK, MinerState
<1> QED BY <1>1 DEF Unanswered

\* While its connection is with a thread that has not decided, a client's
\* transaction is with nobody.
LEMMA UndecidedNotTaken ==
  ASSUME IInv, NEW m \in Miners, NEW c \in Clients, c \in Unanswered(m), ~Says(m, c)
  PROVE  \A n \in Miners : <<c, made[c]>> \notin taken[n] /\ ~Says(n, c)
<1>1. ClientInv(c)
  BY DEF IInv
<1>2. \A n \in Miners : c \in Unanswered(n) => n = m
  BY <1>1 DEF ClientInv, WaitsForMiner
<1>3. \A n \in Miners : ~Says(n, c)
  <2> SUFFICES ASSUME NEW n \in Miners, Says(n, c) PROVE FALSE
    OBVIOUS
  <2>1. c \in Unanswered(n)
    BY DEF Says, Unanswered
  <2> QED BY <1>2, <2>1
<1> QED BY <1>1, <1>3 DEF ClientInv, TakenOf, Says

\* A transaction is put into the pool of one miner, which is about to say so.
LEMMA HandleTxSubmitInv ==
  ASSUME IInv, NEW m \in Miners, HandleTxSubmit(m)
  PROVE  IInv'
<1>0. TypeOK /\ OnePlace /\ miner[m].pc = "recv"
  BY DEF IInv, HandleTxSubmit
<1>1. PICK c \in Clients : c = miner[m].client /\ c \in Unanswered(m)
  BY <1>0, ServedClient
<1>2. UNCHANGED <<clientVars, conn, backlog, shutdown, steady>>
  BY DEF HandleTxSubmit
<1>3. CASE /\ ~conn[c].written /\ client[c].pc = "killed"
           /\ SetMiner(m, NextPoll(m)) /\ UNCHANGED taken
  <2>1. PICK pc \in {"poll", "closing"} : miner' = [miner EXCEPT ![m] = At(pc)]
    BY <1>3 DEF SetMiner, NextPoll
  <2>2. miner'[m] = At(pc) /\ miner'[m].pc = pc /\ \A n \in Miners \ {m} : miner'[n] = miner[n]
    BY <1>0, <2>1 DEF TypeOK, At
  <2>3. TypeOK'
    <3>1. At(pc) \in MinerState
      BY DEF At, MinerState
    <3>2. miner' \in [Miners -> MinerState]
      BY <1>0, <2>1, <3>1 DEF TypeOK
    <3> QED BY <1>0, <1>2, <1>3, <3>2 DEF TypeOK, clientVars
  <2>4. OnePlace'
    BY <1>0, <1>2, <2>2 DEF OnePlace
  <2>5. \A n \in Miners : Unanswered(n)' \subseteq Unanswered(n)
    <3>1. Unanswered(m)' \subseteq Unanswered(m)
      BY <1>2, <2>2 DEF Unanswered
    <3> QED BY <1>2, <2>2, <3>1 DEF Unanswered
  <2>6. \A n \in Miners :
          /\ Listening(n) => Listening(n)'
          /\ miner[n].pc = "killed" => miner'[n].pc = "killed"
          /\ \/ miner'[n] = miner[n]
             \/ miner'[n].pc # "reply" /\ miner[n].pc # "reply"
    BY <1>0, <2>2 DEF Listening
  <2>7. \A d \in Clients : \A n \in Miners :
          /\ Says(n, d)' <=> Says(n, d)
          /\ miner'[n].pc = "reply" /\ miner'[n].client = d =>
               miner[n].pc = "reply" /\ miner[n].client = d
    BY <2>6, SameAnswer
  <2>8. \A d \in Clients : Bystander(d)
    BY <1>2, <1>3, <2>5, <2>6, <2>7 DEF Bystander, clientVars
  <2>9. \A d \in Clients : ClientInv(d)'
    BY <1>0, <2>8, BystanderInv DEF IInv
  <2> QED BY <2>3, <2>4, <2>9 DEF IInv
<1>4. CASE /\ conn[c].written
           /\ \E a \in {"OK", "ERR"} :
                /\ SetMiner(m, [pc |-> "reply", client |-> c, answer |-> a])
                /\ taken' = IF a = "OK" THEN [taken EXCEPT ![m] = @ \cup {<<c, made[c]>>}]
                                        ELSE taken
  <2>1. PICK a \in {"OK", "ERR"} :
          /\ miner' = [miner EXCEPT ![m] = [pc |-> "reply", client |-> c, answer |-> a]]
          /\ taken' = IF a = "OK" THEN [taken EXCEPT ![m] = @ \cup {<<c, made[c]>>}] ELSE taken
    BY <1>4 DEF SetMiner
  <2>2. /\ miner'[m] = [pc |-> "reply", client |-> c, answer |-> a]
        /\ miner'[m].pc = "reply" /\ miner'[m].client = c
        /\ \A n \in Miners \ {m} : miner'[n] = miner[n]
    BY <1>0, <2>1 DEF TypeOK
  <2>3. /\ taken'[m] = IF a = "OK" THEN taken[m] \cup {<<c, made[c]>>} ELSE taken[m]
        /\ \A n \in Miners \ {m} : taken'[n] = taken[n]
    BY <1>0, <2>1 DEF TypeOK
  <2>4. TypeOK'
    <3>1. [pc |-> "reply", client |-> c, answer |-> a] \in MinerState
      BY DEF MinerState
    <3>2. miner' \in [Miners -> MinerState]
      BY <1>0, <2>1, <3>1 DEF TypeOK
    <3>3. <<c, made[c]>> \in Clients \X Nat
      BY <1>0 DEF TypeOK
    <3>4. taken' \in [Miners -> SUBSET (Clients \X Nat)]
      BY <1>0, <2>1, <3>3 DEF TypeOK
    <3> QED BY <1>0, <1>2, <3>2, <3>4 DEF TypeOK, clientVars
  <2>5. OnePlace'
    BY <1>0, <1>1, <1>2, <2>2 DEF OnePlace
  <2>6. \A n \in Miners : Unanswered(n)' = Unanswered(n)
    <3>1. Unanswered(m)' = Unanswered(m)
      BY <1>0, <1>1, <1>2, <2>2 DEF Unanswered
    <3> QED BY <1>2, <2>2, <3>1 DEF Unanswered
  <2>7. \A n \in Miners : (Listening(n) => Listening(n)')
                        /\ (miner[n].pc = "killed" => miner'[n].pc = "killed")
    BY <1>0, <2>2 DEF Listening
  <2>8. ASSUME NEW d \in Clients \ {c} PROVE ClientInv(d)'
    <3>1. \A n \in Miners : \A tx \in taken'[n] : tx[1] = d => tx \in taken[n]
      BY <2>3
    <3>2. \A n \in Miners : <<d, made[d]>> \in taken[n] => <<d, made[d]>> \in taken'[n]
      BY <2>3
    <3>3. ASSUME NEW n \in Miners
          PROVE  /\ miner'[n].pc = "reply" /\ miner'[n].client = d =>
                      miner[n].pc = "reply" /\ miner[n].client = d
                 /\ Says(n, d)' <=> Says(n, d)
      <4>1. CASE n = m
        <5>1. ~Says(n, d) /\ ~Says(n, d)'
          BY <1>0, <2>2, <4>1 DEF Says
        <5> QED BY <2>2, <4>1, <5>1
      <4>2. CASE n # m
        BY <2>2, <4>2 DEF Says
      <4> QED BY <4>1, <4>2
    <3>4. Bystander(d)
      BY <1>2, <2>6, <2>7, <3>1, <3>2, <3>3 DEF Bystander, clientVars
    <3> QED BY <1>0, <3>4, BystanderInv DEF IInv
  <2>9. ~Says(m, c)
    BY <1>0 DEF Says
  <2>10. \A n \in Miners : <<c, made[c]>> \notin taken[n] /\ ~Says(n, c)
    BY <1>1, <2>9, UndecidedNotTaken
  <2>11. /\ ClientInv(c) /\ MinerId(c)' = MinerId(c) /\ (Submitting(c)' <=> Submitting(c))
         /\ made'[c] = made[c] /\ client'[c] = client[c] /\ conn'[c] = conn[c]
         /\ outcome'[c] = outcome[c] /\ steady'[c] = steady[c] /\ shutdown' = shutdown
         /\ next_miner'[c] = next_miner[c] /\ served'[c] = served[c]
    BY <1>2 DEF IInv, MinerId, Position, Submitting, clientVars
  <2>12. WaitsForMiner(c)'
    BY <1>1, <1>4, <2>2, <2>6, <2>11 DEF ClientInv, WaitsForMiner
  <2>13. ConnectionOf(c)' /\ SearchOf(c)' /\ RobinOf(c)'
    <3>1. ConnectionOf(c)' /\ RobinOf(c)'
      BY <2>11 DEF ClientInv, ConnectionOf, RobinOf
    <3>2. \A n \in steady'[c] : Listening(n)'
      BY <1>0, <2>7, <2>11 DEF ClientInv, SearchOf, TypeOK
    <3> QED BY <2>11, <3>1, <3>2 DEF ClientInv, SearchOf
  <2>14. TakenOf(c)'
    <3>1. ASSUME NEW n \in Miners, NEW tx \in taken'[n], tx[1] = c
          PROVE  /\ tx[2] <= made[c]
                 /\ \A k \in Miners : tx \in taken'[k] => k = n
      <4>1. CASE tx = <<c, made[c]>>
        <5>1. made[c] \in Nat
          BY <1>0 DEF TypeOK
        <5>2. tx[2] <= made[c]
          BY <4>1, <5>1
        <5> QED BY <2>3, <2>10, <3>1, <4>1, <5>2
      <4>2. CASE tx # <<c, made[c]>>
        BY <2>3, <2>11, <3>1, <4>2 DEF ClientInv, TakenOf
      <4> QED BY <4>1, <4>2
    <3>2. \A n \in Miners : <<c, made[c]>> \in taken'[n] => n = m /\ a = "OK"
      BY <2>3, <2>10
    <3>3. \A n \in Miners : Says(n, c)' => n = m /\ a = "OK"
      BY <2>2, <2>10 DEF Says
    <3>4. client[c].pc \in {"write", "await", "killed"} /\ conn[c].answer = "none"
      BY <1>1, <2>11 DEF ClientInv, WaitsForMiner
    <3>5. a = "OK" => <<c, made[c]>> \in taken'[m] /\ Says(m, c)'
      BY <2>2, <2>3 DEF Says
    <3> QED BY <2>11, <3>1, <3>2, <3>3, <3>4, <3>5 DEF TakenOf, Says
  <2> QED BY <2>4, <2>5, <2>8, <2>11, <2>12, <2>13, <2>14 DEF IInv, ClientInv
<1> QED
  <2>1. CASE /\ ~conn[c].written /\ client[c].pc = "killed"
             /\ SetMiner(m, NextPoll(m)) /\ UNCHANGED <<mempool, taken>>
    BY <1>3, <2>1
  <2>2. CASE ~(/\ ~conn[c].written /\ client[c].pc = "killed"
               /\ SetMiner(m, NextPoll(m)) /\ UNCHANGED <<mempool, taken>>)
    <3>1. CASE Cardinality(mempool[m]) < MEMPOOL_CAPACITY
      BY <1>1, <1>4, <2>2, <3>1 DEF HandleTxSubmit
    <3>2. CASE ~(Cardinality(mempool[m]) < MEMPOOL_CAPACITY)
      BY <1>1, <1>4, <2>2, <3>2 DEF HandleTxSubmit
    <3> QED BY <3>1, <3>2
  <2> QED BY <2>1, <2>2

\* A miner answers a client that waits for it, and tells it the truth.
LEMMA AnswerInv ==
  ASSUME IInv, NEW m \in Miners, miner[m].pc = "reply",
         client[miner[m].client].pc # "killed",
         conn' = [conn EXCEPT ![miner[m].client].answer = miner[m].answer],
         SetMiner(m, NextPoll(m)),
         UNCHANGED <<clientVars, backlog, taken, shutdown, steady>>
  PROVE  IInv'
<1>0. TypeOK /\ OnePlace
  BY DEF IInv
<1>1. PICK c \in Clients :
        /\ c = miner[m].client /\ c \in Unanswered(m)
        /\ miner[m].answer \in {"OK", "ERR"}
        /\ miner[m] = [pc |-> "reply", client |-> c, answer |-> miner[m].answer]
  BY <1>0, ServedClient
<1> DEFINE a == miner[m].answer
<1>2. PICK pc \in {"poll", "closing"} : miner' = [miner EXCEPT ![m] = At(pc)]
  BY DEF SetMiner, NextPoll
<1>3. miner'[m] = At(pc) /\ miner'[m].pc = pc /\ \A n \in Miners \ {m} : miner'[n] = miner[n]
  BY <1>0, <1>2 DEF TypeOK, At
<1>4. /\ conn'[c].answer = a /\ conn'[c].written = conn[c].written
      /\ \A d \in Clients \ {c} : conn'[d] = conn[d]
      /\ conn' \in [Clients -> [written : BOOLEAN, answer : {"none", "eof", "OK", "ERR"}]]
  BY <1>0, <1>1 DEF TypeOK
<1>5. TypeOK'
  <2>1. At(pc) \in MinerState
    BY DEF At, MinerState
  <2>2. miner' \in [Miners -> MinerState]
    BY <1>0, <1>2, <2>1 DEF TypeOK
  <2> QED BY <1>0, <1>4, <2>2 DEF TypeOK, clientVars
<1>6. OnePlace'
  BY <1>0, <1>3 DEF OnePlace
<1>7. c \notin Range(backlog[m])
  BY <1>0, <1>1 DEF OnePlace
<1>8. \A n \in Miners : Unanswered(n)' \subseteq Unanswered(n)
  <2>1. Unanswered(m)' = Range(backlog[m])
    BY <1>3 DEF Unanswered
  <2>2. Unanswered(m)' \subseteq Unanswered(m)
    BY <2>1 DEF Unanswered
  <2> QED BY <1>3, <2>2 DEF Unanswered
<1>9. ClientInv(c)
  BY DEF IInv
<1>10. \A n \in Miners : c \notin Unanswered(n)'
  <2>1. c \notin Unanswered(m)'
    BY <1>3, <1>7 DEF Unanswered
  <2>2. \A n \in Miners : c \in Unanswered(n) => n = m
    BY <1>1, <1>9 DEF ClientInv, WaitsForMiner
  <2> QED BY <1>8, <2>1, <2>2
<1>11. \A n \in Miners :
         /\ Listening(n) => Listening(n)'
         /\ miner[n].pc = "killed" => miner'[n].pc = "killed"
  BY <1>3 DEF Listening
<1>12. ASSUME NEW d \in Clients \ {c} PROVE ClientInv(d)'
  <2>1. ASSUME NEW n \in Miners
        PROVE  /\ miner'[n].pc = "reply" /\ miner'[n].client = d =>
                    miner[n].pc = "reply" /\ miner[n].client = d
               /\ Says(n, d)' <=> Says(n, d)
    <3>1. CASE n = m
      <4>1. ~Says(n, d) /\ ~Says(n, d)'
        BY <1>1, <1>3, <3>1 DEF Says
      <4> QED BY <1>3, <3>1, <4>1
    <3>2. CASE n # m
      BY <1>3, <3>2 DEF Says
    <3> QED BY <3>1, <3>2
  <2>2. Bystander(d)
    BY <1>4, <1>8, <1>11, <2>1 DEF Bystander, clientVars
  <2> QED BY <1>0, <2>2, BystanderInv DEF IInv
<1>13. /\ MinerId(c)' = MinerId(c) /\ (Submitting(c)' <=> Submitting(c))
       /\ made'[c] = made[c] /\ client'[c] = client[c] /\ outcome'[c] = outcome[c]
       /\ next_miner'[c] = next_miner[c] /\ served'[c] = served[c]
  BY DEF MinerId, Position, Submitting, clientVars
<1>14. client[c].pc = "await" /\ conn[c].answer = "none"
  <2>1. conn[c].written /\ client[c].pc \in {"write", "await", "killed"} /\ conn[c].answer = "none"
    BY <1>1, <1>9 DEF ClientInv, WaitsForMiner
  <2> QED BY <1>1, <1>9, <2>1 DEF ClientInv, ConnectionOf
<1>15. \A n \in Miners : ~Says(n, c)'
  <2> SUFFICES ASSUME NEW n \in Miners, Says(n, c)' PROVE FALSE
    OBVIOUS
  <2>1. c \in Unanswered(n)'
    BY DEF Says, Unanswered
  <2> QED BY <1>10, <2>1
<1>16. WaitsForMiner(c)'
  BY <1>10 DEF WaitsForMiner
<1>17. ConnectionOf(c)'
  BY <1>1, <1>4, <1>13, <1>14 DEF ConnectionOf
<1>18. SearchOf(c)' /\ RobinOf(c)'
  <2>1. \A n \in steady'[c] : Listening(n)'
    BY <1>0, <1>9, <1>11 DEF ClientInv, SearchOf, TypeOK
  <2> QED BY <1>9, <1>13, <2>1 DEF ClientInv, SearchOf, RobinOf
<1>19. TakenOf(c)'
  <2>1. a = "OK" => <<c, made[c]>> \in taken[m]
    BY <1>1, <1>9 DEF ClientInv, TakenOf
  <2>2. a = "ERR" => \A n \in Miners : <<c, made[c]>> \notin taken[n]
    <3>1. a = "ERR" => ~Says(m, c)
      BY <1>1 DEF Says
    <3> QED BY <1>1, <3>1, UndecidedNotTaken
  <2>3. a \in {"OK", "ERR"}
    BY <1>1
  <2> QED BY <1>4, <1>9, <1>10, <1>13, <1>14, <1>15, <2>1, <2>2, <2>3 DEF ClientInv, TakenOf, Says
<1> QED BY <1>5, <1>6, <1>12, <1>16, <1>17, <1>18, <1>19 DEF IInv, ClientInv

\* A miner that stops listening breaks the connections it has not answered,
\* and has taken nothing that came over them, or has taken it to the grave.
LEMMA StopsListeningInv ==
  ASSUME IInv, NEW m \in Miners, StopsListening(m, Unanswered(m)),
         \/ miner' = [miner EXCEPT ![m] = At("killed")] /\ taken' = [taken EXCEPT ![m] = {}]
         \/ /\ miner[m].pc \in {"closing", "poll"}
            /\ miner' = [miner EXCEPT ![m] = At("unlink")] /\ taken' = taken,
         UNCHANGED <<clientVars, shutdown>>
  PROVE  IInv'
<1>0. TypeOK /\ OnePlace
  BY DEF IInv
<1>1. /\ miner'[m].pc \in {"killed", "unlink"}
      /\ \A n \in Miners \ {m} : miner'[n] = miner[n] /\ taken'[n] = taken[n]
      /\ miner'[m].pc = "killed" => taken'[m] = {}
      /\ miner'[m].pc = "unlink" => taken'[m] = taken[m] /\ miner[m].pc \in {"closing", "poll"}
  BY <1>0 DEF TypeOK, At
<1>2. /\ backlog' = [backlog EXCEPT ![m] = <<>>]
      /\ conn' = [c \in Clients |->
           IF c \in Unanswered(m) THEN [conn[c] EXCEPT !.answer = "eof"] ELSE conn[c]]
      /\ steady' = [c \in Clients |-> steady[c] \ {m}]
  BY DEF StopsListening
<1>3. backlog'[m] = <<>> /\ \A n \in Miners \ {m} : backlog'[n] = backlog[n]
  BY <1>0, <1>2 DEF TypeOK
<1>4. \A c \in Clients :
        /\ steady'[c] = steady[c] \ {m}
        /\ c \notin Unanswered(m) => conn'[c] = conn[c]
        /\ c \in Unanswered(m) => /\ conn'[c].answer = "eof"
                                  /\ conn'[c].written = conn[c].written
  BY <1>0, <1>2 DEF TypeOK
<1>5. TypeOK'
  <2>1. At("killed") \in MinerState /\ At("unlink") \in MinerState
    BY DEF At, MinerState
  <2>2. miner' \in [Miners -> MinerState] /\ taken' \in [Miners -> SUBSET (Clients \X Nat)]
    BY <1>0, <2>1 DEF TypeOK
  <2>3. backlog' \in [Miners -> Seq(Clients)] /\ steady' \in [Clients -> SUBSET Miners]
    BY <1>0, <1>2 DEF TypeOK
  <2>4. conn' \in [Clients -> [written : BOOLEAN, answer : {"none", "eof", "OK", "ERR"}]]
    <3> DEFINE Conns == [written : BOOLEAN, answer : {"none", "eof", "OK", "ERR"}]
    <3>1. ASSUME NEW c \in Clients
          PROVE  conn[c] \in Conns /\ [conn[c] EXCEPT !.answer = "eof"] \in Conns
      <4>1. conn[c] \in Conns
        BY <1>0 DEF TypeOK
      <4>2. [conn[c] EXCEPT !.answer = "eof"] = [written |-> conn[c].written, answer |-> "eof"]
        BY <4>1
      <4> QED BY <4>1, <4>2
    <3> HIDE DEF Conns
    <3>2. conn' \in [Clients -> Conns]
      BY <1>2, <3>1
    <3> QED BY <3>2 DEF Conns
  <2> QED BY <1>0, <2>2, <2>3, <2>4 DEF TypeOK, clientVars
<1>6. OnePlace'
  <2>1. Len(backlog'[m]) = 0 /\ miner'[m].pc \notin {"recv", "reply"}
    BY <1>1, <1>3
  <2> QED BY <1>0, <1>1, <1>3, <2>1 DEF OnePlace
<1>7. /\ Unanswered(m)' = {}
      /\ \A n \in Miners \ {m} : Unanswered(n)' = Unanswered(n)
  <2>1. Unanswered(m)' = Range(<<>>) \cup {}
    BY <1>1, <1>3 DEF Unanswered
  <2>2. Range(<<>>) = {}
    BY DEF Range
  <2>3. \A n \in Miners \ {m} : Unanswered(n)' = Unanswered(n)
    BY <1>1, <1>3 DEF Unanswered
  <2> QED BY <2>1, <2>2, <2>3
<1>8. \A n \in Miners \ {m} : Listening(n)' <=> Listening(n)
  BY <1>1 DEF Listening
<1>9. \A c \in Clients : ~Says(m, c)' /\ (Says(m, c) => c \in Unanswered(m) /\ taken'[m] = {})
  <2> TAKE c \in Clients
  <2>1. ~Says(m, c)'
    BY <1>1 DEF Says
  <2>2. ASSUME Says(m, c) PROVE c \in Unanswered(m) /\ miner[m].pc = "reply"
    BY <2>2 DEF Says, Unanswered
  <2> QED BY <1>1, <2>1, <2>2
<1>10. \A n \in Miners \ {m}, c \in Clients : Says(n, c)' <=> Says(n, c)
  BY <1>1 DEF Says
<1>11. ASSUME NEW c \in Clients, c \notin Unanswered(m) PROVE ClientInv(c)'
  <2>1. ASSUME NEW n \in Miners
        PROVE  /\ c \in Unanswered(n)' => c \in Unanswered(n)
               /\ miner'[n].pc = "reply" /\ miner'[n].client = c =>
                    miner[n].pc = "reply" /\ miner[n].client = c
               /\ Listening(n) => Listening(n)' \/ n \notin steady'[c]
    BY <1>1, <1>4, <1>7, <1>8
  <2>2. ASSUME NEW n \in Miners
        PROVE  /\ Says(n, c)' => Says(n, c)
               /\ Says(n, c) => Says(n, c)' \/ taken'[n] = {}
    BY <1>9, <1>10
  <2>3. ASSUME NEW n \in Miners
        PROVE  /\ taken'[n] \subseteq taken[n]
               /\ <<c, made[c]>> \in taken[n] =>
                    <<c, made[c]>> \in taken'[n] \/ miner'[n].pc = "killed"
    BY <1>1
  <2>4. ASSUME NEW n \in Miners, miner[n].pc = "killed" PROVE miner'[n].pc = "killed"
    BY <1>1, <2>4
  <2>5. Bystander(c)
    BY <1>4, <1>11, <2>1, <2>2, <2>3, <2>4 DEF Bystander, clientVars
  <2> QED BY <1>0, <2>5, BystanderInv DEF IInv
<1>12. ASSUME NEW c \in Clients, c \in Unanswered(m) PROVE ClientInv(c)'
  <2>0. ClientInv(c)
    BY DEF IInv
  <2>1. /\ client[c].pc \in {"write", "await", "killed"}
        /\ client[c].pc # "killed" => MinerId(c) = m
        /\ \A n \in Miners : c \in Unanswered(n) => n = m
    BY <1>12, <2>0 DEF ClientInv, WaitsForMiner
  <2>2. \A n \in Miners : c \notin Unanswered(n)'
    BY <1>7, <2>1
  <2>3. /\ MinerId(c)' = MinerId(c) /\ (Submitting(c)' <=> Submitting(c))
        /\ made'[c] = made[c] /\ client'[c] = client[c] /\ outcome'[c] = outcome[c]
        /\ next_miner'[c] = next_miner[c] /\ served'[c] = served[c]
    BY DEF MinerId, Position, Submitting, clientVars
  <2>4. WaitsForMiner(c)'
    BY <2>2 DEF WaitsForMiner
  <2>5. ConnectionOf(c)'
    BY <1>4, <1>12, <2>0, <2>1, <2>3 DEF ClientInv, ConnectionOf, Submitting
  <2>6. \A n \in Miners : ~Says(n, c)'
    <3> SUFFICES ASSUME NEW n \in Miners, Says(n, c)' PROVE FALSE
      OBVIOUS
    <3>1. c \in Unanswered(n)'
      BY DEF Says, Unanswered
    <3> QED BY <2>2, <3>1
  <2>7. \A n \in Miners : <<c, made[c]>> \notin taken'[n]
    <3> SUFFICES ASSUME NEW n \in Miners, <<c, made[c]>> \in taken'[n] PROVE FALSE
      OBVIOUS
    <3>1. <<c, made[c]>> \in taken[n]
      BY <1>1
    <3>2. Says(n, c)
      BY <1>12, <2>0, <3>1 DEF ClientInv, TakenOf, Says
    <3>3. n = m
      BY <1>10, <2>6, <3>2
    <3> QED BY <1>9, <3>2, <3>3
  <2>8. TakenOf(c)'
    <3>1. \A n \in Miners : taken'[n] \subseteq taken[n]
      BY <1>1
    <3>2. \A n \in Miners : \A tx \in taken'[n] : tx[1] = c =>
            /\ tx[2] <= made'[c]
            /\ \A k \in Miners : tx \in taken'[k] => k = n
      BY <2>0, <2>3, <3>1 DEF ClientInv, TakenOf
    <3> QED BY <1>4, <1>12, <2>1, <2>3, <2>6, <2>7, <3>2 DEF TakenOf, Says
  <2>9. SearchOf(c)'
    <3>1. \A n \in steady'[c] : Listening(n)'
      BY <1>0, <1>4, <1>8, <2>0 DEF ClientInv, SearchOf, TypeOK
    <3>2. steady'[c] \subseteq steady[c]
      BY <1>4
    <3> QED BY <2>0, <2>1, <2>3, <3>1, <3>2 DEF ClientInv, SearchOf
  <2>10. RobinOf(c)'
    BY <2>0, <2>3 DEF ClientInv, RobinOf
  <2> QED BY <2>4, <2>5, <2>8, <2>9, <2>10 DEF ClientInv
<1> QED BY <1>5, <1>6, <1>11, <1>12 DEF IInv

-----------------------------------------------------------------------------
(* The theorems.                                                           *)

LEMMA InitOK == Init => IInv
<1> SUFFICES ASSUME Init PROVE IInv
  OBVIOUS
<1>1. TypeOK
  <2>1. /\ At("idle") \in ClientState /\ At("starting") \in MinerState
        /\ NoConn \in [written : BOOLEAN, answer : {"none", "eof", "OK", "ERR"}]
    BY DEF At, ClientState, MinerState, NoConn
  <2>2. Nobody \in [miner : Nat, ids : Seq(Miners)]
    BY ClientAssumption DEF Nobody
  <2> QED BY <2>1, <2>2 DEF Init, TypeOK
<1>2. \A m \in Miners :
        /\ backlog[m] = <<>> /\ miner[m] = At("starting")
        /\ miner[m].pc = "starting" /\ Len(backlog[m]) = 0
  BY DEF Init, At
<1>3. OnePlace
  BY <1>2 DEF OnePlace
<1>4. \A m \in Miners : Unanswered(m) = {}
  BY <1>2 DEF Unanswered, Range
<1>5. ASSUME NEW c \in Clients PROVE ClientInv(c)
  <2>1. client[c].pc = "idle" /\ ~Submitting(c)
    BY DEF Init, At, Submitting
  <2>2. \A m \in Miners : ~Says(m, c)
    BY <1>2 DEF Says
  <2>3. outcome[c] = "none" /\ \A m \in Miners : taken[m] = {}
    BY DEF Init
  <2>4. WaitsForMiner(c) /\ ConnectionOf(c)
    BY <1>4, <2>1 DEF WaitsForMiner, ConnectionOf, Init
  <2>5. TakenOf(c)
    BY <2>1, <2>2, <2>3 DEF TakenOf, Says
  <2>6. SearchOf(c) /\ RobinOf(c)
    BY <2>1 DEF SearchOf, RobinOf, Init, Nobody
  <2> QED BY <2>4, <2>5, <2>6 DEF ClientInv
<1> QED BY <1>1, <1>3, <1>5 DEF IInv

LEMMA Inductive == IInv /\ [Next]_vars => IInv'
<1> SUFFICES ASSUME IInv, [Next]_vars PROVE IInv'
  OBVIOUS
<1>1. ASSUME NEW c \in Clients, Leave(c) \/ KillClient(c) PROVE IInv'
  BY <1>1, EndsInv
<1>2. ASSUME NEW c \in Clients, Submit(c) PROVE IInv'
  BY <1>2, SubmitInv
<1>3. ASSUME NEW c \in Clients, Connect(c) PROVE IInv'
  BY <1>3, ConnectInv
<1>4. ASSUME NEW c \in Clients, Write(c) PROVE IInv'
  BY <1>4, WriteInv
<1>5. ASSUME NEW c \in Clients, Receive(c) PROVE IInv'
  BY <1>5, ReceiveInv
<1>6. ASSUME NEW c \in Clients, TerminateClient(c) PROVE IInv'
  BY <1>6, TerminateClientInv
<1>7. ASSUME NEW m \in Miners, Bind(m) \/ Listen(m) \/ Unlink(m) PROVE IInv'
  BY <1>7, SmallStepsInv
<1>8. ASSUME NEW m \in Miners, Accept(m) PROVE IInv'
  BY <1>8, AcceptInv
<1>9. ASSUME NEW m \in Miners, HandleTxSubmit(m) PROVE IInv'
  BY <1>9, HandleTxSubmitInv
<1>10. ASSUME NEW m \in Miners, Reply(m) PROVE IInv'
  <2>1. CASE client[miner[m].client].pc = "killed"
    BY <1>10, <2>1, StopsListeningInv DEF Reply, Killed, SetMiner
  <2>2. CASE client[miner[m].client].pc # "killed"
    BY <1>10, <2>2, AnswerInv DEF Reply
  <2> QED BY <2>1, <2>2
<1>11. ASSUME NEW m \in Miners, CloseServer(m) PROVE IInv'
  BY <1>11, StopsListeningInv DEF CloseServer, SetMiner
<1>12. ASSUME NEW m \in Miners, KillMiner(m) PROVE IInv'
  BY <1>12, StopsListeningInv DEF KillMiner, Killed, SetMiner
<1>13. ASSUME NEW m \in Miners, HandleBlockCommit(m) \/ TerminateMiner(m) PROVE IInv'
  BY <1>13, NobodysStepInv DEF HandleBlockCommit, TerminateMiner, minerVars
<1>14. CASE UNCHANGED vars
  BY <1>14, NobodysStepInv DEF vars, minerVars
<1> QED
  BY <1>1, <1>2, <1>3, <1>4, <1>5, <1>6, <1>7, <1>8, <1>9, <1>10, <1>11, <1>12, <1>13, <1>14
  DEF Next, ClientStep, MinerStep

\* The inductive invariant holds in every state of the clients and miners.
THEOREM Invariance == Spec => []IInv
  BY InitOK, Inductive, PTL DEF Spec

\* A client's retries never leave its transaction with two living miners,
\* whichever miners are killed, close or fill up meanwhile.
THEOREM RetriesAreSafe == Spec => []AcceptedOnce
<1>1. IInv => AcceptedOnce
  <2> SUFFICES ASSUME IInv, NEW tx \in Tx
               PROVE  Cardinality({m \in Miners : tx \in taken[m]}) <= 1
    BY DEF AcceptedOnce
  <2> DEFINE Holders == {m \in Miners : tx \in taken[m]}
  <2>1. tx[1] \in Clients
    BY DEF Tx
  <2>2. \A m, n \in Holders : m = n
    BY <2>1 DEF IInv, ClientInv, TakenOf
  <2>3. Holders = {} \/ \E m : Holders = {m}
    BY <2>2
  <2> HIDE DEF Holders
  <2>4. Cardinality(Holders) = 0 \/ Cardinality(Holders) = 1
    BY <2>3, FS_EmptySet, FS_Singleton
  <2> QED BY <2>4 DEF Holders
<1> QED BY <1>1, Invariance, PTL

\* What a client logs of a submission is where its transaction is.
THEOREM LogIsTrue == Spec => []OutcomeIsTrue
<1>1. IInv => OutcomeIsTrue
  <2> SUFFICES ASSUME IInv, NEW c \in Clients, client[c].pc \in {"idle", "done"}
               PROVE  LET Holders == {m \in Miners : <<c, made[c]>> \in taken[m]}
                      IN /\ outcome[c] = "accepted" =>
                              \E m \in Miners : m \in Holders \/ miner[m].pc = "killed"
                         /\ outcome[c] \in {"rejected", "unavailable"} => Holders = {}
    BY DEF OutcomeIsTrue
  <2>1. outcome[c] = "accepted" =>
          \E m \in Miners : <<c, made[c]>> \in taken[m] \/ miner[m].pc = "killed"
    BY DEF IInv, ClientInv, TakenOf
  <2>2. outcome[c] \in {"rejected", "unavailable"} =>
          \A m \in Miners : <<c, made[c]>> \notin taken[m]
    BY NotTaken
  <2> QED BY <2>1, <2>2
<1> QED BY <1>1, Invariance, PTL

\* submit_transaction gives up only when no miner it discovered has listened
\* all the time.
THEOREM SearchIsComplete == Spec => []RemainingMinersServe
<1>1. IInv => RemainingMinersServe
  BY DEF IInv, ClientInv, SearchOf, RemainingMinersServe
<1> QED BY <1>1, Invariance, PTL

\* The miner that answered last is the last one tried.
THEOREM RotationIsFair == Spec => []RoundRobin
<1>1. IInv => RoundRobin
  <2> SUFFICES ASSUME IInv, NEW c \in Clients, client[c].pc = "connect",
                      served[c] = [miner |-> MinerId(c), ids |-> client[c].ids]
               PROVE  client[c].attempt = Len(client[c].ids) - 1
    BY DEF RoundRobin
  <2> DEFINE n == Len(client[c].ids)
  <2>0. TypeOK /\ ClientInv(c) /\ Submitting(c)
    BY DEF IInv, Submitting
  <2>1. /\ n \in Nat \ {0} /\ client[c].ids \in Seq(Miners)
        /\ client[c].attempt \in 0..(n - 1) /\ Position(c) \in 0..(n - 1)
    BY <2>0, MinerIdType DEF ClientInv
  <2>2. served[c].ids = client[c].ids /\ served[c].miner = MinerId(c) /\ served[c].ids # <<>>
    BY <2>1
  <2>3. PICK p \in 0..(n - 1) : next_miner[c] = p + 1 /\ MinerId(c) = client[c].ids[p + 1]
    BY <2>0, <2>2 DEF ClientInv, RobinOf
  <2>4. client[c].start = (p + 1) % n
    BY <2>0, <2>3 DEF ClientInv, RobinOf
  <2>5. \A i, j \in 1..n : i < j => client[c].ids[i] < client[c].ids[j]
    BY <2>0 DEF ClientInv, SearchOf
  <2>6. Position(c) = p
    <3>1. client[c].ids[Position(c) + 1] = client[c].ids[p + 1]
      BY <2>3 DEF MinerId
    <3>2. Position(c) + 1 \in 1..n /\ p + 1 \in 1..n
      BY <2>1
    <3>3. client[c].ids[p + 1] \in Nat
      <4>1. Miners \subseteq Nat
        BY ClientAssumption DEF Miners
      <4>2. client[c].ids[p + 1] \in Miners
        BY <2>1, <3>2, ElementOfSeq
      <4> QED BY <4>1, <4>2
    <3>4. ~(Position(c) + 1 < p + 1) /\ ~(p + 1 < Position(c) + 1)
      BY <2>5, <3>1, <3>2, <3>3
    <3> QED BY <2>1, <3>4
  <2>7. (((p + 1) % n) + client[c].attempt) % n = p
    BY <2>4, <2>6 DEF Position
  <2> HIDE DEF n
  <2> QED BY <2>1, <2>3, <2>7, LastPosition DEF n
<1> QED BY <1>1, Invariance, PTL
=============================================================================
