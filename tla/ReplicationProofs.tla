------------------------- MODULE ReplicationProofs -------------------------
(***************************************************************************)
(* Proofs about Replication, for any number of nodes, miners and workers,  *)
(* any set of blocks and any bounds.                                       *)
(***************************************************************************)
EXTENDS Replication, TLAPS, WellFoundedInduction

(* The states of a worker, by their pc.                                    *)

\* The components of a message, by its type.
LEMMA MessageFields ==
  ASSUME NEW msg \in Message
  PROVE  /\ msg.type \in {"BLOCK_PROPOSAL", "BLOCK_COMMIT", "SYNC_REQUEST"}
         /\ msg.type = "BLOCK_PROPOSAL" => msg.miner \in Miners /\ msg.body \in Payload
         /\ msg.type = "BLOCK_COMMIT" => msg.block \in Block
         /\ msg.type = "SYNC_REQUEST" => msg.to \in Requester /\ msg.from \in Nat
BY DEF Message, Proposal, CommitMsg, SyncRequest

\* The locals of a worker, by its program counter.
LEMMA WorkerFields ==
  ASSUME NEW s \in WorkerState
  PROVE  /\ s.pc = "handle" => s.msg \in Message
         /\ s.pc = "broadcast" => s.miner \in Miners /\ s.block \in Block /\ s.peer \in Nat
         /\ s.pc = "reply" => /\ s.miner \in Miners /\ s.ok \in BOOLEAN
                            /\ s.body \in IF s.ok THEN Block ELSE Payload
         /\ s.pc = "serve" => s.to \in Requester /\ s.from \in Nat /\ s.lines \in Seq(Block)
         /\ s.pc \in {"connect", "await"} => s.from \in Nat
         /\ s.pc \in {"synced", "apply"} => /\ s.next \in Nat
                                            /\ s.lines \in Seq(Block) \ {<<>>}
BY DEF WorkerState, Payload

\* The components of the other end of a sync request.
LEMMA RequesterFields ==
  ASSUME NEW c \in Requester
  PROVE  c.node \in Nodes /\ c.worker \in Workers /\ c.life \in Nat
BY DEF Requester

\* The coordinator is one of the nodes.
LEMMA ZeroIsNode == 0 \in Nodes
BY NodeAssumption DEF Nodes

\* A worker may wait for a message.
LEMMA PoppingState == Popping \in WorkerState
BY DEF Popping, WorkerState

\* A worker may hold any message it has popped.
LEMMA HandleState ==
  ASSUME NEW m \in Message PROVE [pc |-> "handle", msg |-> m] \in WorkerState
BY DEF WorkerState

\* A worker may broadcast any block to any peer.
LEMMA BroadcastState ==
  ASSUME NEW m \in Miners, NEW b \in Block, NEW k \in Nat
  PROVE  [pc |-> "broadcast", miner |-> m, block |-> b, peer |-> k] \in WorkerState
BY DEF WorkerState

\* A worker may refuse any payload and accept any block.
LEMMA ReplyState ==
  ASSUME NEW m \in Miners, NEW ok \in BOOLEAN,
         NEW p \in IF ok THEN Block ELSE Payload
  PROVE  [pc |-> "reply", miner |-> m, body |-> p, ok |-> ok] \in WorkerState
BY DEF WorkerState

\* A worker may answer a sync request with any lines.
LEMMA ServeState ==
  ASSUME NEW c \in Requester, NEW k \in Nat, NEW ls \in Seq(Block)
  PROVE  [pc |-> "serve", to |-> c, from |-> k, lines |-> ls] \in WorkerState
BY DEF WorkerState

\* A worker may ask for the blocks from any position on.
LEMMA ConnectState ==
  ASSUME NEW k \in Nat, NEW pc \in {"connect", "await"}
  PROVE  [pc |-> pc, from |-> k] \in WorkerState
BY DEF WorkerState

\* A worker may hold any lines that are not empty.
LEMMA SyncedState ==
  ASSUME NEW k \in Nat, NEW ls \in Seq(Block) \ {<<>>}, NEW pc \in {"synced", "apply"}
  PROVE  [pc |-> pc, next |-> k, lines |-> ls] \in WorkerState
BY DEF WorkerState

-----------------------------------------------------------------------------
(* The lines of a sync response.                                           *)

\* A set with 0 that with n has n + 1 contains every number.
LEMMA Induction ==
  ASSUME NEW S, 0 \in S, \A n \in Nat : n \in S => n + 1 \in S
  PROVE  \A n \in Nat : n \in S
<1> DEFINE T == Nat \ S
<1>1. SUFFICES ASSUME T # {} PROVE FALSE
  OBVIOUS
<1>2. PICK x \in T : \A y \in T : ~(<<y, x>> \in OpToRel(<, Nat))
  BY <1>1, NatLessThanWellFounded, WFMin
<1>3. x \in Nat /\ x \notin S /\ x # 0
  BY <1>2
<1>4. x - 1 \in Nat /\ x - 1 < x
  BY <1>3
<1>5. x - 1 \notin T
  BY <1>2, <1>3, <1>4 DEF OpToRel
<1> QED
  BY <1>3, <1>4, <1>5

\* One round of the loop of handle_sync_request, at block i with buffer buf.
Round(c, from, i, buf) ==
  IF i <= from THEN <<>> ELSE IF Writable(c[i]) THEN Append(buf, c[i]) ELSE buf

\* The buffer after every round, as long as the rounds are counted up to n.
Rounds(c, from, n, g) == g = [i \in 0..n |-> Round(c, from, i, g[i - 1])]

\* The loop ends with the buffer of some run through it.
LEMMA SyncLinesRun ==
  ASSUME NEW c, Len(c) \in Nat, NEW from \in Nat
  PROVE  \E g : Rounds(c, from, Len(c), g) /\ SyncLines(c, from) = g[Len(c)]
<1> DEFINE S == {n \in Nat : \E g : Rounds(c, from, n, g)}
<1>1. 0 \in S
  <2> DEFINE g == [i \in 0..0 |-> <<>>]
  <2>1. Rounds(c, from, 0, g)
    BY DEF Rounds, Round
  <2> QED BY <2>1
<1>2. ASSUME NEW n \in Nat, n \in S PROVE n + 1 \in S
  <2>1. PICK g : Rounds(c, from, n, g)
    BY <1>2
  <2> DEFINE h == [i \in 0..(n + 1) |-> Round(c, from, i, g[i - 1])]
  <2>2. \A i \in 0..n : h[i] = g[i]
    BY <2>1 DEF Rounds
  <2>3. ASSUME NEW i \in 0..(n + 1) PROVE h[i] = Round(c, from, i, h[i - 1])
    <3>1. CASE i = 0
      BY <3>1 DEF Round
    <3>2. CASE i # 0
      <4>1. i - 1 \in 0..n
        BY <3>2
      <4>2. h[i] = Round(c, from, i, g[i - 1]) /\ h[i - 1] = g[i - 1]
        BY <2>2, <4>1
      <4> HIDE DEF h
      <4> QED BY <4>2
    <3> QED BY <3>1, <3>2
  <2>4. h = [i \in 0..(n + 1) |-> h[i]]
    OBVIOUS
  <2> HIDE DEF h
  <2>5. Rounds(c, from, n + 1, h)
    BY <2>3, <2>4 DEF Rounds
  <2> QED BY <2>5
<1> HIDE DEF S
<1>3. Len(c) \in S
  BY <1>1, <1>2, Induction
<1>4. \E g : Rounds(c, from, Len(c), g)
  BY <1>3 DEF S
<1> DEFINE G == CHOOSE g : Rounds(c, from, Len(c), g)
<1>5. SyncLines(c, from) = G[Len(c)]
  BY DEF SyncLines, Rounds, Round
<1>6. Rounds(c, from, Len(c), G)
  BY <1>4
<1> QED BY <1>5, <1>6

\* The lines of a sync response are blocks.
LEMMA SyncLinesType ==
  ASSUME NEW c \in Seq(Block), NEW from \in Nat
  PROVE  SyncLines(c, from) \in Seq(Block)
<1>1. Len(c) \in Nat
  OBVIOUS
<1>2. PICK g : Rounds(c, from, Len(c), g) /\ SyncLines(c, from) = g[Len(c)]
  BY <1>1, SyncLinesRun
<1>3. \A i \in 0..Len(c) : g[i] = Round(c, from, i, g[i - 1])
  BY <1>2 DEF Rounds
<1> DEFINE S == {n \in Nat : n <= Len(c) => g[n] \in Seq(Block)}
<1>4. 0 \in S
  <2>1. g[0] = <<>>
    BY <1>1, <1>3 DEF Round
  <2>2. g[0] \in Seq(Block)
    BY <2>1
  <2> QED BY <2>2
<1>5. ASSUME NEW n \in Nat, n \in S PROVE n + 1 \in S
  <2> SUFFICES ASSUME n + 1 <= Len(c) PROVE g[n + 1] \in Seq(Block)
    OBVIOUS
  <2>1. g[n] \in Seq(Block) /\ n + 1 \in 1..Len(c) /\ n + 1 \in 0..Len(c) /\ (n + 1) - 1 = n
    BY <1>1, <1>5
  <2>2. c[n + 1] \in Block
    BY <2>1
  <2>3. g[n + 1] = Round(c, from, n + 1, g[n])
    BY <1>3, <2>1
  <2> QED BY <2>1, <2>2, <2>3 DEF Round
<1> HIDE DEF S
<1>6. Len(c) \in S
  BY <1>1, <1>4, <1>5, Induction
<1> QED BY <1>1, <1>2, <1>6 DEF S

\* When every block from a position on can be written, none is passed over.
LEMMA SyncLinesComplete ==
  ASSUME NEW c \in Seq(Block), NEW from \in Nat,
         \A i \in 1..Len(c) : i > from => Writable(c[i])
  PROVE  /\ from <= Len(c) => Len(SyncLines(c, from)) = Len(c) - from
         /\ from > Len(c) => SyncLines(c, from) = <<>>
         /\ \A j \in 1..Len(SyncLines(c, from)) : SyncLines(c, from)[j] = c[from + j]
<1>1. Len(c) \in Nat
  OBVIOUS
<1>2. PICK g : Rounds(c, from, Len(c), g) /\ SyncLines(c, from) = g[Len(c)]
  BY <1>1, SyncLinesRun
<1>3. \A i \in 0..Len(c) : g[i] = Round(c, from, i, g[i - 1])
  BY <1>2 DEF Rounds
<1> DEFINE P(n) == /\ g[n] \in Seq(Block)
                   /\ Len(g[n]) = IF n <= from THEN 0 ELSE n - from
                   /\ \A j \in 1..Len(g[n]) : g[n][j] = c[from + j]
           S == {n \in Nat : n <= Len(c) => P(n)}
<1>4. 0 \in S
  <2>1. g[0] = <<>>
    BY <1>1, <1>3 DEF Round
  <2>2. g[0] \in Seq(Block) /\ Len(g[0]) = 0 /\ 0 <= from
    BY <2>1
  <2>3. P(0)
    BY <2>2
  <2> HIDE DEF P
  <2> QED BY <2>3
<1>5. ASSUME NEW n \in Nat, n \in S PROVE n + 1 \in S
  <2> SUFFICES ASSUME n + 1 <= Len(c) PROVE P(n + 1)
    OBVIOUS
  <2>1. P(n) /\ n + 1 \in 1..Len(c) /\ n + 1 \in 0..Len(c) /\ (n + 1) - 1 = n
    BY <1>1, <1>5
  <2>2. g[n + 1] = Round(c, from, n + 1, g[n])
    BY <1>3, <2>1
  <2>3. CASE n + 1 <= from
    <3>1. g[n + 1] = <<>>
      BY <2>2, <2>3 DEF Round
    <3> QED BY <2>3, <3>1
  <2>4. CASE n + 1 > from
    <3>1. c[n + 1] \in Block /\ Writable(c[n + 1])
      BY <2>1, <2>4
    <3>2. g[n + 1] = Append(g[n], c[n + 1])
      BY <2>2, <2>4, <3>1 DEF Round
    <3>3. Len(g[n]) = n - from /\ from + Len(g[n]) = n
      BY <2>1, <2>4
    <3>4. /\ g[n + 1] \in Seq(Block) /\ Len(g[n + 1]) = Len(g[n]) + 1
          /\ \A j \in 1..Len(g[n]) : g[n + 1][j] = g[n][j]
          /\ g[n + 1][Len(g[n]) + 1] = c[n + 1]
      BY <2>1, <3>1, <3>2
    <3>5. Len(g[n]) \in Nat /\ n - from \in Nat
      BY <2>1, <3>3
    <3>6. ASSUME NEW j \in 1..Len(g[n + 1]) PROVE g[n + 1][j] = c[from + j]
      <4>1. CASE j \in 1..Len(g[n])
        BY <2>1, <3>4, <4>1
      <4>2. CASE j = Len(g[n]) + 1
        <5>1. from + j = n + 1
          BY <3>3, <3>5, <4>2
        <5> QED BY <3>4, <4>2, <5>1
      <4> QED BY <3>4, <3>5, <4>1, <4>2
    <3>7. Len(g[n + 1]) = (n + 1) - from
      BY <3>3, <3>4, <3>5
    <3> QED BY <2>4, <3>4, <3>6, <3>7
  <2> QED BY <2>3, <2>4
<1> HIDE DEF S
<1>6. Len(c) \in S
  BY <1>1, <1>4, <1>5, Induction
<1>7. P(Len(c))
  BY <1>1, <1>6 DEF S
<1>8. from > Len(c) => g[Len(c)] = <<>>
  BY <1>1, <1>7
<1>9. from <= Len(c) => Len(g[Len(c)]) = Len(c) - from
  BY <1>1, <1>7
<1> QED BY <1>2, <1>7, <1>8, <1>9

-----------------------------------------------------------------------------
(* Type correctness.                                                       *)

\* A worker's new state is a worker state: what SetWorker leaves.
LEMMA SetWorkerType ==
  ASSUME TypeOK, NEW n \in Nodes, NEW w \in Workers, NEW s \in WorkerState,
         SetWorker(n, w, s)
  PROVE  worker' \in [Nodes -> [Workers -> WorkerState]]
BY DEF TypeOK, SetWorker

\* The end of processes keeps the types.
LEMMA EndType ==
  ASSUME TypeOK, NEW S, End(S)
  PROVE  /\ up' \in [Nodes -> BOOLEAN]
         /\ inbox' \in [Nodes -> Seq(Message)]
         /\ worker' \in [Nodes -> [Workers -> WorkerState]]
<1>1. up' \in [Nodes -> BOOLEAN]
  BY DEF TypeOK, End
<1>2. inbox' \in [Nodes -> Seq(Message)]
  BY DEF TypeOK, End
<1>3. worker' \in [Nodes -> [Workers -> WorkerState]]
  BY PoppingState DEF TypeOK, End
<1> QED BY <1>1, <1>2, <1>3

\* The types are right at the start.
LEMMA InitType == Init => TypeOK
<1> SUFFICES ASSUME Init PROVE TypeOK OBVIOUS
<1>1. worker \in [Nodes -> [Workers -> WorkerState]]
  BY PoppingState DEF Init
<1>2. inbox \in [Nodes -> Seq(Message)]
  BY DEF Init
<1>3. heard \in [Miners -> Ear]
  BY InitialChainAssumption DEF Init, Ear
<1> QED BY <1>1, <1>2, <1>3, InitialChainAssumption, BoundAssumption DEF Init, TypeOK

\* Every step keeps every variable in its type.
LEMMA TypeStep == TypeOK /\ [Next]_vars => TypeOK'
<1> SUFFICES ASSUME TypeOK, [Next]_vars PROVE TypeOK' OBVIOUS
<1>0. CASE UNCHANGED vars
  BY <1>0 DEF vars, TypeOK
<1>1. ASSUME NEW m \in Miners, Propose(m) PROVE TypeOK'
  <2>1. PICK p \in Payload : inbox' = [inbox EXCEPT ![0] =
          Append(@, [type |-> "BLOCK_PROPOSAL", miner |-> m, body |-> p])]
    BY <1>1 DEF Propose
  <2>2. [type |-> "BLOCK_PROPOSAL", miner |-> m, body |-> p] \in Message
    BY DEF Message, Proposal
  <2>3. inbox' \in [Nodes -> Seq(Message)]
    BY <2>1, <2>2, ZeroIsNode DEF TypeOK
  <2>4. proposed' \in 0..MaxProposals
    BY <1>1, BoundAssumption DEF Propose, TypeOK
  <2> QED BY <1>1, <2>3, <2>4 DEF Propose, TypeOK
<1>17. ASSUME NEW m \in Miners, Listen(m) PROVE TypeOK'
  <2>1. heard' \in [Miners -> Ear]
    <3>1. heard[m] \in Ear /\ Len(chain[0]) \in Nat
      BY ZeroIsNode DEF TypeOK
    <3>2. [heard[m] EXCEPT !.socket = "listening", !.since = Len(chain[0])] \in Ear
      BY <3>1 DEF Ear
    <3> QED BY <1>17, <3>2 DEF Listen, TypeOK
  <2> QED BY <1>17, <2>1 DEF Listen, TypeOK
<1>18. ASSUME NEW m \in Miners, StopListening(m) PROVE TypeOK'
  <2>1. heard' \in [Miners -> Ear]
    <3>1. heard[m] \in Ear
      BY DEF TypeOK
    <3>2. [heard[m] EXCEPT !.socket = "closed"] \in Ear
      BY <3>1 DEF Ear
    <3> QED BY <1>18, <3>2 DEF StopListening, TypeOK
  <2>2. CASE UNCHANGED <<up, inbox, worker>>
    BY <1>18, <2>1, <2>2 DEF StopListening, TypeOK
  <2>3. ASSUME NEW T, End({} \cup {0} \cup T) PROVE TypeOK'
    BY <1>18, <2>1, <2>3, EndType DEF StopListening, TypeOK
  <2> QED BY <1>18, <2>2, <2>3 DEF StopListening, MinerSocketGoes, CoordinatorEnds
<1>2. ASSUME NEW m \in Miners, ProposeFails(m) PROVE TypeOK'
  BY <1>2 DEF ProposeFails, TypeOK
<1>3. ASSUME NEW m \in Miners, KillMiner(m) PROVE TypeOK'
  <2>1. CASE UNCHANGED <<up, inbox, worker>>
    BY <1>3, <2>1 DEF KillMiner, TypeOK
  <2>2. ASSUME NEW T, End({} \cup {0} \cup T) PROVE TypeOK'
    BY <1>3, <2>2, EndType DEF KillMiner, TypeOK
  <2> QED BY <1>3, <2>1, <2>2 DEF KillMiner, MinerSocketGoes, CoordinatorEnds
<1>4. ASSUME NEW n \in Nodes, Start(n) PROVE TypeOK'
  BY <1>4, InitialChainAssumption DEF Start, TypeOK
<1>5. ASSUME NEW n \in Nodes, KillNode(n) PROVE TypeOK'
  <2>1. ASSUME NEW S, End(S) PROVE TypeOK'
    BY <1>5, <2>1, EndType DEF KillNode, TypeOK
  <2> QED BY <1>5, <2>1 DEF KillNode, CoordinatorEnds
<1>6. ASSUME NEW n \in Nodes, NEW w \in Workers, Pop(n, w) PROVE TypeOK'
  <2>1. Head(inbox[n]) \in Message /\ Tail(inbox[n]) \in Seq(Message)
    BY <1>6 DEF Pop, TypeOK
  <2>2. worker' \in [Nodes -> [Workers -> WorkerState]]
    BY <1>6, <2>1, HandleState, SetWorkerType DEF Pop
  <2> QED BY <1>6, <2>1, <2>2 DEF Pop, TypeOK
<1>7. ASSUME NEW w \in Workers, HandleProposal(w) PROVE TypeOK'
  <2> DEFINE s == worker[0][w]
  <2>1. s \in WorkerState
    BY ZeroIsNode DEF TypeOK
  <2>2. s.msg.miner \in Miners /\ s.msg.body \in Payload
    BY <1>7, <2>1, WorkerFields, MessageFields DEF HandleProposal
  <2>3. ASSUME SetWorker(0, w, [pc |-> "reply", miner |-> s.msg.miner,
                                body |-> s.msg.body, ok |-> FALSE]),
               UNCHANGED chain
        PROVE  TypeOK'
    <3>1. worker' \in [Nodes -> [Workers -> WorkerState]]
      BY <2>2, <2>3, ReplyState, SetWorkerType, ZeroIsNode
    <3> QED BY <1>7, <2>3, <3>1 DEF HandleProposal, TypeOK
  <2>4. ASSUME s.msg.body # Malformed,
               chain' = [chain EXCEPT ![0] = Append(@, s.msg.body)],
               SetWorker(0, w, [pc |-> "broadcast", miner |-> s.msg.miner,
                                block |-> s.msg.body, peer |-> 1])
        PROVE  TypeOK'
    <3>1. s.msg.body \in Block
      BY <2>2, <2>4 DEF Payload
    <3>2. worker' \in [Nodes -> [Workers -> WorkerState]]
      BY <2>2, <2>4, <3>1, BroadcastState, SetWorkerType, ZeroIsNode
    <3>3. chain' \in [Nodes -> Seq(Block)]
      BY <2>4, <3>1, ZeroIsNode DEF TypeOK
    <3> QED BY <1>7, <3>2, <3>3 DEF HandleProposal, TypeOK
  <2>5. ASSUME s.msg.body # Malformed,
               chain' = [chain EXCEPT ![0] = Append(@, s.msg.body)],
               SetWorker(0, w, [pc |-> "reply", miner |-> s.msg.miner,
                                body |-> s.msg.body, ok |-> TRUE])
        PROVE  TypeOK'
    <3>1. s.msg.body \in Block
      BY <2>2, <2>5 DEF Payload
    <3>2. worker' \in [Nodes -> [Workers -> WorkerState]]
      BY <2>2, <2>5, <3>1, ReplyState, SetWorkerType, ZeroIsNode
    <3>3. chain' \in [Nodes -> Seq(Block)]
      BY <2>5, <3>1, ZeroIsNode DEF TypeOK
    <3> QED BY <1>7, <3>2, <3>3 DEF HandleProposal, TypeOK
  <2> QED BY <1>7, <2>3, <2>4, <2>5 DEF HandleProposal
<1>8. ASSUME NEW w \in Workers, Broadcast(w) PROVE TypeOK'
  <2> DEFINE s == worker[0][w]
             id == s.peer - MAX_PROBE_PEERS
  <2>1. s \in WorkerState /\ s.miner \in Miners /\ s.block \in Block /\ s.peer \in Nat
    BY <1>8, WorkerFields, ZeroIsNode DEF TypeOK, Broadcast
  <2>2. worker' \in [Nodes -> [Workers -> WorkerState]]
    <3>1. PICK b : b = [pc |-> "broadcast", miner |-> s.miner, block |-> s.block,
                        peer |-> s.peer + 1]
      OBVIOUS
    <3>2. SetWorker(0, w, b)
      BY <1>8, <3>1 DEF Broadcast
    <3>3. s.peer + 1 \in Nat
      BY ONLY <2>1
    <3>4. b \in WorkerState
      BY <2>1, <3>1, <3>3, BroadcastState
    <3> QED
      BY <3>2, <3>4, SetWorkerType, ZeroIsNode
  <2>3. [type |-> "BLOCK_COMMIT", block |-> s.block] \in Message
    BY <2>1 DEF Message, CommitMsg
  <2>4. inbox' \in [Nodes -> Seq(Message)]
    <3>1. CASE inbox' = inbox
      BY <3>1 DEF TypeOK
    <3>2. CASE /\ s.peer \in Nodes
               /\ inbox' = [inbox EXCEPT ![s.peer] = Append(@,
                              [type |-> "BLOCK_COMMIT", block |-> s.block])]
      BY <2>3, <3>2 DEF TypeOK
    <3> QED BY <1>8, <3>1, <3>2 DEF Broadcast
  <2>5. heard' \in [Miners -> Ear]
    <3>1. CASE heard' = heard
      BY <3>1 DEF TypeOK
    <3>2. CASE /\ id \in Miners
               /\ heard' = [heard EXCEPT ![id].blocks = Append(@, s.block)]
      <4>1. heard[id] \in Ear /\ Append(heard[id].blocks, s.block) \in Seq(Block)
        BY <2>1, <3>2 DEF TypeOK, Ear
      <4>2. [heard[id] EXCEPT !.blocks = Append(@, s.block)] \in Ear
        BY <4>1 DEF Ear
      <4> HIDE DEF id, s
      <4> QED BY <3>2, <4>2 DEF TypeOK
    <3> QED BY <1>8, <3>1, <3>2 DEF Broadcast
  <2> QED BY <1>8, <2>2, <2>4, <2>5 DEF Broadcast, TypeOK
<1>9. ASSUME NEW w \in Workers, BroadcastDone(w) PROVE TypeOK'
  <2> DEFINE s == worker[0][w]
  <2>1. s \in WorkerState /\ s.miner \in Miners /\ s.block \in Block
    BY <1>9, WorkerFields, ZeroIsNode DEF TypeOK, BroadcastDone
  <2>2. worker' \in [Nodes -> [Workers -> WorkerState]]
    BY <1>9, <2>1, ReplyState, SetWorkerType, ZeroIsNode DEF BroadcastDone
  <2> QED BY <1>9, <2>2 DEF BroadcastDone, TypeOK
<1>10. ASSUME NEW w \in Workers, Reply(w) PROVE TypeOK'
  <2> DEFINE s == worker[0][w]
  <2>1. /\ s \in WorkerState /\ s.miner \in Miners
        /\ s.ok => s.body \in Block
    BY <1>10, WorkerFields, ZeroIsNode DEF TypeOK, Reply
  <2>2. CASE miner[s.miner] # "dead"
    <3>1. worker' \in [Nodes -> [Workers -> WorkerState]]
      BY <1>10, <2>2, PoppingState, SetWorkerType, ZeroIsNode DEF Reply
    <3>2. acks' = acks \/ (s.ok /\ acks' = Append(acks, s.body))
      BY <1>10, <2>2 DEF Reply
    <3>3. acks' \in Seq(Block)
      <4>1. CASE acks' = acks
        BY <4>1 DEF TypeOK
      <4>2. CASE s.ok /\ acks' = Append(acks, s.body)
        <5>1. s.body \in Block
          BY <2>1, <4>2
        <5> HIDE DEF s
        <5> QED BY <4>2, <5>1 DEF TypeOK
      <4> QED BY <3>2, <4>1, <4>2
    <3> QED BY <1>10, <2>1, <2>2, <3>1, <3>3 DEF Reply, TypeOK
  <2>3. CASE miner[s.miner] = "dead"
    <3>1. ASSUME NEW T, End({} \cup {0} \cup T) PROVE TypeOK'
      BY <1>10, <2>3, <3>1, EndType DEF Reply, TypeOK
    <3> QED BY <1>10, <2>3, <3>1 DEF Reply, CoordinatorEnds
  <2> QED BY <2>2, <2>3
<1>11. ASSUME NEW w \in Workers, HandleSyncRequest(w) PROVE TypeOK'
  <2> DEFINE s == worker[0][w]
             ls == SyncLines(chain[0], s.msg.from)
  <2>1. s \in WorkerState
    BY ZeroIsNode DEF TypeOK
  <2>2. s.msg.to \in Requester /\ s.msg.from \in Nat
    BY <1>11, <2>1, WorkerFields, MessageFields DEF HandleSyncRequest
  <2>3. ls \in Seq(Block)
    BY <2>2, ZeroIsNode, SyncLinesType DEF TypeOK
  <2>4. worker' \in [Nodes -> [Workers -> WorkerState]]
    BY <1>11, <2>2, <2>3, ServeState, SetWorkerType, ZeroIsNode DEF HandleSyncRequest
  <2> QED BY <1>11, <2>4 DEF HandleSyncRequest, TypeOK
<1>12. ASSUME NEW w \in Workers, Serve(w) PROVE TypeOK'
  <2> DEFINE s == worker[0][w]
             Answered == IF s.lines # <<>> /\ Len(s.lines) <= MaxSyncBlocks
                           THEN [pc |-> "synced", next |-> s.from, lines |-> s.lines]
                           ELSE Popping
  <2>1. s \in WorkerState /\ s.to \in Requester /\ s.from \in Nat /\ s.lines \in Seq(Block)
    BY <1>12, WorkerFields, ZeroIsNode DEF TypeOK, Serve
  <2>2. Answered \in WorkerState
    BY <2>1, PoppingState, SyncedState
  <2>3. CASE /\ worker' = [worker EXCEPT ![0][w] = Popping,
                                         ![s.to.node][s.to.worker] = Answered]
             /\ UNCHANGED <<up, inbox>>
    <3> HIDE DEF Answered
    <3>1. worker' \in [Nodes -> [Workers -> WorkerState]]
      BY <2>1, <2>2, <2>3, PoppingState, RequesterFields, ZeroIsNode DEF TypeOK
    <3> QED BY <1>12, <2>3, <3>1 DEF Serve, TypeOK
  <2>4. CASE SetWorker(0, w, Popping) /\ UNCHANGED <<up, inbox>>
    BY <1>12, <2>4, PoppingState, SetWorkerType, ZeroIsNode DEF Serve, TypeOK
  <2>5. ASSUME NEW T, End({} \cup {0} \cup T) PROVE TypeOK'
    BY <1>12, <2>5, EndType DEF Serve, TypeOK
  <2> QED BY <1>12, <2>3, <2>4, <2>5 DEF Serve, CoordinatorEnds
<1>13. ASSUME NEW n \in Nodes, NEW w \in Workers, HandleCommit(n, w) PROVE TypeOK'
  <2> DEFINE s == worker[n][w]
             b == s.msg.block
  <2>1. s \in WorkerState
    BY DEF TypeOK
  <2>2. b \in Block
    BY <1>13, <2>1, WorkerFields, MessageFields DEF HandleCommit
  <2>3. Len(chain[n]) \in Nat
    BY DEF TypeOK
  <2>4. worker' \in [Nodes -> [Workers -> WorkerState]]
    BY <1>13, <2>3, PoppingState, ConnectState, SetWorkerType DEF HandleCommit
  <2>5. chain' \in [Nodes -> Seq(Block)]
    <3>1. chain' = chain \/ chain' = [chain EXCEPT ![n] = Append(@, b)]
      BY <1>13 DEF HandleCommit
    <3>2. CASE chain' = chain
      BY <3>2 DEF TypeOK
    <3>3. CASE chain' = [chain EXCEPT ![n] = Append(@, b)]
      <4> HIDE DEF b
      <4> QED BY <2>2, <3>3 DEF TypeOK
    <3> QED BY <3>1, <3>2, <3>3
  <2> QED BY <1>13, <2>4, <2>5 DEF HandleCommit, TypeOK
<1>14. ASSUME NEW n \in Nodes, NEW w \in Workers, RequestSync(n, w) PROVE TypeOK'
  <2> DEFINE s == worker[n][w]
             to == [node |-> n, worker |-> w, life |-> life[n]]
  <2>1. s \in WorkerState /\ s.from \in Nat
    BY <1>14, WorkerFields DEF TypeOK, RequestSync
  <2>2. [type |-> "SYNC_REQUEST", to |-> to, from |-> s.from] \in Message
    BY <2>1 DEF Message, SyncRequest, Requester, TypeOK
  <2>3. worker' \in [Nodes -> [Workers -> WorkerState]]
    BY <1>14, <2>1, PoppingState, ConnectState, SetWorkerType DEF RequestSync
  <2>4. inbox' \in [Nodes -> Seq(Message)]
    <3>1. \/ inbox' = inbox
          \/ inbox' = [inbox EXCEPT ![0] = Append(@,
                         [type |-> "SYNC_REQUEST", to |-> to, from |-> s.from])]
      BY <1>14 DEF RequestSync
    <3>2. CASE inbox' = inbox
      BY <3>2 DEF TypeOK
    <3> DEFINE msg == [type |-> "SYNC_REQUEST", to |-> to, from |-> s.from]
    <3>3. CASE inbox' = [inbox EXCEPT ![0] = Append(@, msg)]
      <4>1. msg \in Message
        BY <2>2
      <4> HIDE DEF msg
      <4> QED BY <3>3, <4>1, ZeroIsNode DEF TypeOK
    <3> QED BY <3>1, <3>2, <3>3
  <2> QED BY <1>14, <2>3, <2>4 DEF RequestSync, TypeOK
<1>15. ASSUME NEW n \in Nodes, NEW w \in Workers, SyncFails(n, w) PROVE TypeOK'
  BY <1>15, PoppingState, SetWorkerType DEF SyncFails, TypeOK
<1>16. ASSUME NEW n \in Nodes, NEW w \in Workers, ApplySynced(n, w) PROVE TypeOK'
  <2> DEFINE s == worker[n][w]
  <2>1. s \in WorkerState /\ s.next \in Nat /\ s.lines \in Seq(Block) \ {<<>>}
    BY <1>16, WorkerFields DEF TypeOK, ApplySynced
  <2>2. Head(s.lines) \in Block /\ Tail(s.lines) \in Seq(Block)
    BY <2>1
  <2>3. (IF Tail(s.lines) = <<>> THEN Popping
         ELSE [pc |-> "apply", next |-> s.next + 1, lines |-> Tail(s.lines)])
        \in WorkerState
    <3>1. CASE Tail(s.lines) = <<>>
      BY <3>1, PoppingState
    <3>2. CASE Tail(s.lines) # <<>>
      <4>1. Tail(s.lines) \in Seq(Block) \ {<<>>}
        BY <2>2, <3>2, Zenon
      <4>2. s.next + 1 \in Nat
        BY ONLY <2>1
      <4> QED BY <3>2, <4>1, <4>2, SyncedState
    <3> QED BY <3>1, <3>2
  <2>4. worker' \in [Nodes -> [Workers -> WorkerState]]
    BY <1>16, <2>3, SetWorkerType DEF ApplySynced
  <2>5. chain' \in [Nodes -> Seq(Block)]
    BY <1>16, <2>2 DEF ApplySynced, TypeOK
  <2> QED BY <1>16, <2>4, <2>5 DEF ApplySynced, TypeOK
<1> QED
  BY <1>0, <1>1, <1>2, <1>3, <1>4, <1>5, <1>6, <1>7, <1>8, <1>9, <1>10, <1>11,
     <1>12, <1>13, <1>14, <1>15, <1>16, <1>17, <1>18
  DEF Next, CoordinatorStep, NodeStep

\* Every variable keeps its type: in particular a miner is answered with a
\* block only when that block was parsed, and no sync is applied without lines.
THEOREM TypeCorrect == Spec => []TypeOK
<1>1. Init => TypeOK
  BY InitType
<1>2. TypeOK /\ [Next]_vars => TypeOK'
  BY TypeStep
<1> QED BY <1>1, <1>2, PTL DEF Spec

-----------------------------------------------------------------------------
(* What a step may do to the chains without disturbing what is under way.  *)

ChainType == [Nodes -> Seq(Block)]
UpType    == [Nodes -> BOOLEAN]
LifeType  == [Nodes -> Nat]

\* The coordinator's chain d[0] extends c[0].
Extends(c, d) ==
  Len(c[0]) <= Len(d[0]) /\ \A i \in 1..Len(c[0]) : d[0][i] = c[0][i]

\* Process n goes on, or ends, without losing blocks; or it starts anew.
Lives(c, u, l, d, v, k, n) ==
  \/ k[n] = l[n] /\ (v[n] => u[n]) /\ Len(c[n]) <= Len(d[n])
  \/ k[n] = l[n] + 1 /\ ~u[n]

\* A block on the ledger stays there when the ledger grows.
LEMMA OnLedgerKept ==
  ASSUME NEW c \in ChainType, NEW d \in ChainType, Extends(c, d),
         NEW b \in Block, OnLedger(c, b)
  PROVE  OnLedger(d, b)
<1>1. b.index \in Nat
  BY BlockAssumption
<1>2. Len(c[0]) \in Nat /\ Len(d[0]) \in Nat
  BY ZeroIsNode DEF ChainType
<1>3. b.index + 1 \in 1..Len(c[0])
  BY <1>1, <1>2 DEF OnLedger
<1> QED BY <1>1, <1>2, <1>3 DEF OnLedger, Extends

\* A piece of the ledger stays one when the ledger grows.
LEMMA LedgerFromKept ==
  ASSUME NEW c \in ChainType, NEW d \in ChainType, Extends(c, d),
         NEW k \in Nat, NEW lines \in Seq(Block), LedgerFrom(c, k, lines)
  PROVE  LedgerFrom(d, k, lines)
<1> SUFFICES ASSUME NEW i \in 1..Len(lines)
             PROVE  k + i <= Len(d[0]) /\ lines[i] = d[0][k + i]
  BY DEF LedgerFrom
<1>1. Len(c[0]) \in Nat /\ Len(d[0]) \in Nat /\ Len(lines) \in Nat
  BY ZeroIsNode DEF ChainType
<1>2. k + i <= Len(c[0]) /\ lines[i] = c[0][k + i]
  BY DEF LedgerFrom
<1>3. k + i \in 1..Len(c[0])
  BY <1>1, <1>2
<1> QED BY <1>1, <1>2, <1>3 DEF Extends

\* A sync request stays good when no chain shrinks and no life begins.
LEMMA RequestKept ==
  ASSUME NEW c \in ChainType, NEW u \in UpType, NEW l \in LifeType,
         NEW d \in ChainType, NEW v \in UpType, NEW k \in LifeType,
         \A n \in Nodes : Lives(c, u, l, d, v, k, n),
         NEW to \in Requester, NEW from \in Nat, RequestOK(c, u, l, to, from)
  PROVE  RequestOK(d, v, k, to, from)
<1> DEFINE n == to.node
<1>1. n \in Nodes /\ to.life \in Nat
  BY RequesterFields
<1>2. l[n] \in Nat /\ k[n] \in Nat /\ Len(c[n]) \in Nat /\ Len(d[n]) \in Nat
  BY <1>1 DEF ChainType, LifeType
<1>3. Len(InitialChain) <= from /\ to.life <= l[n] /\ ((u[n] /\ l[n] = to.life) => from <= Len(c[n]))
  BY DEF RequestOK
<1>4. CASE k[n] = l[n] /\ (v[n] => u[n]) /\ Len(c[n]) <= Len(d[n])
  BY <1>1, <1>2, <1>3, <1>4 DEF RequestOK
<1>5. CASE k[n] = l[n] + 1 /\ ~u[n]
  BY <1>1, <1>2, <1>3, <1>5 DEF RequestOK
<1> QED BY <1>1, <1>4, <1>5 DEF Lives

\* A message stays good when the ledger grows and no chain shrinks.
LEMMA MessageKept ==
  ASSUME NEW c \in ChainType, NEW u \in UpType, NEW l \in LifeType,
         NEW d \in ChainType, NEW v \in UpType, NEW k \in LifeType,
         Extends(c, d), \A n \in Nodes : Lives(c, u, l, d, v, k, n),
         NEW msg \in Message, MessageOK(c, u, l, msg)
  PROVE  MessageOK(d, v, k, msg)
<1>1. ASSUME msg.type = "BLOCK_COMMIT" PROVE OnLedger(d, msg.block)
  BY <1>1, MessageFields, OnLedgerKept DEF MessageOK
<1>2. ASSUME msg.type = "SYNC_REQUEST" PROVE RequestOK(d, v, k, msg.to, msg.from)
  BY <1>2, MessageFields, RequestKept DEF MessageOK
<1> QED BY <1>1, <1>2 DEF MessageOK

\* A worker that stays where it is, in a process that goes on running.
LEMMA WorkerKept ==
  ASSUME NEW c \in ChainType, NEW u \in UpType, NEW l \in LifeType,
         NEW d \in ChainType, NEW v \in UpType, NEW k \in LifeType,
         Extends(c, d), \A n \in Nodes : Lives(c, u, l, d, v, k, n),
         NEW n \in Nodes, u[n] => v[n],
         NEW s \in WorkerState, WorkerOK(c, u, l, n, s)
  PROVE  WorkerOK(d, v, k, n, s)
<1>1. CASE s.pc = "pop"
  BY <1>1 DEF WorkerOK
<1>2. CASE s.pc # "pop"
  <2>1. u[n] /\ v[n]
    BY <1>2 DEF WorkerOK
  <2>2. Len(c[n]) <= Len(d[n]) /\ Len(c[n]) \in Nat /\ Len(d[n]) \in Nat
    BY <2>1 DEF Lives, ChainType
  <2>3. ASSUME s.pc = "handle" PROVE MessageOK(d, v, k, s.msg)
    BY <2>3, WorkerFields, MessageKept DEF WorkerOK
  <2>4. ASSUME s.pc = "broadcast" PROVE OnLedger(d, s.block)
    BY <2>4, WorkerFields, OnLedgerKept DEF WorkerOK
  <2>5. ASSUME s.pc = "serve"
        PROVE  RequestOK(d, v, k, s.to, s.from) /\ LedgerFrom(d, s.from, s.lines)
    BY <2>5, WorkerFields, RequestKept, LedgerFromKept DEF WorkerOK
  <2>6. ASSUME s.pc \in {"connect", "await"}
        PROVE  Len(InitialChain) <= s.from /\ s.from <= Len(d[n])
    <3>1. s.from \in Nat /\ Len(InitialChain) <= s.from /\ s.from <= Len(c[n])
      BY <2>6, WorkerFields DEF WorkerOK
    <3> QED BY <2>2, <3>1
  <2>7. ASSUME s.pc \in {"synced", "apply"}
        PROVE  s.next <= Len(d[n]) /\ LedgerFrom(d, s.next, s.lines)
    <3>1. s.next \in Nat /\ s.next <= Len(c[n]) /\ s.lines \in Seq(Block)
      BY <2>7, WorkerFields DEF WorkerOK
    <3>2. LedgerFrom(d, s.next, s.lines)
      BY <2>7, <3>1, LedgerFromKept DEF WorkerOK
    <3> QED BY <2>2, <3>1, <3>2
  <2> QED BY <2>1, <2>3, <2>4, <2>5, <2>6, <2>7 DEF WorkerOK
<1> QED BY <1>1, <1>2

-----------------------------------------------------------------------------
(* The four things a step can do to the chains.                            *)

\* A step that leaves the chains alone keeps LedgerInv and ReplicaPrefix.
LEMMA LedgerSame ==
  ASSUME IInv, chain' = chain
  PROVE  LedgerInv' /\ ReplicaPrefix' /\ Extends(chain, chain')
BY DEF IInv, LedgerInv, LedgerValid, ReplicaPrefix, Extends

\* A chain that passes validate_blockchain does so after one more valid block.
LEMMA ValidAppend ==
  ASSUME NEW c \in Seq(Block), NEW b \in Block, ValidNext(c, b),
         c # <<>> => validate_blockchain(c)
  PROVE  validate_blockchain(Append(c, b))
<1> DEFINE d == Append(c, b)
<1> SUFFICES validate_blockchain(d)
  OBVIOUS
<1>0. Len(c) \in Nat /\ Len(d) = Len(c) + 1 /\ d[Len(c) + 1] = b
  OBVIOUS
<1>1. Len(c) \in Nat /\ Len(d) = Len(c) + 1 /\ d # <<>> /\ d[Len(c) + 1] = b
  BY <1>0
<1>2. \A i \in 1..Len(c) : d[i] = c[i]
  OBVIOUS
<1>3. CASE c = <<>>
  <2>1. Len(d) = 1 /\ d[1] = b
    BY <1>1, <1>3
  <2> HIDE DEF d
  <2> QED BY <2>1, <1>1, <1>3 DEF ValidNext, validate_blockchain
<1>4. CASE c # <<>>
  <2>1. Len(c) >= 1
    BY <1>4
  <2>2. d[1].index = 0
    BY <1>2, <1>4, <2>1 DEF validate_blockchain
  <2>3. ASSUME NEW i \in 1..Len(d) PROVE validate_block_merkle_root(d[i])
    <3>1. CASE i \in 1..Len(c)
      BY <1>2, <1>4, <3>1 DEF validate_blockchain
    <3>2. CASE i = Len(c) + 1
      BY <1>1, <3>2 DEF ValidNext
    <3> QED BY <1>1, <3>1, <3>2
  <2>4. ASSUME NEW i \in 2..Len(d) PROVE validate_block_link(d[i - 1], d[i])
    <3>1. CASE i \in 2..Len(c)
      <4>1. i \in 1..Len(c) /\ i - 1 \in 1..Len(c)
        BY <1>1, <3>1
      <4> QED BY <1>2, <1>4, <3>1, <4>1 DEF validate_blockchain
    <3>2. CASE i = Len(c) + 1
      <4>1. d[i - 1] = c[Len(c)] /\ d[i] = b
        BY <1>1, <1>2, <2>1, <3>2
      <4> QED BY <1>4, <4>1 DEF ValidNext
    <3> QED BY <1>1, <3>1, <3>2
  <2> HIDE DEF d
  <2> QED BY <1>1, <2>2, <2>3, <2>4 DEF validate_blockchain
<1> QED BY <1>3, <1>4

\* The next block's index is the length of the chain it extends.
LEMMA ValidNextIndex ==
  ASSUME NEW c \in Seq(Block), NEW b \in Block, ValidNext(c, b),
         \A i \in 1..Len(c) : c[i].index = i - 1
  PROVE  b.index = Len(c)
<1>1. CASE c = <<>>
  BY <1>1 DEF ValidNext
<1>2. CASE c # <<>>
  <2>1. Len(c) \in 1..Len(c)
    BY <1>2
  <2>2. c[Len(c)].index = Len(c) - 1
    BY <2>1
  <2>3. b.index = c[Len(c)].index + 1
    BY <1>2 DEF ValidNext, validate_block_link
  <2> QED BY <2>1, <2>2, <2>3
<1> QED BY <1>1, <1>2

\* The coordinator appends a valid proposal.
LEMMA LedgerAppend ==
  ASSUME IInv, NEW b \in Block, ValidNext(chain[0], b), Writable(b),
         chain' = [chain EXCEPT ![0] = Append(@, b)]
  PROVE  /\ LedgerInv' /\ ReplicaPrefix' /\ Extends(chain, chain')
         /\ OnLedger(chain', b)
         /\ \A n \in Nodes : Len(chain[n]) <= Len(chain'[n])
<1>1. chain \in [Nodes -> Seq(Block)] /\ chain[0] \in Seq(Block)
  BY ZeroIsNode DEF IInv, TypeOK
<1>2. chain'[0] = Append(chain[0], b) /\ \A n \in Nodes \ {0} : chain'[n] = chain[n]
  BY <1>1, ZeroIsNode
<1>3. /\ Len(chain[0]) \in Nat /\ Len(chain'[0]) = Len(chain[0]) + 1
      /\ chain'[0][Len(chain[0]) + 1] = b
      /\ \A i \in 1..Len(chain[0]) : chain'[0][i] = chain[0][i]
  BY <1>1, <1>2
<1>4. b.index = Len(chain[0])
  BY <1>1, ValidNextIndex DEF IInv, LedgerInv
<1>5. Extends(chain, chain')
  BY <1>3 DEF Extends
<1>6. OnLedger(chain', b)
  BY <1>3, <1>4 DEF OnLedger
<1>7. ReplicaPrefix'
  <2> SUFFICES ASSUME NEW n \in Nodes
               PROVE  /\ Len(chain'[n]) <= Len(chain'[0])
                      /\ \A i \in 1..Len(chain'[n]) : chain'[n][i] = chain'[0][i]
    BY DEF ReplicaPrefix
  <2>1. CASE n = 0
    BY <1>3, <2>1
  <2>2. CASE n # 0
    <3>1. chain'[n] = chain[n] /\ Len(chain[n]) \in Nat
      BY <1>1, <1>2, <2>2
    <3>2. /\ Len(chain[n]) <= Len(chain[0])
          /\ \A i \in 1..Len(chain[n]) : chain[n][i] = chain[0][i]
      BY DEF IInv, ReplicaPrefix
    <3> QED BY <1>3, <3>1, <3>2
  <2> QED BY <2>1, <2>2
<1>8. LedgerInv'
  <2>1. Len(InitialChain) \in Nat /\ Len(InitialChain) <= Len(chain[0])
    BY InitialChainAssumption DEF IInv, LedgerInv
  <2>2. \A i \in 1..Len(InitialChain) : chain'[0][i] = InitialChain[i]
    BY <1>3, <2>1 DEF IInv, LedgerInv
  <2>3. \A i \in 1..Len(chain'[0]) : chain'[0][i].index = i - 1
    <3> SUFFICES ASSUME NEW i \in 1..Len(chain'[0]) PROVE chain'[0][i].index = i - 1
      OBVIOUS
    <3>1. CASE i \in 1..Len(chain[0])
      BY <1>3, <3>1 DEF IInv, LedgerInv
    <3>2. CASE i = Len(chain[0]) + 1
      BY <1>3, <1>4, <3>2
    <3> QED BY <1>3, <3>1, <3>2
  <2>4. LedgerValid'
    BY <1>1, <1>2, ValidAppend DEF IInv, LedgerInv, LedgerValid
  <2>5. ASSUME NEW i \in 1..Len(chain'[0]), i > Len(InitialChain)
        PROVE  Writable(chain'[0][i])
    <3>1. CASE i \in 1..Len(chain[0])
      BY <1>3, <2>5, <3>1 DEF IInv, LedgerInv
    <3>2. CASE i = Len(chain[0]) + 1
      BY <1>3, <3>2
    <3> QED BY <1>3, <3>1, <3>2
  <2>6. ASSUME NEW n \in Nodes PROVE Len(InitialChain) <= Len(chain'[n])
    BY <1>1, <1>2, <1>3, <2>1 DEF IInv, LedgerInv
  <2> QED BY <1>3, <2>1, <2>2, <2>3, <2>4, <2>5, <2>6 DEF LedgerInv
<1>9. \A n \in Nodes : Len(chain[n]) <= Len(chain'[n])
  <2> SUFFICES ASSUME NEW n \in Nodes PROVE Len(chain[n]) <= Len(chain'[n])
    OBVIOUS
  <2>1. Len(chain[n]) \in Nat
    BY <1>1
  <2>2. CASE n = 0
    BY <1>3, <2>2
  <2>3. CASE n # 0
    BY <1>2, <2>1, <2>3
  <2> QED BY <2>2, <2>3
<1> QED BY <1>5, <1>6, <1>7, <1>8, <1>9

\* A node takes over the coordinator's block that follows its own.
LEMMA CopyNext ==
  ASSUME IInv, NEW n \in Nodes, NEW b \in Block, OnLedger(chain, b),
         b.index = Len(chain[n]), chain' = [chain EXCEPT ![n] = Append(@, b)]
  PROVE  /\ LedgerInv' /\ ReplicaPrefix' /\ Extends(chain, chain')
         /\ \A m \in Nodes : Len(chain[m]) <= Len(chain'[m])
         /\ n # 0 /\ chain'[0] = chain[0] /\ Len(chain'[n]) = Len(chain[n]) + 1
<1>1. chain \in [Nodes -> Seq(Block)]
  BY DEF IInv, TypeOK
<1>2. Len(chain[0]) \in Nat /\ Len(chain[n]) \in Nat /\ b.index \in Nat
  BY <1>1, ZeroIsNode, BlockAssumption
<1>3. Len(chain[n]) < Len(chain[0]) /\ chain[0][Len(chain[n]) + 1] = b
  BY DEF OnLedger
<1>4. n # 0
  BY <1>2, <1>3
<1>5. chain'[0] = chain[0]
  BY <1>1, <1>4, ZeroIsNode
<1>6. /\ chain'[n] = Append(chain[n], b) /\ Len(chain'[n]) = Len(chain[n]) + 1
      /\ \A i \in 1..Len(chain[n]) : chain'[n][i] = chain[n][i]
      /\ chain'[n][Len(chain[n]) + 1] = b
  BY <1>1
<1>7. LedgerInv' /\ Extends(chain, chain')
  <2>1. Extends(chain, chain')
    BY <1>2, <1>5 DEF Extends
  <2>2. ASSUME NEW m \in Nodes PROVE Len(InitialChain) <= Len(chain'[m])
    <3>1. /\ Len(InitialChain) \in Nat /\ Len(chain[m]) \in Nat
          /\ Len(InitialChain) <= Len(chain[m])
      BY <1>1, InitialChainAssumption DEF IInv, LedgerInv
    <3>2. CASE m = n
      BY <1>6, <3>1, <3>2
    <3>3. CASE m # n
      BY <1>1, <3>1, <3>3
    <3> QED BY <3>2, <3>3
  <2>3. LedgerInv'
    BY <1>5, <2>2 DEF IInv, LedgerInv, LedgerValid
  <2> QED BY <2>1, <2>3
<1>8. ASSUME NEW m \in Nodes
      PROVE  /\ Len(chain'[m]) <= Len(chain'[0])
             /\ \A i \in 1..Len(chain'[m]) : chain'[m][i] = chain'[0][i]
  <2>1. /\ Len(chain[m]) \in Nat /\ Len(chain[m]) <= Len(chain[0])
        /\ \A i \in 1..Len(chain[m]) : chain[m][i] = chain[0][i]
    BY <1>1 DEF IInv, ReplicaPrefix
  <2>2. CASE m # n
    BY <1>1, <1>5, <2>1, <2>2
  <2>3. CASE m = n
    BY <1>2, <1>3, <1>5, <1>6, <2>1, <2>3
  <2> QED BY <2>2, <2>3
<1>9. ASSUME NEW m \in Nodes PROVE Len(chain[m]) <= Len(chain'[m])
  <2>1. Len(chain[m]) \in Nat
    BY <1>1
  <2> QED BY <1>1, <1>6, <2>1
<1> QED BY <1>4, <1>5, <1>6, <1>7, <1>8, <1>9 DEF ReplicaPrefix

\* A replica starts from the initial chain.
LEMMA ChainReset ==
  ASSUME IInv, NEW n \in Nodes, n # 0, chain' = [chain EXCEPT ![n] = InitialChain]
  PROVE  /\ LedgerInv' /\ ReplicaPrefix' /\ Extends(chain, chain')
         /\ \A m \in Nodes \ {n} : chain'[m] = chain[m]
<1>1. chain \in [Nodes -> Seq(Block)] /\ Len(chain[0]) \in Nat
  BY ZeroIsNode DEF IInv, TypeOK
<1>2. chain'[0] = chain[0] /\ \A m \in Nodes \ {n} : chain'[m] = chain[m]
  BY <1>1, ZeroIsNode
<1>3. LedgerInv' /\ Extends(chain, chain')
  <2>1. Extends(chain, chain')
    BY <1>1, <1>2 DEF Extends
  <2>2. \A m \in Nodes : Len(InitialChain) <= Len(chain'[m])
    BY <1>1, <1>2, InitialChainAssumption DEF IInv, LedgerInv
  <2> QED BY <1>2, <2>1, <2>2 DEF IInv, LedgerInv, LedgerValid
<1>4. ReplicaPrefix'
  BY <1>1, <1>2 DEF IInv, LedgerInv, ReplicaPrefix
<1> QED BY <1>2, <1>3, <1>4

-----------------------------------------------------------------------------
(* The invariant of what is under way.                                     *)

\* It is enough to look at the message that is sent and at the workers that
\* move; everything else is kept because the coordinator's chain only grows.
LEMMA InFlightNext ==
  ASSUME IInv, TypeOK', Extends(chain, chain'),
         \A n \in Nodes : Lives(chain, up, life, chain', up', life', n),
         \A n \in Nodes : \/ inbox'[n] = inbox[n]
                         \/ inbox'[n] = <<>>
                         \/ (inbox[n] # <<>> /\ inbox'[n] = Tail(inbox[n]))
                         \/ \E msg \in Message : /\ inbox'[n] = Append(inbox[n], msg)
                                     /\ MessageOK(chain', up', life', msg),
         \A n \in Nodes : \A w \in Workers :
           \/ worker'[n][w] = worker[n][w] /\ (up[n] => up'[n])
           \/ WorkerOK(chain', up', life', n, worker'[n][w])
  PROVE  InFlightInv'
<1>1. /\ chain \in ChainType /\ up \in UpType /\ life \in LifeType
      /\ chain' \in ChainType /\ up' \in UpType /\ life' \in LifeType
  BY DEF IInv, TypeOK, ChainType, UpType, LifeType
<1>2. ASSUME NEW n \in Nodes, NEW k \in 1..Len(inbox'[n])
      PROVE  MessageOK(chain', up', life', inbox'[n][k])
  <2>1. /\ inbox[n] \in Seq(Message) /\ Len(inbox[n]) \in Nat
        /\ inbox'[n] \in Seq(Message)
    BY DEF IInv, TypeOK
  <2>2. ASSUME NEW j \in 1..Len(inbox[n])
        PROVE  MessageOK(chain', up', life', inbox[n][j])
    <3>1. inbox[n][j] \in Message /\ MessageOK(chain, up, life, inbox[n][j])
      BY <2>1 DEF IInv, InFlightInv
    <3> QED BY <1>1, <3>1, MessageKept
  <2>3. CASE inbox'[n] = inbox[n]
    BY <2>2, <2>3
  <2>4. CASE inbox'[n] = <<>>
    BY <2>4
  <2>5. CASE inbox[n] # <<>> /\ inbox'[n] = Tail(inbox[n])
    <3>1. k + 1 \in 1..Len(inbox[n]) /\ inbox'[n][k] = inbox[n][k + 1]
      BY <2>1, <2>5
    <3> QED BY <2>2, <3>1
  <2>6. ASSUME NEW msg \in Message, inbox'[n] = Append(inbox[n], msg),
               MessageOK(chain', up', life', msg)
        PROVE  MessageOK(chain', up', life', inbox'[n][k])
    <3>1. CASE k \in 1..Len(inbox[n])
      BY <2>1, <2>2, <2>6, <3>1
    <3>2. CASE k = Len(inbox[n]) + 1
      BY <2>1, <2>6, <3>2
    <3> QED BY <2>1, <2>6, <3>1, <3>2
  <2> QED BY <2>3, <2>4, <2>5, <2>6
<1>3. ASSUME NEW n \in Nodes, NEW w \in Workers
      PROVE  WorkerOK(chain', up', life', n, worker'[n][w])
  <2>1. CASE worker'[n][w] = worker[n][w] /\ (up[n] => up'[n])
    <3>1. worker[n][w] \in WorkerState /\ WorkerOK(chain, up, life, n, worker[n][w])
      BY DEF IInv, TypeOK, InFlightInv
    <3> QED BY <1>1, <2>1, <3>1, WorkerKept
  <2>2. CASE WorkerOK(chain', up', life', n, worker'[n][w])
    BY <2>2
  <2> QED BY <2>1, <2>2
<1> QED BY <1>2, <1>3 DEF InFlightInv

\* A worker that waits has nothing under way.
LEMMA PopOK ==
  ASSUME NEW c, NEW u, NEW l, NEW n PROVE WorkerOK(c, u, l, n, Popping)
BY DEF Popping, WorkerOK

\* A process that is killed leaves nothing under way.
LEMMA EndInFlight ==
  ASSUME IInv, TypeOK', NEW S, End(S), Extends(chain, chain'),
         \A n \in Nodes : Lives(chain, up, life, chain', up', life', n)
  PROVE  InFlightInv'
<1>1. \A n \in Nodes : inbox'[n] = inbox[n] \/ inbox'[n] = <<>>
  BY DEF End
<1>2. ASSUME NEW n \in Nodes, NEW w \in Workers
      PROVE  \/ worker'[n][w] = worker[n][w] /\ (up[n] => up'[n])
             \/ WorkerOK(chain', up', life', n, worker'[n][w])
  <2>1. CASE n \in S
    BY <2>1, PopOK DEF End
  <2>2. CASE n \notin S
    BY <2>2 DEF End
  <2> QED BY <2>1, <2>2
<1> QED BY <1>1, <1>2, InFlightNext

\* The end of any processes, node 0 included or not, keeps the invariant.
LEMMA EndInv ==
  ASSUME IInv, TypeOK', NEW S, End(S), chain' = chain, life' = life
  PROVE  IInv'
<1>1. LedgerInv' /\ ReplicaPrefix' /\ Extends(chain, chain')
  BY LedgerSame
<1>2. \A n \in Nodes : Lives(chain, up, life, chain', up', life', n)
  BY DEF End, Lives, IInv, TypeOK
<1>3. InFlightInv'
  BY <1>1, <1>2, EndInFlight
<1> QED BY <1>1, <1>3 DEF IInv

\* One worker moves to state s, at most one message is sent or taken.
LEMMA MoveInv ==
  ASSUME IInv, TypeOK', UNCHANGED <<up, life>>,
         LedgerInv', ReplicaPrefix', Extends(chain, chain'),
         \A n \in Nodes : Len(chain[n]) <= Len(chain'[n]),
         \A n \in Nodes : \/ inbox'[n] = inbox[n]
                         \/ (inbox[n] # <<>> /\ inbox'[n] = Tail(inbox[n]))
                         \/ \E msg \in Message : /\ inbox'[n] = Append(inbox[n], msg)
                                     /\ MessageOK(chain', up', life', msg),
         NEW p \in Nodes, NEW w \in Workers, NEW s, SetWorker(p, w, s),
         WorkerOK(chain', up', life', p, s)
  PROVE  IInv'
<1>1. \A n \in Nodes : Lives(chain, up, life, chain', up', life', n)
  BY DEF Lives
<1>2. ASSUME NEW n \in Nodes, NEW v \in Workers
      PROVE  \/ worker'[n][v] = worker[n][v] /\ (up[n] => up'[n])
             \/ WorkerOK(chain', up', life', n, worker'[n][v])
  <2>1. CASE n = p /\ v = w
    <3>1. worker'[n][v] = s
      BY <2>1 DEF SetWorker, IInv, TypeOK
    <3> QED BY <2>1, <3>1
  <2>2. CASE ~(n = p /\ v = w)
    <3>1. worker'[n][v] = worker[n][v]
      BY <2>2 DEF SetWorker, IInv, TypeOK
    <3> QED BY <3>1
  <2> QED BY <2>1, <2>2
<1>3. InFlightInv'
  BY <1>1, <1>2, InFlightNext
<1> QED BY <1>3 DEF IInv

-----------------------------------------------------------------------------
(* The invariant is inductive: one lemma per kind of step.                 *)

\* The invariant holds at the start.
LEMMA InitInv == Init => IInv
<1> SUFFICES ASSUME Init PROVE IInv OBVIOUS
<1>1. TypeOK
  BY InitType
<1>2. chain[0] = InitialChain
  BY ZeroIsNode DEF Init
<1>3. LedgerInv
  <2>1. \A n \in Nodes : chain[n] = InitialChain
    BY DEF Init
  <2>2. Len(InitialChain) \in Nat /\ (\A i \in 1..Len(InitialChain) : ~(i > Len(InitialChain)))
    BY InitialChainAssumption
  <2>3. LedgerValid
    BY <1>2, InitialChainAssumption DEF LedgerValid
  <2> QED BY <1>2, <2>1, <2>2, <2>3, InitialChainAssumption DEF LedgerInv
<1>4. ReplicaPrefix
  BY <1>2, InitialChainAssumption DEF ReplicaPrefix, Init
<1>5. InFlightInv
  BY PopOK DEF InFlightInv, Init
<1> QED BY <1>1, <1>3, <1>4, <1>5 DEF IInv

\* Steps that leave all chains alone.
LEMMA QuietInv ==
  ASSUME IInv, TypeOK', chain' = chain, UNCHANGED <<up, life>>,
         \A n \in Nodes : \/ inbox'[n] = inbox[n]
                         \/ (inbox[n] # <<>> /\ inbox'[n] = Tail(inbox[n]))
                         \/ \E msg \in Message :
                              /\ inbox'[n] = Append(inbox[n], msg)
                              /\ MessageOK(chain, up, life, msg),
         NEW p \in Nodes, NEW w \in Workers, NEW s, SetWorker(p, w, s),
         WorkerOK(chain, up, life, p, s)
  PROVE  IInv'
<1>1. LedgerInv' /\ ReplicaPrefix' /\ Extends(chain, chain')
  BY LedgerSame
<1>2. \A n \in Nodes : Len(chain[n]) <= Len(chain'[n])
  BY DEF IInv, TypeOK
<1>3. WorkerOK(chain', up', life', p, s)
  OBVIOUS
<1>4. ASSUME NEW n \in Nodes
      PROVE  \/ inbox'[n] = inbox[n]
             \/ (inbox[n] # <<>> /\ inbox'[n] = Tail(inbox[n]))
             \/ \E msg \in Message : /\ inbox'[n] = Append(inbox[n], msg)
                                     /\ MessageOK(chain', up', life', msg)
  OBVIOUS
<1> QED BY <1>1, <1>2, <1>3, <1>4, MoveInv

\* A miner that listens, proposes, gives up or ends keeps the invariant.
LEMMA MinerStepInv ==
  ASSUME IInv, TypeOK', NEW m \in Miners,
         Listen(m) \/ Propose(m) \/ ProposeFails(m) \/ KillMiner(m) \/ StopListening(m)
  PROVE  IInv'
<1>1. CASE Propose(m)
  <2>1. LedgerInv' /\ ReplicaPrefix'
    BY <1>1, LedgerSame DEF Propose
  <2>2. PICK p \in Payload : /\ p # Malformed => Writable(p)
                             /\ inbox' = [inbox EXCEPT ![0] = Append(@,
                                  [type |-> "BLOCK_PROPOSAL", miner |-> m, body |-> p])]
    BY <1>1 DEF Propose
  <2> DEFINE msg == [type |-> "BLOCK_PROPOSAL", miner |-> m, body |-> p]
  <2>3. MessageOK(chain, up, life, msg)
    BY <2>2 DEF MessageOK
  <2> HIDE DEF msg
  <2>4. ASSUME NEW n \in Nodes, NEW k \in 1..Len(inbox'[n])
        PROVE  MessageOK(chain, up, life, inbox'[n][k])
    <3>1. inbox[n] \in Seq(Message) /\ Len(inbox[n]) \in Nat
      BY DEF IInv, TypeOK
    <3>2. CASE inbox'[n] = inbox[n]
      BY <3>2 DEF IInv, InFlightInv
    <3>3. CASE inbox'[n] = Append(inbox[n], msg)
      <4>1. CASE k \in 1..Len(inbox[n])
        BY <3>1, <3>3, <4>1 DEF IInv, InFlightInv
      <4>2. CASE k = Len(inbox[n]) + 1
        BY <2>3, <3>1, <3>3, <4>2
      <4> QED BY <3>1, <3>3, <4>1, <4>2
    <3> QED BY <2>2, <3>2, <3>3 DEF IInv, TypeOK, msg
  <2>5. InFlightInv'
    BY <1>1, <2>4 DEF Propose, IInv, InFlightInv
  <2> QED BY <2>1, <2>5 DEF IInv
<1>2. CASE \/ Listen(m) \/ ProposeFails(m)
           \/ (KillMiner(m) \/ StopListening(m)) /\ UNCHANGED <<up, inbox, worker>>
  <2>1. UNCHANGED <<chain, up, life, inbox, worker>>
    BY <1>2 DEF Listen, ProposeFails, KillMiner, StopListening
  <2>2. LedgerInv' /\ ReplicaPrefix'
    BY <2>1, LedgerSame
  <2>3. InFlightInv'
    BY <2>1 DEF IInv, InFlightInv
  <2> QED BY <2>2, <2>3 DEF IInv
<1>3. CASE (KillMiner(m) \/ StopListening(m)) /\ CoordinatorEnds({})
  BY <1>3, EndInv DEF KillMiner, StopListening, CoordinatorEnds
<1> QED BY <1>1, <1>2, <1>3 DEF KillMiner, StopListening, MinerSocketGoes

\* A replica that starts again from the initial chain keeps the invariant:
\* requests of its former life are no longer connected.
LEMMA StartInv ==
  ASSUME IInv, TypeOK', NEW n \in Nodes, Start(n)
  PROVE  IInv'
<1>1. /\ LedgerInv' /\ ReplicaPrefix' /\ Extends(chain, chain')
      /\ \A m \in Nodes \ {n} : chain'[m] = chain[m]
  BY ChainReset DEF Start
<1>2. ASSUME NEW m \in Nodes
      PROVE  Lives(chain, up, life, chain', up', life', m)
  <2>1. Len(chain[m]) \in Nat
    BY DEF IInv, TypeOK
  <2> QED BY <1>1, <2>1 DEF Start, Lives, IInv, TypeOK
<1>3. \A m \in Nodes : inbox'[m] = inbox[m]
  BY DEF Start
<1>4. \A m \in Nodes : \A w \in Workers :
        worker'[m][w] = worker[m][w] /\ (up[m] => up'[m])
  BY DEF Start, IInv, TypeOK
<1>5. InFlightInv'
  BY <1>1, <1>2, <1>3, <1>4, InFlightNext
<1> QED BY <1>1, <1>5 DEF IInv

\* The death of a node keeps the invariant.
LEMMA KillNodeInv ==
  ASSUME IInv, TypeOK', NEW n \in Nodes, KillNode(n)
  PROVE  IInv'
BY EndInv DEF KillNode, CoordinatorEnds

\* Taking a message from the inbox keeps the invariant.
LEMMA PopInv ==
  ASSUME IInv, TypeOK', NEW n \in Nodes, NEW w \in Workers, Pop(n, w)
  PROVE  IInv'
<1> DEFINE s == [pc |-> "handle", msg |-> Head(inbox[n])]
<1>1. inbox \in [Nodes -> Seq(Message)] /\ inbox[n] # <<>> /\ up[n]
  BY DEF Pop, IInv, TypeOK
<1>2. Head(inbox[n]) = inbox[n][1] /\ 1 \in 1..Len(inbox[n])
  BY <1>1
<1>3. MessageOK(chain, up, life, Head(inbox[n]))
  BY <1>2 DEF IInv, InFlightInv
<1>4. WorkerOK(chain, up, life, n, s)
  BY <1>1, <1>3 DEF WorkerOK
<1>5. \A m \in Nodes : \/ inbox'[m] = inbox[m]
                      \/ (inbox[m] # <<>> /\ inbox'[m] = Tail(inbox[m]))
  BY <1>1 DEF Pop
<1>6. SetWorker(n, w, s) /\ chain' = chain /\ UNCHANGED <<up, life>>
  BY DEF Pop
<1> HIDE DEF s
<1> QED BY <1>4, <1>5, <1>6, QuietInv

\* The coordinator's answer to a proposal keeps the invariant; an accepted
\* block extends the ledger, and nothing under way notices.
LEMMA HandleProposalInv ==
  ASSUME IInv, TypeOK', NEW w \in Workers, HandleProposal(w)
  PROVE  IInv'
<1> DEFINE s == worker[0][w]
<1>1. s \in WorkerState /\ WorkerOK(chain, up, life, 0, s) /\ s.pc = "handle"
  BY ZeroIsNode DEF HandleProposal, IInv, TypeOK, InFlightInv
<1>2. up[0] /\ UNCHANGED <<up, life, inbox>>
  BY <1>1 DEF WorkerOK, HandleProposal
<1>3. s.msg.body \in Payload /\ (s.msg.body # Malformed => Writable(s.msg.body))
  BY <1>1, WorkerFields, MessageFields DEF HandleProposal, WorkerOK, MessageOK
<1> DEFINE r == [pc |-> "reply", miner |-> s.msg.miner, body |-> s.msg.body, ok |-> FALSE]
           t == [pc |-> "broadcast", miner |-> s.msg.miner, block |-> s.msg.body, peer |-> 1]
<1>4. CASE SetWorker(0, w, r) /\ chain' = chain
  <2>1. WorkerOK(chain, up, life, 0, r)
    BY <1>2 DEF WorkerOK
  <2> HIDE DEF r
  <2> QED BY <1>2, <1>4, <2>1, QuietInv, ZeroIsNode
<1>5. CASE /\ s.msg.body # Malformed /\ ValidNext(chain[0], s.msg.body)
           /\ chain' = [chain EXCEPT ![0] = Append(@, s.msg.body)]
           /\ SetWorker(0, w, t)
  <2>1. s.msg.body \in Block
    BY <1>3, <1>5 DEF Payload
  <2>2. /\ LedgerInv' /\ ReplicaPrefix' /\ Extends(chain, chain')
        /\ OnLedger(chain', s.msg.body)
        /\ \A n \in Nodes : Len(chain[n]) <= Len(chain'[n])
    BY <1>3, <1>5, <2>1, LedgerAppend
  <2>3. WorkerOK(chain', up', life', 0, t)
    BY <1>2, <2>2 DEF WorkerOK
  <2> HIDE DEF t
  <2> QED BY <1>2, <1>5, <2>2, <2>3, MoveInv, ZeroIsNode
<1> QED BY <1>3, <1>4, <1>5 DEF HandleProposal

\* A round of the broadcast keeps the invariant: what it sends is on the ledger.
LEMMA BroadcastInv ==
  ASSUME IInv, TypeOK', NEW w \in Workers, Broadcast(w) \/ BroadcastDone(w)
  PROVE  IInv'
<1> DEFINE s == worker[0][w]
           msg == [type |-> "BLOCK_COMMIT", block |-> s.block]
           t == [pc |-> "broadcast", miner |-> s.miner, block |-> s.block, peer |-> s.peer + 1]
           r == [pc |-> "reply", miner |-> s.miner, body |-> s.block, ok |-> TRUE]
<1>1. s \in WorkerState /\ WorkerOK(chain, up, life, 0, s) /\ s.pc = "broadcast"
  BY ZeroIsNode DEF Broadcast, BroadcastDone, IInv, TypeOK, InFlightInv
<1>2. up[0] /\ OnLedger(chain, s.block) /\ s.block \in Block
  BY <1>1, WorkerFields DEF WorkerOK
<1>3. chain' = chain /\ UNCHANGED <<up, life>>
  BY DEF Broadcast, BroadcastDone
<1>4. msg \in Message /\ MessageOK(chain, up, life, msg)
  BY <1>2 DEF Message, CommitMsg, MessageOK
<1>5. WorkerOK(chain, up, life, 0, t) /\ WorkerOK(chain, up, life, 0, r)
  BY <1>2 DEF WorkerOK
<1>6. CASE Broadcast(w)
  <2>1. SetWorker(0, w, t)
    BY <1>6 DEF Broadcast
  <2>2. ASSUME NEW n \in Nodes
        PROVE  inbox'[n] = inbox[n] \/ inbox'[n] = Append(inbox[n], msg)
    <3>1. CASE inbox' = inbox
      BY <3>1
    <3>2. CASE inbox' = [inbox EXCEPT ![s.peer] = Append(@, msg)]
      <4> HIDE DEF msg
      <4> QED BY <3>2 DEF IInv, TypeOK
    <3> QED BY <1>6, <3>1, <3>2 DEF Broadcast
  <2> HIDE DEF msg, t
  <2> QED BY <1>3, <1>4, <1>5, <2>1, <2>2, QuietInv, ZeroIsNode
<1>7. CASE BroadcastDone(w)
  <2>1. SetWorker(0, w, r) /\ inbox' = inbox
    BY <1>7 DEF BroadcastDone
  <2> HIDE DEF r
  <2> QED BY <1>3, <1>5, <2>1, QuietInv, ZeroIsNode
<1> QED BY <1>6, <1>7

\* The reply to a proposer keeps the invariant, also when it kills node 0.
LEMMA ReplyInv ==
  ASSUME IInv, TypeOK', NEW w \in Workers, Reply(w)
  PROVE  IInv'
<1>1. CASE SetWorker(0, w, Popping) /\ UNCHANGED <<up, inbox>>
  BY <1>1, PopOK, QuietInv, ZeroIsNode DEF Reply
<1>2. CASE CoordinatorEnds({})
  BY <1>2, EndInv DEF Reply, CoordinatorEnds
<1> QED BY <1>1, <1>2 DEF Reply

\* The lines of a sync response are a piece of the ledger.
LEMMA HandleSyncRequestInv ==
  ASSUME IInv, TypeOK', NEW w \in Workers, HandleSyncRequest(w)
  PROVE  IInv'
<1> DEFINE s == worker[0][w]
           from == s.msg.from
           ls == SyncLines(chain[0], from)
           t == [pc |-> "serve", to |-> s.msg.to, from |-> from, lines |-> ls]
<1>1. /\ s \in WorkerState /\ WorkerOK(chain, up, life, 0, s) /\ s.pc = "handle"
      /\ s.msg.type = "SYNC_REQUEST"
  BY ZeroIsNode DEF HandleSyncRequest, IInv, TypeOK, InFlightInv
<1>2. from \in Nat
  BY <1>1, WorkerFields, MessageFields
<1>3. up[0] /\ RequestOK(chain, up, life, s.msg.to, from)
  BY <1>1 DEF WorkerOK, MessageOK
<1>4. chain[0] \in Seq(Block) /\ Len(chain[0]) \in Nat
  BY ZeroIsNode DEF IInv, TypeOK
<1>5. LedgerFrom(chain, from, ls)
  <2>1. \A i \in 1..Len(chain[0]) : i > from => Writable(chain[0][i])
    <3>1. Len(InitialChain) \in Nat /\ Len(InitialChain) <= from
      BY <1>3, InitialChainAssumption DEF RequestOK
    <3> HIDE DEF from
    <3> QED BY <1>2, <3>1 DEF IInv, LedgerInv
  <2> HIDE DEF from
  <2>2. /\ from <= Len(chain[0]) => Len(ls) = Len(chain[0]) - from
        /\ from > Len(chain[0]) => ls = <<>>
        /\ \A i \in 1..Len(ls) : ls[i] = chain[0][from + i]
    BY <1>2, <1>4, <2>1, SyncLinesComplete
  <2> HIDE DEF ls
  <2>3. \A i \in 1..Len(ls) : from + i <= Len(chain[0])
    <3>1. CASE from <= Len(chain[0])
      BY <1>2, <1>4, <2>2, <3>1
    <3>2. CASE from > Len(chain[0])
      BY <2>2, <3>2
    <3> QED BY <1>2, <1>4, <3>1, <3>2
  <2> QED BY <2>2, <2>3 DEF LedgerFrom
<1>6. WorkerOK(chain, up, life, 0, t)
  BY <1>3, <1>5 DEF WorkerOK
<1>7. SetWorker(0, w, t) /\ chain' = chain /\ UNCHANGED <<up, life, inbox>>
  BY DEF HandleSyncRequest
<1> HIDE DEF t
<1> QED BY <1>6, <1>7, QuietInv, ZeroIsNode

\* The answer reaches a worker that waits for it, in the life that asked.
LEMMA ServeInv ==
  ASSUME IInv, TypeOK', NEW w \in Workers, Serve(w)
  PROVE  IInv'
<1> DEFINE s == worker[0][w]
           t == IF s.lines # <<>> /\ Len(s.lines) <= MaxSyncBlocks
                  THEN [pc |-> "synced", next |-> s.from, lines |-> s.lines]
                  ELSE Popping
<1>1. s \in WorkerState /\ WorkerOK(chain, up, life, 0, s) /\ s.pc = "serve"
  BY ZeroIsNode DEF Serve, IInv, TypeOK, InFlightInv
<1>2. /\ s.to \in Requester /\ RequestOK(chain, up, life, s.to, s.from)
      /\ LedgerFrom(chain, s.from, s.lines)
  BY <1>1, WorkerFields DEF WorkerOK
<1>3. CASE /\ Connected(s.to)
           /\ worker' = [worker EXCEPT ![0][w] = Popping, ![s.to.node][s.to.worker] = t]
           /\ UNCHANGED <<up, inbox>>
  <2> DEFINE p == s.to.node
             q == s.to.worker
  <2>1. p \in Nodes /\ q \in Workers
    BY <1>2, RequesterFields
  <2>2. up[p] /\ s.from <= Len(chain[p])
    BY <1>2, <1>3 DEF Connected, RequestOK
  <2>3. WorkerOK(chain, up, life, p, t)
    BY <1>2, <2>2 DEF WorkerOK, Popping
  <2>4. chain' = chain /\ UNCHANGED <<up, life, inbox>>
    BY <1>3 DEF Serve
  <2> HIDE DEF t
  <2>5. ASSUME NEW n \in Nodes, NEW v \in Workers
        PROVE  \/ worker'[n][v] = worker[n][v] /\ (up[n] => up'[n])
               \/ WorkerOK(chain', up', life', n, worker'[n][v])
    <3>1. CASE n = p /\ v = q
      <4>1. worker'[n][v] = t
        BY <1>3, <2>1, <3>1, ZeroIsNode DEF IInv, TypeOK
      <4> QED BY <2>3, <2>4, <3>1, <4>1
    <3>2. CASE ~(n = p /\ v = q) /\ n = 0 /\ v = w
      <4>1. worker'[n][v] = Popping
        BY <1>3, <2>1, <3>2, ZeroIsNode DEF IInv, TypeOK
      <4> QED BY <4>1, PopOK
    <3>3. CASE ~(n = p /\ v = q) /\ ~(n = 0 /\ v = w)
      <4>1. worker'[n][v] = worker[n][v]
        BY <1>3, <2>1, <3>3, ZeroIsNode DEF IInv, TypeOK
      <4> QED BY <2>4, <4>1
    <3> QED BY <3>1, <3>2, <3>3
  <2>6. LedgerInv' /\ ReplicaPrefix' /\ Extends(chain, chain')
    BY <2>4, LedgerSame
  <2>7. \A n \in Nodes : Lives(chain, up, life, chain', up', life', n)
    BY <2>4 DEF Lives, IInv, TypeOK
  <2>8. \A n \in Nodes : inbox'[n] = inbox[n]
    BY <2>4
  <2>9. InFlightInv'
    BY <2>5, <2>6, <2>7, <2>8, InFlightNext
  <2> QED BY <2>6, <2>9 DEF IInv
<1>4. CASE SetWorker(0, w, Popping) /\ UNCHANGED <<up, inbox>>
  BY <1>4, PopOK, QuietInv, ZeroIsNode DEF Serve
<1>5. CASE CoordinatorEnds({})
  BY <1>5, EndInv DEF Serve, CoordinatorEnds
<1> QED BY <1>3, <1>4, <1>5 DEF Serve

\* A commit at a replica keeps the invariant: an appended block is the
\* ledger's block at that position.
LEMMA HandleCommitInv ==
  ASSUME IInv, TypeOK', NEW n \in Nodes, NEW w \in Workers, HandleCommit(n, w)
  PROVE  IInv'
<1> DEFINE s == worker[n][w]
           b == s.msg.block
           t == [pc |-> "connect", from |-> Len(chain[n])]
<1>1. /\ s \in WorkerState /\ WorkerOK(chain, up, life, n, s) /\ s.pc = "handle"
      /\ s.msg.type = "BLOCK_COMMIT"
  BY DEF HandleCommit, IInv, TypeOK, InFlightInv
<1>2. b \in Block /\ OnLedger(chain, b) /\ up[n]
  BY <1>1, WorkerFields, MessageFields DEF WorkerOK, MessageOK
<1>3. UNCHANGED <<up, life, inbox>>
  BY DEF HandleCommit
<1>4. CASE SetWorker(n, w, Popping) /\ chain' = chain
  BY <1>3, <1>4, PopOK, QuietInv
<1>5. CASE SetWorker(n, w, t) /\ chain' = chain
  <2>1. WorkerOK(chain, up, life, n, t)
    BY <1>2 DEF WorkerOK, IInv, TypeOK, LedgerInv
  <2> HIDE DEF t
  <2> QED BY <1>3, <1>5, <2>1, QuietInv
<1>6. CASE /\ b.index = Len(chain[n]) /\ SetWorker(n, w, Popping)
           /\ chain' = [chain EXCEPT ![n] = Append(@, b)]
  <2>1. /\ LedgerInv' /\ ReplicaPrefix' /\ Extends(chain, chain')
        /\ \A m \in Nodes : Len(chain[m]) <= Len(chain'[m])
    BY <1>2, <1>6, CopyNext
  <2> QED BY <1>3, <1>6, <2>1, PopOK, MoveInv
<1> QED BY <1>4, <1>5, <1>6 DEF HandleCommit

\* Sending a sync request keeps the invariant.
LEMMA RequestSyncInv ==
  ASSUME IInv, TypeOK', NEW n \in Nodes, NEW w \in Workers, RequestSync(n, w)
  PROVE  IInv'
<1> DEFINE s == worker[n][w]
           to == [node |-> n, worker |-> w, life |-> life[n]]
           msg == [type |-> "SYNC_REQUEST", to |-> to, from |-> s.from]
           t == [pc |-> "await", from |-> s.from]
<1>1. s \in WorkerState /\ WorkerOK(chain, up, life, n, s) /\ s.pc = "connect"
  BY DEF RequestSync, IInv, TypeOK, InFlightInv
<1>2. s.from \in Nat /\ s.from <= Len(chain[n]) /\ Len(InitialChain) <= s.from /\ up[n]
  BY <1>1, WorkerFields DEF WorkerOK
<1>3. to \in Requester /\ life[n] \in Nat
  BY DEF Requester, IInv, TypeOK
<1>4. msg \in Message
  BY <1>2, <1>3 DEF Message, SyncRequest
<1>5. MessageOK(chain, up, life, msg)
  BY <1>2, <1>3 DEF MessageOK, RequestOK
<1>6. WorkerOK(chain, up, life, n, t)
  BY <1>2 DEF WorkerOK
<1>7. chain' = chain /\ UNCHANGED <<up, life>>
  BY DEF RequestSync
<1>8. CASE /\ inbox' = [inbox EXCEPT ![0] = Append(@, msg)]
           /\ SetWorker(n, w, t)
  <2> HIDE DEF msg, t
  <2>1. \A m \in Nodes : inbox'[m] = inbox[m] \/ inbox'[m] = Append(inbox[m], msg)
    BY <1>8 DEF IInv, TypeOK
  <2> QED BY <1>4, <1>5, <1>6, <1>7, <1>8, <2>1, QuietInv
<1>9. CASE SetWorker(n, w, Popping) /\ inbox' = inbox
  BY <1>7, <1>9, PopOK, QuietInv
<1> QED BY <1>8, <1>9 DEF RequestSync

\* A sync that fails keeps the invariant.
LEMMA SyncFailsInv ==
  ASSUME IInv, TypeOK', NEW n \in Nodes, NEW w \in Workers, SyncFails(n, w)
  PROVE  IInv'
BY PopOK, QuietInv DEF SyncFails

\* The line at position k + 1 of the coordinator's chain fits a chain that
\* has k blocks, and no longer one: re-sent blocks are skipped.
LEMMA SyncedFits ==
  ASSUME IInv, NEW n \in Nodes, NEW k \in Nat, NEW b \in Block,
         k < Len(chain[0]), b = chain[0][k + 1], k <= Len(chain[n])
  PROVE  ValidSynced(chain[n], b) <=> k = Len(chain[n])
<1>1. /\ chain[0] \in Seq(Block) /\ Len(chain[0]) \in Nat
      /\ chain[n] \in Seq(Block) /\ Len(chain[n]) \in Nat
  BY ZeroIsNode DEF IInv, TypeOK
<1>2. k + 1 \in 1..Len(chain[0]) /\ b.index = k
  BY <1>1 DEF IInv, LedgerInv
<1>3. validate_blockchain(chain[0])
  BY <1>1 DEF IInv, LedgerInv, LedgerValid
<1>4. validate_block_merkle_root(b) /\ validate_block_structure(b)
  BY <1>2, <1>3 DEF validate_blockchain, validate_block_merkle_root
<1>5. CASE chain[n] = <<>>
  <2>1. k = Len(chain[n])
    BY <1>5
  <2> QED BY <1>4, <1>5, <2>1 DEF ValidSynced
<1>6. CASE chain[n] # <<>>
  <2> DEFINE j == Len(chain[n])
  <2>1. j \in 1..Len(chain[n]) /\ j <= Len(chain[0]) /\ chain[n][j] = chain[0][j]
    BY <1>1, <1>6 DEF IInv, ReplicaPrefix
  <2>2. j \in 1..Len(chain[0])
    BY <1>1, <2>1
  <2>3. chain[n][j].index = j - 1
    BY <2>1, <2>2 DEF IInv, LedgerInv
  <2>4. ASSUME k = j PROVE validate_block_link(chain[n][j], b)
    <3>1. k + 1 \in 2..Len(chain[0]) /\ (k + 1) - 1 = j
      BY <1>1, <1>2, <2>1, <2>4
    <3>2. validate_block_link(chain[0][(k + 1) - 1], chain[0][k + 1])
      BY <1>3, <3>1 DEF validate_blockchain
    <3> QED BY <2>1, <3>1, <3>2
  <2>5. ASSUME validate_block_link(chain[n][j], b) PROVE k = j
    <3>1. b.index = chain[n][j].index + 1
      BY <2>5 DEF validate_block_link
    <3> QED BY <1>1, <1>2, <2>3, <3>1
  <2> QED BY <1>4, <1>6, <2>4, <2>5 DEF ValidSynced
<1> QED BY <1>5, <1>6

\* A synced line keeps the invariant: it is skipped or it is the ledger's
\* next block, although the chain may have grown since the request.
LEMMA ApplySyncedInv ==
  ASSUME IInv, TypeOK', NEW n \in Nodes, NEW w \in Workers, ApplySynced(n, w)
  PROVE  IInv'
<1> DEFINE s == worker[n][w]
           k == s.next
           b == Head(s.lines)
           rest == Tail(s.lines)
           t == IF rest = <<>> THEN Popping
                ELSE [pc |-> "apply", next |-> k + 1, lines |-> rest]
<1>1. /\ s \in WorkerState /\ WorkerOK(chain, up, life, n, s)
      /\ s.pc \in {"synced", "apply"}
  BY DEF ApplySynced, IInv, TypeOK, InFlightInv
<1>2. /\ k \in Nat /\ s.lines \in Seq(Block) \ {<<>>}
      /\ k <= Len(chain[n]) /\ LedgerFrom(chain, k, s.lines) /\ up[n]
  BY <1>1, WorkerFields DEF WorkerOK
<1>3. Len(chain[0]) \in Nat /\ Len(chain[n]) \in Nat
  BY ZeroIsNode DEF IInv, TypeOK
<1>4. 1 \in 1..Len(s.lines) /\ b = s.lines[1] /\ b \in Block
  BY <1>2
<1>5. k < Len(chain[0]) /\ b = chain[0][k + 1]
  BY <1>2, <1>3, <1>4 DEF LedgerFrom
<1>6. ValidSynced(chain[n], b) <=> k = Len(chain[n])
  BY <1>2, <1>4, <1>5, SyncedFits
<1>7. b.index = k /\ OnLedger(chain, b)
  <2>1. k + 1 \in 1..Len(chain[0])
    BY <1>2, <1>3, <1>5
  <2>2. b.index = k
    <3> HIDE DEF b, k
    <3>1. chain[0][k + 1].index = (k + 1) - 1
      BY <2>1 DEF IInv, LedgerInv
    <3> QED BY <1>2, <1>5, <3>1
  <2> QED BY <1>5, <2>2 DEF OnLedger
<1>8. /\ chain' = IF ValidSynced(chain[n], b) THEN [chain EXCEPT ![n] = Append(@, b)]
                                              ELSE chain
      /\ SetWorker(n, w, t) /\ UNCHANGED <<up, life, inbox>>
  BY DEF ApplySynced
<1>9. ASSUME Extends(chain, chain'), k + 1 <= Len(chain'[n])
      PROVE  WorkerOK(chain', up', life', n, t)
  <2>1. CASE rest = <<>>
    BY <2>1, PopOK
  <2>2. CASE rest # <<>>
    <3>1. LedgerFrom(chain, k + 1, rest)
      <4> SUFFICES ASSUME NEW i \in 1..Len(rest)
                   PROVE  (k + 1) + i <= Len(chain[0]) /\ rest[i] = chain[0][(k + 1) + i]
        BY DEF LedgerFrom
      <4>1. i + 1 \in 1..Len(s.lines) /\ rest[i] = s.lines[i + 1] /\ i \in Nat
        BY <1>2
      <4>2. k + (i + 1) <= Len(chain[0]) /\ s.lines[i + 1] = chain[0][k + (i + 1)]
        BY <1>2, <4>1 DEF LedgerFrom
      <4> HIDE DEF k
      <4>3. k + (i + 1) = (k + 1) + i
        BY <1>2, <4>1
      <4> QED BY <4>1, <4>2, <4>3
    <3>2. chain \in ChainType /\ chain' \in ChainType
      BY DEF IInv, TypeOK, ChainType
    <3>3. rest \in Seq(Block) /\ k + 1 \in Nat
      BY <1>2
    <3>4. LedgerFrom(chain', k + 1, rest)
      BY <1>9, <3>1, <3>2, <3>3, LedgerFromKept
    <3> HIDE DEF k, rest
    <3> QED BY <1>2, <1>8, <1>9, <2>2, <3>4 DEF WorkerOK
  <2> QED BY <2>1, <2>2
<1>10. CASE k = Len(chain[n])
  <2>1. chain' = [chain EXCEPT ![n] = Append(@, b)]
    BY <1>6, <1>8, <1>10
  <2>2. /\ LedgerInv' /\ ReplicaPrefix' /\ Extends(chain, chain')
        /\ \A m \in Nodes : Len(chain[m]) <= Len(chain'[m])
        /\ Len(chain'[n]) = Len(chain[n]) + 1
    <3> HIDE DEF b, k
    <3> QED BY <1>4, <1>7, <1>10, <2>1, CopyNext
  <2>3. k + 1 <= Len(chain'[n])
    <3> HIDE DEF k
    <3> QED BY <1>3, <1>10, <2>2
  <2>4. WorkerOK(chain', up', life', n, t)
    BY <1>9, <2>2, <2>3
  <2> HIDE DEF t
  <2> QED BY <1>8, <2>2, <2>4, MoveInv
<1>11. CASE k # Len(chain[n])
  <2>1. chain' = chain
    BY <1>6, <1>8, <1>11
  <2>2. LedgerInv' /\ ReplicaPrefix' /\ Extends(chain, chain')
    BY <2>1, LedgerSame
  <2>3. k + 1 <= Len(chain'[n])
    BY <1>2, <1>3, <1>11, <2>1
  <2>4. WorkerOK(chain', up', life', n, t)
    BY <1>9, <2>2, <2>3
  <2>5. \A m \in Nodes : Len(chain[m]) <= Len(chain'[m])
    BY <2>1 DEF IInv, TypeOK
  <2> HIDE DEF t
  <2> QED BY <1>8, <2>2, <2>4, <2>5, MoveInv
<1> QED BY <1>10, <1>11

\* A step that changes nothing keeps the invariant.
LEMMA StutterInv ==
  ASSUME IInv, TypeOK', UNCHANGED vars
  PROVE  IInv'
<1>1. LedgerInv' /\ ReplicaPrefix'
  BY LedgerSame DEF vars
<1>2. InFlightInv'
  BY DEF vars, IInv, InFlightInv
<1> QED BY <1>1, <1>2 DEF IInv

\* Every step keeps the invariant.
LEMMA StepInv == IInv /\ [Next]_vars => IInv'
<1> SUFFICES ASSUME IInv, [Next]_vars PROVE IInv' OBVIOUS
<1>1. TypeOK'
  BY TypeStep DEF IInv
<1>2. ASSUME NEW w \in Workers, CoordinatorStep(w) PROVE IInv'
  BY <1>1, <1>2, HandleProposalInv, BroadcastInv, ReplyInv, HandleSyncRequestInv,
     ServeInv DEF CoordinatorStep
<1>3. ASSUME NEW n \in Nodes, NEW w \in Workers, NodeStep(n, w) PROVE IInv'
  BY <1>1, <1>3, PopInv, HandleCommitInv, RequestSyncInv, SyncFailsInv,
     ApplySyncedInv DEF NodeStep
<1> QED BY <1>1, <1>2, <1>3, MinerStepInv, StartInv, KillNodeInv, StutterInv DEF Next

\* The inductive invariant holds in every reachable state of handle_message
\* and its handlers, on all nodes.
THEOREM Invariant == Spec => []IInv
<1>1. Init => IInv
  BY InitInv
<1>2. IInv /\ [Next]_vars => IInv'
  BY StepInv
<1> QED BY <1>1, <1>2, PTL DEF Spec

\* A node never holds a block the coordinator does not hold at the same
\* position, whatever broadcast_commit and the syncs lose or repeat.
THEOREM ReplicasArePrefixes == Spec => []ReplicaPrefix
<1>1. IInv => ReplicaPrefix
  BY DEF IInv
<1> QED BY <1>1, Invariant, PTL

\* What handle_block_proposal accepts keeps the coordinator's chain valid.
THEOREM LedgerAlwaysValid == Spec => []LedgerValid
<1>1. IInv => LedgerValid
  BY DEF IInv, LedgerInv
<1> QED BY <1>1, Invariant, PTL

\* handle_block_commit may compare a block's index with the chain's length.
THEOREM IndexesArePositions == Spec => []IndexIsPosition
<1>1. IInv => IndexIsPosition
  <2> SUFFICES ASSUME IInv, NEW n \in Nodes, NEW i \in 1..Len(chain[n])
               PROVE  chain[n][i].index = i - 1
    BY DEF IndexIsPosition
  <2>1. Len(chain[n]) \in Nat /\ Len(chain[0]) \in Nat
    BY ZeroIsNode DEF IInv, TypeOK
  <2>2. i \in 1..Len(chain[0]) /\ chain[n][i] = chain[0][i]
    BY <2>1 DEF IInv, ReplicaPrefix
  <2> QED BY <2>2 DEF IInv, LedgerInv
<1> QED BY <1>1, Invariant, PTL

-----------------------------------------------------------------------------
(* The nodes implement the abstract ledger.                                *)

CommitStep(b) == /\ ValidNext(chain[0], b)
                 /\ chain' = [chain EXCEPT ![0] = Append(@, b)]
AdvanceStep(n) == /\ Len(chain[n]) < Len(chain[0])
                  /\ chain' = [chain EXCEPT ![n] = Append(@, chain[0][Len(chain[n]) + 1])]
RestartStep(n) == chain' = [chain EXCEPT ![n] = InitialChain]

\* A synced line leaves the chains alone or advances one replica.
LEMMA ApplySyncedChain ==
  ASSUME IInv, NEW n \in Nodes, NEW w \in Workers, ApplySynced(n, w)
  PROVE  chain' = chain \/ (n \in Replicas /\ AdvanceStep(n))
<1> DEFINE s == worker[n][w]
           k == s.next
           b == Head(s.lines)
<1>1. /\ s \in WorkerState /\ WorkerOK(chain, up, life, n, s)
      /\ s.pc \in {"synced", "apply"}
  BY DEF ApplySynced, IInv, TypeOK, InFlightInv
<1>2. /\ k \in Nat /\ s.lines \in Seq(Block) \ {<<>>}
      /\ k <= Len(chain[n]) /\ LedgerFrom(chain, k, s.lines)
  BY <1>1, WorkerFields DEF WorkerOK
<1>3. Len(chain[0]) \in Nat /\ Len(chain[n]) \in Nat
  BY ZeroIsNode DEF IInv, TypeOK
<1>4. 1 \in 1..Len(s.lines) /\ b = s.lines[1] /\ b \in Block
  BY <1>2
<1>5. k < Len(chain[0]) /\ b = chain[0][k + 1]
  BY <1>2, <1>3, <1>4 DEF LedgerFrom
<1>6. ValidSynced(chain[n], b) <=> k = Len(chain[n])
  BY <1>2, <1>4, <1>5, SyncedFits
<1>7. chain' = IF ValidSynced(chain[n], b) THEN [chain EXCEPT ![n] = Append(@, b)]
                                           ELSE chain
  BY DEF ApplySynced
<1> HIDE DEF b, k
<1>8. CASE k = Len(chain[n])
  <2>1. n # 0
    BY <1>3, <1>5, <1>8
  <2>2. chain' = [chain EXCEPT ![n] = Append(@, b)]
    BY <1>6, <1>7, <1>8
  <2>3. AdvanceStep(n)
    BY <1>5, <1>8, <2>2 DEF AdvanceStep
  <2> QED BY <2>1, <2>3 DEF Replicas
<1>9. CASE k # Len(chain[n])
  BY <1>6, <1>7, <1>9
<1> QED BY <1>8, <1>9

\* A commit leaves the chains alone or advances one replica.
LEMMA HandleCommitChain ==
  ASSUME IInv, NEW n \in Nodes, NEW w \in Workers, HandleCommit(n, w)
  PROVE  chain' = chain \/ (n \in Replicas /\ AdvanceStep(n))
<1> DEFINE s == worker[n][w]
           b == s.msg.block
<1>1. /\ s \in WorkerState /\ WorkerOK(chain, up, life, n, s) /\ s.pc = "handle"
      /\ s.msg.type = "BLOCK_COMMIT"
  BY DEF HandleCommit, IInv, TypeOK, InFlightInv
<1>2. OnLedger(chain, b)
  BY <1>1, WorkerFields, MessageFields DEF WorkerOK, MessageOK
<1>3. Len(chain[0]) \in Nat
  BY ZeroIsNode DEF IInv, TypeOK
<1>4. chain' = chain \/ (b.index = Len(chain[n]) /\ chain' = [chain EXCEPT ![n] = Append(@, b)])
  BY DEF HandleCommit
<1> HIDE DEF b
<1>5. CASE b.index = Len(chain[n]) /\ chain' = [chain EXCEPT ![n] = Append(@, b)]
  <2>1. Len(chain[n]) < Len(chain[0]) /\ chain[0][Len(chain[n]) + 1] = b
    BY <1>2, <1>5 DEF OnLedger
  <2>2. n # 0
    BY <1>3, <2>1
  <2> QED BY <1>5, <2>1, <2>2 DEF AdvanceStep, Replicas
<1> QED BY <1>4, <1>5

\* A proposal leaves the chains alone or commits a valid block.
LEMMA HandleProposalChain ==
  ASSUME IInv, NEW w \in Workers, HandleProposal(w)
  PROVE  chain' = chain \/ \E b \in Block : CommitStep(b)
<1> DEFINE s == worker[0][w]
<1>1. s \in WorkerState /\ s.pc = "handle" /\ s.msg.type = "BLOCK_PROPOSAL"
  BY ZeroIsNode DEF HandleProposal, IInv, TypeOK
<1>2. s.msg.body \in Payload
  BY <1>1, WorkerFields, MessageFields
<1>3. \/ chain' = chain
      \/ s.msg.body # Malformed /\ CommitStep(s.msg.body)
  BY DEF HandleProposal, CommitStep
<1>4. CASE s.msg.body # Malformed /\ CommitStep(s.msg.body)
  BY <1>2, <1>4 DEF Payload
<1> QED BY <1>3, <1>4

\* Every step leaves the chains alone or is a step of the abstract ledger.
LEMMA ChainStep ==
  ASSUME IInv, [Next]_vars
  PROVE  \/ chain' = chain
         \/ \E b \in Block : CommitStep(b)
         \/ \E n \in Replicas : AdvanceStep(n) \/ RestartStep(n)
<1>1. CASE UNCHANGED vars
  BY <1>1 DEF vars
<1>2. ASSUME NEW m \in Miners, \/ Listen(m) \/ Propose(m) \/ ProposeFails(m)
                              \/ KillMiner(m) \/ StopListening(m)
      PROVE  chain' = chain
  BY <1>2 DEF Listen, Propose, ProposeFails, KillMiner, StopListening
<1>3. ASSUME NEW w \in Workers, CoordinatorStep(w)
      PROVE  chain' = chain \/ \E b \in Block : CommitStep(b)
  <2>1. CASE HandleProposal(w)
    BY <2>1, HandleProposalChain
  <2>2. CASE ~HandleProposal(w)
    BY <1>3, <2>2 DEF CoordinatorStep, Broadcast, BroadcastDone, Reply,
                      HandleSyncRequest, Serve
  <2> QED BY <2>1, <2>2
<1>4. ASSUME NEW n \in Nodes, NEW w \in Workers, NodeStep(n, w)
      PROVE  chain' = chain \/ (n \in Replicas /\ AdvanceStep(n))
  <2>1. CASE HandleCommit(n, w)
    BY <2>1, HandleCommitChain
  <2>2. CASE ApplySynced(n, w)
    BY <2>2, ApplySyncedChain
  <2>3. CASE Pop(n, w) \/ RequestSync(n, w) \/ SyncFails(n, w)
    BY <2>3 DEF Pop, RequestSync, SyncFails
  <2> QED BY <1>4, <2>1, <2>2, <2>3 DEF NodeStep
<1>5. ASSUME NEW n \in Nodes, Start(n) PROVE n \in Replicas /\ RestartStep(n)
  BY <1>5 DEF Start, Replicas, RestartStep
<1>6. ASSUME NEW n \in Nodes, KillNode(n) PROVE chain' = chain
  BY <1>6 DEF KillNode
<1> QED BY <1>1, <1>2, <1>3, <1>4, <1>5, <1>6 DEF Next

\* Every step of the nodes is a step, or a stutter, of the abstract ledger.
LEMMA LedgerStep == IInv /\ [Next]_vars => [L!Next]_(L!ledgerVars)
<1> SUFFICES ASSUME IInv, [Next]_vars PROVE [L!Next]_(L!ledgerVars)
  OBVIOUS
<1> DEFINE copy == [r \in Replicas |-> chain[r]]
<1>1. chain \in [Nodes -> Seq(Block)] /\ 0 \in Nodes /\ 0 \notin Replicas
      /\ Replicas \subseteq Nodes
  BY ZeroIsNode DEF IInv, TypeOK, Replicas
<1>2. CASE chain' = chain
  BY <1>2 DEF L!ledgerVars
<1>3. ASSUME NEW b \in Block, CommitStep(b) PROVE L!Next
  <2>1. chain'[0] = Append(chain[0], b) /\ copy' = copy
    BY <1>1, <1>3 DEF CommitStep
  <2>2. L!Commit
    BY <1>3, <2>1 DEF CommitStep, L!Commit, ValidNext, L!ValidNext
  <2> QED BY <2>2 DEF L!Next
<1>4. ASSUME NEW n \in Replicas, AdvanceStep(n) PROVE L!Next
  <2>1. /\ chain'[0] = chain[0]
        /\ copy' = [copy EXCEPT ![n] = Append(@, chain[0][Len(@) + 1])]
        /\ Len(copy[n]) < Len(chain[0])
    BY <1>1, <1>4 DEF AdvanceStep
  <2>2. L!Advance(n)
    BY <2>1 DEF L!Advance
  <2> QED BY <2>2 DEF L!Next
<1>5. ASSUME NEW n \in Replicas, RestartStep(n) PROVE L!Next
  <2>1. /\ chain'[0] = chain[0]
        /\ copy' = [copy EXCEPT ![n] = InitialChain]
    BY <1>1, <1>5 DEF RestartStep
  <2>2. L!Restart(n)
    BY <2>1 DEF L!Restart
  <2> QED BY <2>2 DEF L!Next
<1> QED BY <1>2, <1>3, <1>4, <1>5, ChainStep

\* node.c implements the ledger: the coordinator's chain is the ledger, and
\* the only things that ever happen to it and to the replicas' chains are a
\* valid commit, a replica's next block, and a replica's restart.
THEOREM NodesImplementLedger == Spec => ImplementsLedger
<1>1. Init => L!Init
  BY ZeroIsNode DEF Init, L!Init, Replicas
<1>2. IInv /\ [Next]_vars => [L!Next]_(L!ledgerVars)
  BY LedgerStep
<1> QED BY <1>1, <1>2, Invariant, PTL DEF Spec, ImplementsLedger, L!Spec
=============================================================================
