---------------------------- MODULE CommitProofs ----------------------------
(***************************************************************************)
(* Proofs about the answers and the broadcasts of node 0, on top of the    *)
(* invariant of ReplicationProofs: one winner per index, and miners that   *)
(* hear the chain in order.                                                *)
(***************************************************************************)
EXTENDS ReplicationProofs

(* What a step may do to the part of the state that the two invariants     *)
(* read: node 0's chain and workers, the answers and the miners.           *)

\* Only worker w of node 0 moves, to state s.
OnlyMoves(w, s) ==
  /\ worker'[0][w] = s
  /\ \A v \in Workers : v # w => worker'[0][v] = worker[0][v]

\* No miner comes to listen or hears anything, but one may stop listening.
EarsKept ==
  \A m \in Miners :
    /\ heard'[m].blocks = heard[m].blocks /\ heard'[m].since = heard[m].since
    /\ heard'[m].socket = "starting" => heard[m].socket = "starting"
    /\ Listening(m)' => Listening(m)

\* Nothing happens to a block for which an answer is due, unless node 0 ends.
Quiet ==
  /\ chain'[0] = chain[0] /\ acks' = acks /\ EarsKept
  /\ up'[0] => up[0]
  /\ \/ ~up'[0] /\ \A w \in Workers : ~Due(worker'[0][w])
     \/ \A w \in Workers : \/ worker'[0][w] = worker[0][w]
                           \/ ~Due(worker[0][w]) /\ ~Due(worker'[0][w])

\* Worker w appends block b and starts to broadcast it.
Accepts(w, b) ==
  /\ ValidNext(chain[0], b) /\ chain'[0] = Append(chain[0], b)
  /\ ~Due(worker[0][w]) /\ ChainLockFree(0)
  /\ \E m \in Miners :
       OnlyMoves(w, [pc |-> "broadcast", miner |-> m, block |-> b, peer |-> 1])
  /\ UNCHANGED <<heard, acks, miner>> /\ up'[0] = up[0]

\* Worker w answers OK to the proposer of its block.
Acknowledges(w) ==
  /\ worker[0][w].pc = "reply" /\ worker[0][w].ok
  /\ acks' = Append(acks, worker[0][w].body)
  /\ OnlyMoves(w, Popping)
  /\ chain'[0] = chain[0] /\ EarsKept /\ up'[0] = up[0]

\* A step that leaves the sockets alone and revives no miner.
LEMMA SocketsAlone ==
  ASSUME heard' = heard, \A m \in Miners : miner'[m] # "dead" => miner[m] # "dead"
  PROVE  EarsKept
BY DEF EarsKept, Listening

\* Setting a worker of node n leaves all others alone.
LEMMA SetWorkerElse ==
  ASSUME IInv, NEW n \in Nodes, NEW w \in Workers, NEW s, SetWorker(n, w, s)
  PROVE  /\ worker'[n][w] = s
         /\ \A k \in Nodes, v \in Workers : k # n \/ v # w => worker'[k][v] = worker[k][v]
BY DEF IInv, TypeOK, SetWorker

\* The death of processes is quiet: node 0 and its workers end with it.
LEMMA EndQuiet ==
  ASSUME IInv, NEW S, End(S), chain' = chain, acks' = acks, EarsKept
  PROVE  Quiet
<1>1. up'[0] => up[0]
  BY ZeroIsNode DEF End
<1>2. CASE 0 \in S
  BY <1>1, <1>2, ZeroIsNode DEF End, Quiet, Popping, Due
<1>3. CASE 0 \notin S
  BY <1>1, <1>3, ZeroIsNode DEF End, Quiet
<1> QED BY <1>2, <1>3

\* A worker of node n moves between two states in which no answer is due.
LEMMA MoveQuiet ==
  ASSUME IInv, NEW n \in Nodes, NEW w \in Workers, NEW s, SetWorker(n, w, s),
         ~Due(s), ~Due(worker[n][w]), chain'[0] = chain[0],
         UNCHANGED <<up, acks>>, EarsKept
  PROVE  Quiet
<1>1. /\ worker'[n][w] = s
      /\ \A k \in Nodes, v \in Workers : k # n \/ v # w => worker'[k][v] = worker[k][v]
  BY SetWorkerElse
<1> QED BY <1>1, ZeroIsNode DEF Quiet

\* The steps of the worker threads that replicas run too are quiet.
LEMMA NodeStepQuiet ==
  ASSUME IInv, NEW n \in Nodes, NEW w \in Workers, NodeStep(n, w)
  PROVE  Quiet
<1>1. chain'[0] = chain[0] /\ UNCHANGED <<up, heard, acks, miner>>
  <2>1. chain' = chain \/ (n \in Replicas /\ AdvanceStep(n))
    BY HandleCommitChain, ApplySyncedChain DEF NodeStep, Pop, RequestSync, SyncFails
  <2>2. chain'[0] = chain[0]
    BY <2>1, ZeroIsNode DEF AdvanceStep, Replicas, IInv, TypeOK
  <2> QED BY <2>2 DEF NodeStep, Pop, HandleCommit, RequestSync, SyncFails, ApplySynced
<1>2. ~Due(worker[n][w])
  BY DEF NodeStep, Pop, HandleCommit, RequestSync, SyncFails, ApplySynced, Due
<1>3. \E s : ~Due(s) /\ SetWorker(n, w, s)
  <2>1. CASE Pop(n, w)
    BY <2>1 DEF Pop, Due
  <2>2. CASE HandleCommit(n, w)
    BY <2>2 DEF HandleCommit, Due, Popping
  <2>3. CASE RequestSync(n, w)
    BY <2>3 DEF RequestSync, Due, Popping
  <2>4. CASE SyncFails(n, w)
    BY <2>4 DEF SyncFails, Due, Popping
  <2>5. CASE ApplySynced(n, w)
    <3> DEFINE rest == Tail(worker[n][w].lines)
               t == IF rest = <<>> THEN Popping
                    ELSE [pc |-> "apply", next |-> worker[n][w].next + 1, lines |-> rest]
    <3>1. SetWorker(n, w, t)
      BY <2>5 DEF ApplySynced
    <3>2. ~Due(t)
      BY DEF Due, Popping
    <3> QED BY <3>1, <3>2
  <2> QED BY <2>1, <2>2, <2>3, <2>4, <2>5 DEF NodeStep
<1>4. EarsKept
  BY <1>1, SocketsAlone
<1> QED BY <1>1, <1>2, <1>3, <1>4, MoveQuiet

\* handle_block_proposal refuses quietly or accepts.
LEMMA HandleProposalView ==
  ASSUME IInv, NEW w \in Workers, HandleProposal(w)
  PROVE  Quiet \/ \E b \in Block : Accepts(w, b)
<1> DEFINE s == worker[0][w]
           r == [pc |-> "reply", miner |-> s.msg.miner, body |-> s.msg.body, ok |-> FALSE]
           t == [pc |-> "broadcast", miner |-> s.msg.miner, block |-> s.msg.body, peer |-> 1]
<1>1. s \in WorkerState /\ s.pc = "handle" /\ s.msg.type = "BLOCK_PROPOSAL"
  BY ZeroIsNode DEF HandleProposal, IInv, TypeOK
<1>2. s.msg.body \in Payload /\ s.msg.miner \in Miners
  BY <1>1, WorkerFields, MessageFields
<1>3. ~Due(s) /\ ~Due(r)
  BY <1>1 DEF Due
<1>4. UNCHANGED <<up, heard, acks, miner>> /\ EarsKept
  BY SocketsAlone DEF HandleProposal
<1>5. CASE SetWorker(0, w, r) /\ chain' = chain
  <2> HIDE DEF r
  <2> QED BY <1>3, <1>4, <1>5, MoveQuiet, ZeroIsNode
<1>6. CASE /\ s.msg.body # Malformed /\ ValidNext(chain[0], s.msg.body) /\ ChainLockFree(0)
           /\ chain' = [chain EXCEPT ![0] = Append(@, s.msg.body)]
           /\ SetWorker(0, w, t)
  <2>1. s.msg.body \in Block
    BY <1>2, <1>6 DEF Payload
  <2>2. chain'[0] = Append(chain[0], s.msg.body)
    BY <1>6, ZeroIsNode DEF IInv, TypeOK
  <2>3. OnlyMoves(w, t)
    <3> HIDE DEF t
    <3> QED BY <1>6, SetWorkerElse, ZeroIsNode DEF OnlyMoves
  <2>4. Accepts(w, s.msg.body)
    BY <1>2, <1>3, <1>4, <1>6, <2>2, <2>3 DEF Accepts
  <2> QED BY <2>1, <2>4
<1>7. s.msg.body # Malformed => Writable(s.msg.body)
  BY <1>1, ZeroIsNode DEF IInv, InFlightInv, WorkerOK, MessageOK
<1> HIDE DEF r, t
<1> QED BY <1>5, <1>6, <1>7 DEF HandleProposal, r, t

\* The answer to a proposer acknowledges a block, or is quiet.
LEMMA ReplyView ==
  ASSUME IInv, NEW w \in Workers, Reply(w)
  PROVE  Quiet \/ Acknowledges(w)
<1> DEFINE s == worker[0][w]
<1>1. s \in WorkerState /\ s.pc = "reply" /\ s.miner \in Miners
  BY WorkerFields, ZeroIsNode DEF Reply, IInv, TypeOK
<1>2. CASE /\ miner[s.miner] # "dead"
           /\ miner' = [miner EXCEPT ![s.miner] = "idle"]
           /\ acks' = IF s.ok THEN Append(acks, s.body) ELSE acks
           /\ SetWorker(0, w, Popping) /\ UNCHANGED <<up, inbox>>
  <2>1. \A m \in Miners : miner'[m] # "dead" => miner[m] # "dead"
    BY <1>1, <1>2 DEF IInv, TypeOK
  <2>2. chain' = chain /\ EarsKept
    BY <2>1, SocketsAlone DEF Reply
  <2>3. CASE s.ok
    <3>1. OnlyMoves(w, Popping)
      BY <1>2, SetWorkerElse, ZeroIsNode DEF OnlyMoves
    <3> QED BY <1>1, <1>2, <2>1, <2>2, <2>3, <3>1 DEF Acknowledges
  <2>4. CASE ~s.ok
    <3>1. ~Due(s) /\ ~Due(Popping)
      BY <1>1, <2>4 DEF Due, Popping
    <3> QED BY <1>2, <2>1, <2>2, <2>4, <3>1, MoveQuiet, ZeroIsNode
  <2> QED BY <2>3, <2>4
<1>3. ASSUME NEW T, End({} \cup {0} \cup T), UNCHANGED <<miner, acks>> PROVE Quiet
  BY <1>3, EndQuiet, SocketsAlone DEF Reply
<1> QED BY <1>2, <1>3 DEF Reply, CoordinatorEnds

\* Serving a sync is quiet, also when it kills node 0.
LEMMA SyncQuiet ==
  ASSUME IInv, NEW w \in Workers, HandleSyncRequest(w) \/ Serve(w)
  PROVE  Quiet
<1> DEFINE s == worker[0][w]
<1>1. chain' = chain /\ acks' = acks /\ EarsKept /\ ~Due(s) /\ ~Due(Popping)
  BY SocketsAlone DEF HandleSyncRequest, Serve, Due, Popping
<1>2. CASE HandleSyncRequest(w)
  <2> DEFINE t == [pc |-> "serve", to |-> s.msg.to, from |-> s.msg.from,
                   lines |-> SyncLines(chain[0], s.msg.from)]
  <2>1. SetWorker(0, w, t) /\ ~Due(t) /\ up' = up
    BY <1>2 DEF HandleSyncRequest, Due
  <2> HIDE DEF t
  <2> QED BY <1>1, <2>1, MoveQuiet, ZeroIsNode
<1>3. CASE SetWorker(0, w, Popping) /\ UNCHANGED <<up, inbox>>
  BY <1>1, <1>3, MoveQuiet, ZeroIsNode
<1>4. ASSUME NEW T, End({} \cup {0} \cup T) PROVE Quiet
  BY <1>1, <1>4, EndQuiet
<1>5. CASE Serve(w) /\ worker[s.to.node][s.to.worker].pc = "await" /\ UNCHANGED <<up, inbox>>
  <2> DEFINE a == IF s.lines # <<>> /\ Len(s.lines) <= MaxSyncBlocks
                    THEN [pc |-> "synced", next |-> s.from, lines |-> s.lines]
                    ELSE Popping
  <2>1. s \in WorkerState /\ s.to.node \in Nodes /\ s.to.worker \in Workers
    BY <1>5, WorkerFields, RequesterFields, ZeroIsNode DEF Serve, IInv, TypeOK
  <2>2. ~Due(a)
    BY DEF Due, Popping
  <2>3. CASE worker' = [worker EXCEPT ![0][w] = Popping, ![s.to.node][s.to.worker] = a]
    <3> HIDE DEF a
    <3>1. \A v \in Workers : \/ worker'[0][v] = worker[0][v]
                             \/ v = w /\ worker'[0][v] = Popping
                             \/ v = s.to.worker /\ s.to.node = 0 /\ worker'[0][v] = a
      BY <2>1, <2>3, ZeroIsNode DEF IInv, TypeOK
    <3>2. \A v \in Workers : \/ worker'[0][v] = worker[0][v]
                             \/ ~Due(worker[0][v]) /\ ~Due(worker'[0][v])
      BY <1>1, <1>5, <2>2, <3>1 DEF Due
    <3> QED BY <1>1, <1>5, <3>2 DEF Quiet
  <2>4. CASE SetWorker(0, w, Popping)
    BY <1>1, <1>5, <2>4, MoveQuiet, ZeroIsNode
  <2> QED BY <1>4, <1>5, <2>3, <2>4 DEF Serve, CoordinatorEnds
<1> QED BY <1>2, <1>3, <1>4, <1>5 DEF Serve, CoordinatorEnds

\* Every step is quiet, accepts a proposal, is a round of a broadcast or its
\* end, acknowledges a block or is a miner that comes to listen.
LEMMA StepView ==
  ASSUME IInv, [Next]_vars
  PROVE  \/ Quiet
         \/ \E w \in Workers, b \in Block : Accepts(w, b)
         \/ \E w \in Workers : Broadcast(w) \/ BroadcastDone(w) \/ Acknowledges(w)
         \/ \E m \in Miners : Listen(m)
<1>1. CASE UNCHANGED vars
  BY <1>1, SocketsAlone DEF vars, Quiet
<1>2. ASSUME NEW m \in Miners,
             Propose(m) \/ ProposeFails(m) \/ KillMiner(m) \/ StopListening(m)
      PROVE  Quiet
  <2>1. ASSUME Propose(m) \/ ProposeFails(m) \/ KillMiner(m) PROVE EarsKept
    <3>1. \A k \in Miners : miner'[k] # "dead" => miner[k] # "dead"
      BY <2>1 DEF Propose, ProposeFails, KillMiner, IInv, TypeOK
    <3>2. heard' = heard
      BY <2>1 DEF Propose, ProposeFails, KillMiner
    <3> QED BY <3>1, <3>2, SocketsAlone
  <2>2. ASSUME StopListening(m) PROVE EarsKept
    <3>1. heard' = [heard EXCEPT ![m].socket = "closed"] /\ miner' = miner
      BY <2>2 DEF StopListening
    <3>2. heard \in [Miners -> Ear]
      BY DEF IInv, TypeOK
    <3> QED BY <3>1, <3>2 DEF EarsKept, Listening, Ear
  <2>3. EarsKept
    BY <1>2, <2>1, <2>2
  <2>4. UNCHANGED <<chain, acks>>
    BY <1>2 DEF Propose, ProposeFails, KillMiner, StopListening
  <2>5. CASE UNCHANGED <<up, worker>>
    BY <2>3, <2>4, <2>5 DEF Quiet
  <2>6. ASSUME NEW T, End({} \cup {0} \cup T) PROVE Quiet
    BY <2>3, <2>4, <2>6, EndQuiet
  <2> QED BY <1>2, <2>5, <2>6 DEF Propose, ProposeFails, KillMiner, StopListening,
                                  MinerSocketGoes, CoordinatorEnds
<1>3. ASSUME NEW n \in Nodes, Start(n) PROVE Quiet
  <2>1. EarsKept
    BY <1>3, SocketsAlone DEF Start
  <2> QED BY <1>3, <2>1, ZeroIsNode DEF Start, Quiet, IInv, TypeOK
<1>4. ASSUME NEW n \in Nodes, KillNode(n) PROVE Quiet
  <2>1. EarsKept
    BY <1>4, SocketsAlone DEF KillNode
  <2> QED BY <1>4, <2>1, EndQuiet DEF KillNode, CoordinatorEnds
<1> QED BY <1>1, <1>2, <1>3, <1>4, NodeStepQuiet, HandleProposalView, ReplyView, SyncQuiet
        DEF Next, CoordinatorStep

-----------------------------------------------------------------------------
(* One winner per index.                                                   *)

\* The block for which an answer is due is a block.
LEMMA DueBlockType ==
  ASSUME IInv, NEW w \in Workers, Due(worker[0][w])
  PROVE  DueBlock(worker[0][w]) \in Block
BY WorkerFields, ZeroIsNode DEF IInv, TypeOK, Due, DueBlock

\* The length of node 0's chain, its blocks and the answers have their types.
LEMMA CoordinatorTypes ==
  ASSUME IInv
  PROVE  /\ chain \in ChainType /\ chain[0] \in Seq(Block) /\ Len(chain[0]) \in Nat
         /\ acks \in Seq(Block) /\ Len(acks) \in Nat
         /\ \A b \in Block : b.index \in Nat
BY BlockAssumption, ZeroIsNode DEF IInv, TypeOK, ChainType

\* Node 0's chain only grows.
LEMMA LedgerGrows ==
  ASSUME IInv, chain'[0] = chain[0] \/ \E b \in Block : chain'[0] = Append(chain[0], b)
  PROVE  Extends(chain, chain')
BY CoordinatorTypes DEF Extends

\* An answered block stays on the ledger.
LEMMA AckedKept ==
  ASSUME IInv, IInv', AckInv, Extends(chain, chain'), NEW i \in 1..Len(acks)
  PROVE  acks[i] \in Block /\ OnLedger(chain', acks[i])
<1>1. acks[i] \in Block
  BY CoordinatorTypes
<1>2. OnLedger(chain, acks[i])
  BY DEF AckInv
<1>3. chain \in ChainType /\ chain' \in ChainType
  BY DEF IInv, TypeOK, ChainType
<1> QED BY <1>1, <1>2, <1>3, OnLedgerKept

\* A step that neither answers nor takes up a block keeps AckInv: the blocks
\* for which an answer is due afterwards are due before, at the same workers.
LEMMA AckKept ==
  ASSUME IInv, IInv', AckInv, Extends(chain, chain'), acks' = acks,
         \A w \in Workers : Due(worker'[0][w]) =>
           Due(worker[0][w]) /\ DueBlock(worker'[0][w]) = DueBlock(worker[0][w])
  PROVE  AckInv'
<1>1. \A i \in 1..Len(acks) : OnLedger(chain', acks[i])
  BY AckedKept
<1>2. \A w \in Workers : Due(worker'[0][w]) => OnLedger(chain', DueBlock(worker'[0][w]))
  BY CoordinatorTypes, DueBlockType, OnLedgerKept DEF AckInv, IInv, TypeOK, ChainType
<1> QED BY <1>1, <1>2 DEF AckInv

\* A block that handle_block_proposal appends has an index of its own.
LEMMA AckAccept ==
  ASSUME IInv, IInv', AckInv, NEW w \in Workers, NEW b \in Block, Accepts(w, b)
  PROVE  AckInv'
<1>1. PICK m \in Miners :
        OnlyMoves(w, [pc |-> "broadcast", miner |-> m, block |-> b, peer |-> 1])
  BY DEF Accepts
<1>2. Due(worker'[0][w]) /\ DueBlock(worker'[0][w]) = b
  BY <1>1 DEF OnlyMoves, Due, DueBlock
<1>3. \A v \in Workers : v # w => worker'[0][v] = worker[0][v]
  BY <1>1 DEF OnlyMoves
<1>4. b.index = Len(chain[0])
  BY CoordinatorTypes, ValidNextIndex DEF Accepts, IInv, LedgerInv
<1>5. Extends(chain, chain') /\ OnLedger(chain', b)
  <2>1. Extends(chain, chain')
    BY LedgerGrows DEF Accepts
  <2>2. OnLedger(chain', b)
    BY <1>4, CoordinatorTypes DEF Accepts, OnLedger
  <2> QED BY <2>1, <2>2
<1>6. acks' = acks
  BY DEF Accepts
<1>7. \A i \in 1..Len(acks) : OnLedger(chain', acks[i]) /\ acks[i].index # b.index
  <2>1. \A i \in 1..Len(acks) : acks[i].index < Len(chain[0]) /\ acks[i].index \in Nat
    BY <1>5, AckedKept, BlockAssumption DEF AckInv, OnLedger
  <2> QED BY <1>4, <1>5, <2>1, AckedKept, CoordinatorTypes
<1>8. \A v \in Workers : v # w /\ Due(worker'[0][v]) =>
        /\ OnLedger(chain', DueBlock(worker'[0][v]))
        /\ DueBlock(worker'[0][v]).index # b.index
        /\ \A i \in 1..Len(acks) : acks[i].index # DueBlock(worker'[0][v]).index
  <2> SUFFICES ASSUME NEW v \in Workers, v # w, Due(worker'[0][v])
               PROVE  /\ OnLedger(chain', DueBlock(worker'[0][v]))
                      /\ DueBlock(worker'[0][v]).index # b.index
                      /\ \A i \in 1..Len(acks) :
                           acks[i].index # DueBlock(worker'[0][v]).index
    OBVIOUS
  <2> DEFINE d == DueBlock(worker[0][v])
  <2>1. Due(worker[0][v]) /\ DueBlock(worker'[0][v]) = d
    BY <1>3
  <2>2. /\ OnLedger(chain, d) /\ d \in Block
        /\ \A i \in 1..Len(acks) : acks[i].index # d.index
    BY <2>1, DueBlockType DEF AckInv
  <2> HIDE DEF d
  <2>3. OnLedger(chain', d)
    BY <1>5, <2>2, CoordinatorTypes, OnLedgerKept DEF IInv, TypeOK, ChainType
  <2>4. d.index # b.index
    BY <1>4, <2>2, CoordinatorTypes DEF OnLedger
  <2> QED BY <2>1, <2>2, <2>3, <2>4
<1>9. \A u, v \in Workers :
        Due(worker'[0][u]) /\ Due(worker'[0][v]) /\ u # v =>
          DueBlock(worker'[0][u]).index # DueBlock(worker'[0][v]).index
  BY <1>2, <1>3, <1>8 DEF AckInv
<1> HIDE DEF Due, DueBlock
<1>10. ASSUME NEW v \in Workers, Due(worker'[0][v])
       PROVE  /\ OnLedger(chain', DueBlock(worker'[0][v]))
              /\ \A i \in 1..Len(acks) : acks[i].index # DueBlock(worker'[0][v]).index
  BY <1>2, <1>5, <1>7, <1>8, <1>10
<1> QED BY <1>6, <1>7, <1>9, <1>10 DEF AckInv

\* The answer OK moves a block from the due ones to the answered ones.
LEMMA AckAnswer ==
  ASSUME IInv, IInv', AckInv, NEW w \in Workers, Acknowledges(w)
  PROVE  AckInv'
<1> DEFINE b == worker[0][w].body
<1>1. Due(worker[0][w]) /\ DueBlock(worker[0][w]) = b /\ b \in Block
  BY DueBlockType DEF Acknowledges, Due, DueBlock
<1>2. acks' = Append(acks, b) /\ chain'[0] = chain[0]
  BY DEF Acknowledges
<1>3. \A v \in Workers : Due(worker'[0][v]) => v # w /\ worker'[0][v] = worker[0][v]
  BY DEF Acknowledges, OnlyMoves, Due, Popping
<1>4. /\ OnLedger(chain, b)
      /\ \A i \in 1..Len(acks) : acks[i].index # b.index
      /\ \A v \in Workers : Due(worker[0][v]) /\ v # w =>
           DueBlock(worker[0][v]).index # b.index
  BY <1>1 DEF AckInv
<1> HIDE DEF b
<1>5. /\ Len(acks') = Len(acks) + 1 /\ Len(acks) \in Nat
      /\ \A i \in 1..Len(acks) : acks'[i] = acks[i]
      /\ acks'[Len(acks) + 1] = b
  BY <1>1, <1>2, CoordinatorTypes
<1>6. \A i \in 1..Len(acks') : i \in 1..Len(acks) \/ i = Len(acks) + 1
  BY <1>5
<1>7. \A i \in 1..Len(acks') : OnLedger(chain', acks'[i])
  BY <1>2, <1>4, <1>5, <1>6 DEF AckInv, OnLedger
<1>8. \A i, j \in 1..Len(acks') : i # j => acks'[i].index # acks'[j].index
  BY <1>4, <1>5, <1>6 DEF AckInv
<1>9. \A v \in Workers : Due(worker'[0][v]) =>
        /\ OnLedger(chain', DueBlock(worker'[0][v]))
        /\ \A i \in 1..Len(acks') : acks'[i].index # DueBlock(worker'[0][v]).index
  BY <1>2, <1>3, <1>4, <1>5, <1>6 DEF AckInv, OnLedger
<1>10. \A u, v \in Workers :
         Due(worker'[0][u]) /\ Due(worker'[0][v]) /\ u # v =>
           DueBlock(worker'[0][u]).index # DueBlock(worker'[0][v]).index
  BY <1>3 DEF AckInv
<1> QED BY <1>7, <1>8, <1>9, <1>10 DEF AckInv

\* A round of a broadcast, or its end, keeps the block that is due.
LEMMA BroadcastMoves ==
  ASSUME IInv, NEW w \in Workers, Broadcast(w) \/ BroadcastDone(w)
  PROVE  /\ chain' = chain /\ acks' = acks /\ up' = up /\ miner' = miner
         /\ worker[0][w].pc = "broadcast"
         /\ \E s : /\ OnlyMoves(w, s) /\ Due(s)
                   /\ DueBlock(s) = DueBlock(worker[0][w])
                   /\ Broadcast(w) => /\ s.pc = "broadcast" /\ s.block = worker[0][w].block
                                      /\ s.peer = worker[0][w].peer + 1
                   /\ BroadcastDone(w) => s.pc = "reply"
<1> DEFINE s == worker[0][w]
           t == [pc |-> "broadcast", miner |-> s.miner, block |-> s.block, peer |-> s.peer + 1]
           r == [pc |-> "reply", miner |-> s.miner, body |-> s.block, ok |-> TRUE]
<1>1. /\ chain' = chain /\ acks' = acks /\ up' = up /\ miner' = miner
      /\ s.pc = "broadcast"
  BY DEF Broadcast, BroadcastDone
<1>2. ~(Broadcast(w) /\ BroadcastDone(w))
  <2>1. s.peer \in Nat /\ 2 * MAX_PROBE_PEERS \in Nat
    BY <1>1, WorkerFields, ZeroIsNode, BoundAssumption DEF IInv, TypeOK
  <2>2. Broadcast(w) => s.peer < 2 * MAX_PROBE_PEERS
    BY DEF Broadcast
  <2>3. BroadcastDone(w) => s.peer = 2 * MAX_PROBE_PEERS
    BY DEF BroadcastDone
  <2> QED BY <2>1, <2>2, <2>3
<1>3. CASE Broadcast(w)
  <2>1. SetWorker(0, w, t)
    BY <1>3 DEF Broadcast
  <2>2. Due(t) /\ DueBlock(t) = DueBlock(s)
    BY <1>1 DEF Due, DueBlock
  <2>3. t.pc = "broadcast" /\ t.block = s.block /\ t.peer = s.peer + 1
    OBVIOUS
  <2> HIDE DEF t
  <2>4. OnlyMoves(w, t)
    BY <2>1, SetWorkerElse, ZeroIsNode DEF OnlyMoves
  <2> QED BY <1>1, <1>2, <1>3, <2>2, <2>3, <2>4
<1>4. CASE BroadcastDone(w)
  <2>1. SetWorker(0, w, r)
    BY <1>4 DEF BroadcastDone
  <2>2. Due(r) /\ DueBlock(r) = DueBlock(s) /\ r.pc = "reply"
    BY <1>1 DEF Due, DueBlock
  <2> HIDE DEF r
  <2>3. OnlyMoves(w, r)
    BY <2>1, SetWorkerElse, ZeroIsNode DEF OnlyMoves
  <2> QED BY <1>1, <1>2, <1>4, <2>2, <2>3
<1> QED BY <1>3, <1>4

\* Every step keeps AckInv.
LEMMA AckStep == IInv /\ AckInv /\ [Next]_vars => AckInv'
<1> SUFFICES ASSUME IInv, AckInv, [Next]_vars PROVE AckInv' OBVIOUS
<1>1. IInv'
  BY StepInv
<1>2. CASE Quiet
  <2>1. Extends(chain, chain') /\ acks' = acks
    BY <1>2, LedgerGrows DEF Quiet
  <2>2. \A w \in Workers : Due(worker'[0][w]) =>
          Due(worker[0][w]) /\ DueBlock(worker'[0][w]) = DueBlock(worker[0][w])
    BY <1>2 DEF Quiet
  <2> QED BY <1>1, <2>1, <2>2, AckKept
<1>3. ASSUME NEW w \in Workers, Broadcast(w) \/ BroadcastDone(w) PROVE AckInv'
  <2>1. PICK s : OnlyMoves(w, s) /\ Due(s) /\ DueBlock(s) = DueBlock(worker[0][w])
    BY <1>3, BroadcastMoves
  <2>2. Due(worker[0][w]) /\ chain' = chain /\ acks' = acks
    BY <1>3, BroadcastMoves DEF Due
  <2>3. Extends(chain, chain')
    BY <2>2, LedgerGrows
  <2>4. \A v \in Workers : Due(worker'[0][v]) =>
          Due(worker[0][v]) /\ DueBlock(worker'[0][v]) = DueBlock(worker[0][v])
    BY <2>1, <2>2 DEF OnlyMoves
  <2> QED BY <1>1, <2>2, <2>3, <2>4, AckKept
<1>4. ASSUME NEW m \in Miners, Listen(m) PROVE AckInv'
  BY <1>1, <1>4, AckKept, LedgerGrows DEF Listen
<1> QED BY <1>1, <1>2, <1>3, <1>4, StepView, AckAccept, AckAnswer

\* Of the proposals that race at node 0 for an index, handle_block_proposal
\* answers one at most with MSG_RESPONSE_OK, and its block is the committed
\* one, for any number of workers, miners and proposals.
THEOREM OneWinner == Spec => []OneWinnerPerIndex
<1>1. Init => AckInv
  BY ZeroIsNode DEF Init, AckInv, Due, Popping
<1>2. IInv /\ AckInv /\ [Next]_vars => AckInv'
  BY AckStep
<1>3. IInv /\ AckInv => OneWinnerPerIndex
  BY CoordinatorTypes DEF AckInv, OneWinnerPerIndex, OnLedger
<1> QED BY <1>1, <1>2, <1>3, Invariant, PTL DEF Spec

-----------------------------------------------------------------------------
(* Miners hear the chain in order.                                         *)

\* The types of what HeardFrom is about.
LEMMA HeardTypes ==
  ASSUME IInv, NEW m \in Miners
  PROVE  /\ heard[m] \in Ear /\ heard[m].since \in Nat /\ m \in Nat
         /\ heard[m].blocks \in Seq(Block) /\ Len(heard[m].blocks) \in Nat
         /\ chain \in ChainType /\ Len(chain[0]) \in Nat
         /\ MAX_PROBE_PEERS \in Nat
BY CoordinatorTypes, BoundAssumption, NodeAssumption DEF IInv, TypeOK, Ear, Miners

\* One block at most is coming.
LEMMA ComingNumber ==
  ASSUME NEW m
  PROVE  /\ OnItsWay(m) => Coming(m) = 1
         /\ ~OnItsWay(m) => Coming(m) = 0
         /\ OnItsWay(m)' => Coming(m)' = 1
         /\ ~OnItsWay(m)' => Coming(m)' = 0
         /\ Coming(m) \in Nat /\ Coming(m)' \in Nat
BY DEF Coming

\* A step in which miner m hears nothing keeps where it has come to, if the
\* ledger grows only together with a block on its way to m.
LEMMA HeardFromKept ==
  ASSUME IInv, IInv', Extends(chain, chain'), NEW m \in Miners, NEW k \in Nat,
         HeardFrom(m, k),
         heard'[m].blocks = heard[m].blocks, heard'[m].since = heard[m].since,
         Reached(m)' =>
           /\ Reached(m)
           /\ Len(chain'[0]) + Coming(m) = Len(chain[0]) + Coming(m)'
  PROVE  HeardFrom(m, k)'
<1>1. LedgerFrom(chain', k, heard[m].blocks)
  <2>1. chain' \in ChainType
    BY DEF IInv, TypeOK, ChainType
  <2> QED BY <2>1, HeardTypes, LedgerFromKept DEF HeardFrom
<1>2. Len(chain[0]) \in Nat /\ Len(chain'[0]) \in Nat /\ Len(heard[m].blocks) \in Nat
  BY HeardTypes, ZeroIsNode DEF IInv, TypeOK
<1>3. ASSUME Reached(m)'
      PROVE  k + Len(heard'[m].blocks) + Coming(m)' = Len(chain'[0])
  <2>1. Coming(m) \in Nat /\ Coming(m)' \in Nat
    BY ComingNumber
  <2>2. k + Len(heard[m].blocks) + Coming(m) = Len(chain[0])
    BY <1>3 DEF HeardFrom
  <2>3. Len(chain'[0]) + Coming(m) = Len(chain[0]) + Coming(m)'
    BY <1>3
  <2> DEFINE c == Len(chain[0])
             d == Len(chain'[0])
             h == Len(heard[m].blocks)
             x == Coming(m)
             y == Coming(m)'
  <2>4. /\ c \in Nat /\ d \in Nat /\ h \in Nat /\ x \in Nat /\ y \in Nat
        /\ k + h + x = c /\ d + x = c + y
    BY <1>2, <2>1, <2>2, <2>3
  <2> HIDE DEF c, d, h, x, y
  <2>5. k + h + y = d
    BY <2>4
  <2>6. heard'[m].blocks = heard[m].blocks
    OBVIOUS
  <2> QED BY <2>5, <2>6 DEF d, h, y
<1> QED BY <1>1, <1>3 DEF HeardFrom

\* A step in which no broadcast begins, moves on or ends keeps HeardInv; so
\* does the end of node 0, for nobody hears anything after it.
LEMMA HeardKept ==
  ASSUME IInv, IInv', HeardInv, chain'[0] = chain[0], EarsKept,
         up'[0] => up[0],
         \/ ~up'[0] /\ \A w \in Workers : worker'[0][w].pc # "broadcast"
         \/ \A w \in Workers :
              \/ worker'[0][w] = worker[0][w]
              \/ worker[0][w].pc # "broadcast" /\ worker'[0][w].pc # "broadcast"
  PROVE  HeardInv'
<1>1. Extends(chain, chain')
  BY LedgerGrows
<1>2. \A m \in Miners : Reached(m)' => Reached(m) /\ Coming(m)' = Coming(m)
  BY DEF Reached, EarsKept, OnItsWay, Coming
<1>3. ASSUME NEW m \in Miners PROVE \E k \in 0..heard'[m].since : HeardFrom(m, k)'
  <2>1. PICK k \in 0..heard[m].since : HeardFrom(m, k)
    BY DEF HeardInv
  <2>2. k \in Nat /\ heard'[m].blocks = heard[m].blocks /\ heard'[m].since = heard[m].since
    BY HeardTypes DEF EarsKept
  <2>3. HeardFrom(m, k)'
    BY <1>1, <1>2, <2>1, <2>2, HeardFromKept
  <2> QED BY <2>2, <2>3
<1>4. \A m \in Miners : heard'[m].socket = "starting" => heard'[m].blocks = <<>>
  BY DEF EarsKept, HeardInv
<1>5. \A v, w \in Workers :
        worker'[0][v].pc = "broadcast" /\ worker'[0][w].pc = "broadcast" => v = w
  BY DEF HeardInv
<1>6. \A w \in Workers :
        worker'[0][w].pc = "broadcast" => worker'[0][w].block.index + 1 = Len(chain'[0])
  BY DEF HeardInv
<1> QED BY <1>3, <1>4, <1>5, <1>6 DEF HeardInv

\* A miner that comes to listen has heard nothing yet; the block that is on
\* its way to it, if there is one, is the last of the chain.
LEMMA HeardListen ==
  ASSUME IInv, IInv', HeardInv, NEW m \in Miners, Listen(m)
  PROVE  HeardInv'
<1>1. /\ chain' = chain /\ worker' = worker /\ up' = up /\ miner' = miner
      /\ heard' = [heard EXCEPT ![m].socket = "listening", ![m].since = Len(chain[0])]
      /\ heard[m].socket = "starting"
  BY DEF Listen
<1>2. heard \in [Miners -> Ear]
  BY DEF IInv, TypeOK
<1>3. /\ heard'[m].since = Len(chain[0]) /\ heard'[m].blocks = heard[m].blocks
      /\ heard'[m].socket = "listening"
      /\ \A j \in Miners : j # m => heard'[j] = heard[j]
  BY <1>1, <1>2 DEF Ear
<1>4. heard'[m].blocks = <<>>
  BY <1>1, <1>3 DEF HeardInv
<1>5. \E k \in 0..heard'[m].since : HeardFrom(m, k)'
  <2>1. Coming(m)' = Coming(m)
    BY <1>1 DEF OnItsWay, Coming
  <2>2. \A k : LedgerFrom(chain', k, heard'[m].blocks)
    BY <1>4 DEF LedgerFrom
  <2>3. Len(chain[0]) \in Nat /\ Len(heard'[m].blocks) = 0
    BY <1>4, CoordinatorTypes
  <2>0. ASSUME NEW k \in 0..Len(chain[0]), k + Coming(m) = Len(chain[0])
        PROVE  \E j \in 0..heard'[m].since : HeardFrom(m, j)'
    <3>1. heard'[m].since <= k + 1 /\ k \in Nat
      BY <1>3, <2>0, <2>3, ComingNumber DEF Coming
    <3>2. k + Len(heard'[m].blocks) + Coming(m)' = Len(chain'[0])
      BY <1>1, <2>0, <2>1, <2>3, ComingNumber
    <3>3. HeardFrom(m, k)'
      BY <2>2, <3>1, <3>2 DEF HeardFrom
    <3> QED BY <1>3, <3>3
  <2>4. CASE OnItsWay(m)
    <3>1. PICK w \in Workers : worker[0][w].pc = "broadcast"
      BY <2>4 DEF OnItsWay
    <3>2. worker[0][w].block \in Block
      BY <3>1, WorkerFields, ZeroIsNode DEF IInv, TypeOK
    <3>3. Len(chain[0]) >= 1
      BY <2>3, <3>1, <3>2, BlockAssumption DEF HeardInv
    <3>4. /\ Len(chain[0]) - 1 \in 0..Len(chain[0])
          /\ (Len(chain[0]) - 1) + Coming(m) = Len(chain[0])
      BY <2>3, <2>4, <3>3, ComingNumber
    <3> QED BY <2>0, <3>4
  <2>5. CASE ~OnItsWay(m)
    <3>1. Len(chain[0]) \in 0..Len(chain[0]) /\ Len(chain[0]) + Coming(m) = Len(chain[0])
      BY <2>3, <2>5, ComingNumber
    <3> QED BY <2>0, <3>1
  <2> QED BY <2>4, <2>5
<1>6. ASSUME NEW j \in Miners, j # m PROVE \E k \in 0..heard'[j].since : HeardFrom(j, k)'
  <2>1. PICK k \in 0..heard[j].since : HeardFrom(j, k)
    BY DEF HeardInv
  <2>2. heard'[j] = heard[j] /\ (Reached(j)' => Reached(j)) /\ Coming(j)' = Coming(j)
    BY <1>1, <1>3, <1>6 DEF Reached, Listening, Coming, OnItsWay
  <2>3. HeardFrom(j, k)'
    BY <1>1, <2>1, <2>2 DEF HeardFrom
  <2> QED BY <2>2, <2>3
<1>7. \A j \in Miners : \E k \in 0..heard'[j].since : HeardFrom(j, k)'
  BY <1>5, <1>6
<1>8. \A j \in Miners : heard'[j].socket = "starting" => heard'[j].blocks = <<>>
  BY <1>3, <1>4 DEF HeardInv
<1> QED BY <1>1, <1>7, <1>8 DEF HeardInv

\* A block is accepted only when no broadcast is under way, and from then on
\* it is on its way to every miner.
LEMMA HeardAccept ==
  ASSUME IInv, IInv', HeardInv, NEW w \in Workers, NEW b \in Block, Accepts(w, b)
  PROVE  HeardInv'
<1>1. PICK a \in Miners :
        OnlyMoves(w, [pc |-> "broadcast", miner |-> a, block |-> b, peer |-> 1])
  BY DEF Accepts
<1>2. /\ worker'[0][w].pc = "broadcast" /\ worker'[0][w].block = b
      /\ worker'[0][w].peer = 1
  BY <1>1 DEF OnlyMoves
<1>3. \A v \in Workers : worker[0][v].pc # "broadcast"
  BY DEF Accepts, ChainLockFree, HoldsLock
<1>4. \A v \in Workers : v # w => worker'[0][v].pc # "broadcast"
  BY <1>1, <1>3 DEF OnlyMoves
<1>5. b.index = Len(chain[0]) /\ Len(chain'[0]) = Len(chain[0]) + 1
  <2>1. b.index = Len(chain[0])
    BY CoordinatorTypes, ValidNextIndex DEF Accepts, IInv, LedgerInv
  <2>2. Len(chain'[0]) = Len(chain[0]) + 1
    BY CoordinatorTypes DEF Accepts
  <2> QED BY <2>1, <2>2
<1>6. ASSUME NEW m \in Miners PROVE \E k \in 0..heard'[m].since : HeardFrom(m, k)'
  <2>1. Extends(chain, chain') /\ heard' = heard
    BY LedgerGrows DEF Accepts
  <2>2. PICK k \in 0..heard[m].since : HeardFrom(m, k)
    BY DEF HeardInv
  <2>3. Reached(m)' => Reached(m)
    BY DEF Accepts, Reached, Listening
  <2>4. ~OnItsWay(m)
    BY <1>3 DEF OnItsWay
  <2>5. OnItsWay(m)'
    <3>1. 1 <= MAX_PROBE_PEERS + m
      BY BoundAssumption, NodeAssumption DEF Miners
    <3> QED BY <1>2, <3>1 DEF OnItsWay
  <2>6. k \in Nat
    BY HeardTypes
  <2>7. HeardFrom(m, k)'
    BY <1>5, <2>1, <2>2, <2>3, <2>4, <2>5, <2>6, HeardFromKept, HeardTypes, ComingNumber
  <2> QED BY <2>1, <2>7
<1>7. \A m \in Miners : heard'[m].socket = "starting" => heard'[m].blocks = <<>>
  BY DEF Accepts, HeardInv
<1>8. \A u, v \in Workers :
        worker'[0][u].pc = "broadcast" /\ worker'[0][v].pc = "broadcast" => u = v
  BY <1>4
<1>9. \A v \in Workers :
        worker'[0][v].pc = "broadcast" => worker'[0][v].block.index + 1 = Len(chain'[0])
  BY <1>2, <1>4, <1>5
<1> QED BY <1>6, <1>7, <1>8, <1>9 DEF HeardInv

\* The block that a listening miner is sent is the one that follows those it
\* has heard.
LEMMA HeardNext ==
  ASSUME IInv, HeardInv, NEW w \in Workers, NEW m \in Miners, NEW k \in Nat,
         HeardFrom(m, k),
         worker[0][w].pc = "broadcast", worker[0][w].peer = MAX_PROBE_PEERS + m,
         m < MAX_PROBE_PEERS, Listening(m)
  PROVE  /\ k + Len(heard[m].blocks) + 1 = Len(chain[0])
         /\ LedgerFrom(chain, k, Append(heard[m].blocks, worker[0][w].block))
<1> DEFINE b == worker[0][w].block
           h == heard[m].blocks
<1>1. /\ worker[0][w] \in WorkerState /\ b \in Block
      /\ WorkerOK(chain, up, life, 0, worker[0][w])
  BY WorkerFields, ZeroIsNode DEF IInv, TypeOK, InFlightInv
<1>2. up[0] /\ OnLedger(chain, b)
  BY <1>1 DEF WorkerOK
<1>3. b.index + 1 = Len(chain[0]) /\ b = chain[0][Len(chain[0])]
  BY <1>2 DEF HeardInv, OnLedger
<1>4. OnItsWay(m)
  <2>1. MAX_PROBE_PEERS + m \in Nat
    BY HeardTypes
  <2> QED BY <2>1 DEF OnItsWay
<1>5. k + Len(h) + 1 = Len(chain[0]) /\ LedgerFrom(chain, k, h)
  BY <1>2, <1>4, ComingNumber DEF HeardFrom, Reached
<1>6. h \in Seq(Block) /\ Len(h) \in Nat /\ Len(chain[0]) \in Nat
  BY HeardTypes
<1> HIDE DEF b, h
<1>7. LedgerFrom(chain, k, Append(h, b))
  <2> SUFFICES ASSUME NEW i \in 1..Len(Append(h, b))
               PROVE  k + i <= Len(chain[0]) /\ Append(h, b)[i] = chain[0][k + i]
    BY DEF LedgerFrom
  <2>1. CASE i \in 1..Len(h)
    BY <1>1, <1>5, <1>6, <2>1 DEF LedgerFrom
  <2>2. CASE i = Len(h) + 1
    BY <1>1, <1>3, <1>5, <1>6, <2>2
  <2> QED BY <1>1, <1>6, <2>1, <2>2
<1> QED BY <1>5, <1>7 DEF b, h

\* A round of a broadcast reaches one miner at most, with the block it lacks.
LEMMA HeardBroadcast ==
  ASSUME IInv, IInv', HeardInv, NEW w \in Workers, Broadcast(w)
  PROVE  HeardInv'
<1> DEFINE p == worker[0][w].peer
           b == worker[0][w].block
<1>1. /\ chain' = chain /\ up' = up /\ miner' = miner /\ worker[0][w].pc = "broadcast"
  BY BroadcastMoves
<1>2. PICK s : OnlyMoves(w, s) /\ s.pc = "broadcast" /\ s.block = b /\ s.peer = p + 1
  BY BroadcastMoves
<1>3. /\ worker'[0][w].pc = "broadcast" /\ worker'[0][w].block = b
      /\ worker'[0][w].peer = p + 1
      /\ \A v \in Workers : v # w => worker'[0][v] = worker[0][v]
  BY <1>2 DEF OnlyMoves
<1>4. p \in Nat /\ MAX_PROBE_PEERS \in Nat /\ p < 2 * MAX_PROBE_PEERS /\ b \in Block
  <2>1. p \in Nat /\ b \in Block
    BY <1>1, WorkerFields, ZeroIsNode DEF IInv, TypeOK
  <2>2. p < 2 * MAX_PROBE_PEERS
    BY DEF Broadcast
  <2> QED BY <2>1, <2>2, BoundAssumption
<1>5. \A v \in Workers : v # w => worker[0][v].pc # "broadcast"
  BY <1>1 DEF HeardInv
<1>6. \A m \in Miners : /\ m \in Nat
                        /\ OnItsWay(m) <=> p <= MAX_PROBE_PEERS + m
                        /\ OnItsWay(m)' <=> p + 1 <= MAX_PROBE_PEERS + m
  BY <1>1, <1>3, <1>5, NodeAssumption DEF OnItsWay, Miners
<1>7. ASSUME NEW m \in Miners
      PROVE  \/ heard'[m] = heard[m] /\ (p # MAX_PROBE_PEERS + m \/ ~Listening(m))
             \/ /\ p = MAX_PROBE_PEERS + m /\ Listening(m)
                /\ heard'[m] = [heard[m] EXCEPT !.blocks = Append(@, b)]
  <2>1. heard \in [Miners -> Ear]
    BY DEF IInv, TypeOK
  <2> DEFINE id == p - MAX_PROBE_PEERS
  <2>2. \/ p < MAX_PROBE_PEERS /\ heard' = heard
        \/ p >= MAX_PROBE_PEERS /\ id \in Miners /\ Listening(id)
             /\ heard' = [heard EXCEPT ![id].blocks = Append(@, b)]
        \/ p >= MAX_PROBE_PEERS /\ ~(id \in Miners /\ Listening(id)) /\ heard' = heard
    BY DEF Broadcast
  <2>3. m = id <=> p = MAX_PROBE_PEERS + m
    BY <1>4, <1>6
  <2>4. p < MAX_PROBE_PEERS => p # MAX_PROBE_PEERS + m
    BY <1>4, <1>6
  <2> HIDE DEF p, b, id
  <2> QED BY <2>1, <2>2, <2>3, <2>4
<1>8. ASSUME NEW m \in Miners
      PROVE  /\ heard'[m].since = heard[m].since
             /\ heard'[m].socket = "starting" => heard'[m].blocks = <<>>
             /\ \E k \in 0..heard'[m].since : HeardFrom(m, k)'
  <2>1. PICK k \in 0..heard[m].since : HeardFrom(m, k)
    BY DEF HeardInv
  <2>2. k \in Nat /\ heard[m] \in Ear
    BY HeardTypes
  <2>3. CASE heard'[m] = heard[m] /\ (p # MAX_PROBE_PEERS + m \/ ~Listening(m))
    <3>1. Reached(m)' => Reached(m) /\ Coming(m)' = Coming(m)
      BY <1>1, <1>4, <1>6, <2>3 DEF Reached, Listening, Coming
    <3>2. Extends(chain, chain')
      BY <1>1, LedgerGrows
    <3>3. HeardFrom(m, k)'
      BY <1>1, <2>1, <2>2, <2>3, <3>1, <3>2, HeardFromKept
    <3> QED BY <2>1, <2>3, <3>3 DEF HeardInv
  <2>4. CASE /\ p = MAX_PROBE_PEERS + m /\ Listening(m)
             /\ heard'[m] = [heard[m] EXCEPT !.blocks = Append(@, b)]
    <3>1. m < MAX_PROBE_PEERS /\ ~OnItsWay(m)'
      BY <1>4, <1>6, <2>4
    <3>2. /\ heard'[m].since = heard[m].since /\ heard'[m].socket = heard[m].socket
          /\ heard'[m].blocks = Append(heard[m].blocks, b)
      BY <2>2, <2>4 DEF Ear
    <3>3. /\ k + Len(heard[m].blocks) + 1 = Len(chain[0])
          /\ LedgerFrom(chain, k, Append(heard[m].blocks, b))
      BY <1>1, <2>1, <2>2, <2>4, <3>1, HeardNext
    <3>4. Len(heard'[m].blocks) = Len(heard[m].blocks) + 1 /\ Len(heard[m].blocks) \in Nat
      BY <1>4, <3>2, HeardTypes
    <3>5. HeardFrom(m, k)'
      BY <1>1, <2>1, <2>2, <3>1, <3>2, <3>3, <3>4, ComingNumber DEF HeardFrom
    <3>6. heard[m].socket = "listening"
      BY <2>4 DEF Listening
    <3> QED BY <2>1, <3>2, <3>5, <3>6
  <2> QED BY <1>7, <2>3, <2>4
<1>9. b.index + 1 = Len(chain'[0])
  BY <1>1 DEF HeardInv
<1> QED BY <1>3, <1>5, <1>8, <1>9 DEF HeardInv

\* When a broadcast ends its block is on its way to no miner any more.
LEMMA HeardDone ==
  ASSUME IInv, IInv', HeardInv, NEW w \in Workers, BroadcastDone(w)
  PROVE  HeardInv'
<1>1. /\ chain' = chain /\ up' = up /\ miner' = miner /\ worker[0][w].pc = "broadcast"
      /\ heard' = heard /\ worker[0][w].peer = 2 * MAX_PROBE_PEERS
  BY BroadcastMoves DEF BroadcastDone
<1>2. \A v \in Workers : v # w => worker[0][v].pc # "broadcast"
  BY <1>1 DEF HeardInv
<1>3. \A v \in Workers : worker'[0][v].pc # "broadcast"
  BY <1>2, BroadcastMoves DEF OnlyMoves
<1>4. \A m \in Miners : ~OnItsWay(m)'
  BY <1>3 DEF OnItsWay
<1>5. \A m \in Miners : m < MAX_PROBE_PEERS => ~OnItsWay(m)
  <2> SUFFICES ASSUME NEW m \in Miners, m < MAX_PROBE_PEERS PROVE ~OnItsWay(m)
    OBVIOUS
  <2>1. ~(2 * MAX_PROBE_PEERS <= MAX_PROBE_PEERS + m)
    BY BoundAssumption, NodeAssumption DEF Miners
  <2> QED BY <1>1, <1>2, <2>1 DEF OnItsWay
<1>6. ASSUME NEW m \in Miners PROVE \E k \in 0..heard'[m].since : HeardFrom(m, k)'
  <2>1. Reached(m)' => Reached(m) /\ ~OnItsWay(m)
    BY <1>1, <1>5 DEF Reached, Listening
  <2>2. PICK k \in 0..heard[m].since : HeardFrom(m, k)
    BY DEF HeardInv
  <2>3. HeardFrom(m, k)'
    BY <1>1, <1>4, <2>1, <2>2, ComingNumber DEF HeardFrom
  <2> QED BY <1>1, <2>3
<1> QED BY <1>1, <1>3, <1>6 DEF HeardInv

\* Every step keeps HeardInv.
LEMMA HeardStep == IInv /\ HeardInv /\ [Next]_vars => HeardInv'
<1> SUFFICES ASSUME IInv, HeardInv, [Next]_vars PROVE HeardInv' OBVIOUS
<1>1. IInv'
  BY StepInv
<1>2. CASE Quiet
  <2>1. \/ ~up'[0] /\ \A w \in Workers : worker'[0][w].pc # "broadcast"
        \/ \A w \in Workers :
             \/ worker'[0][w] = worker[0][w]
             \/ worker[0][w].pc # "broadcast" /\ worker'[0][w].pc # "broadcast"
    BY <1>2 DEF Quiet, Due
  <2> QED BY <1>1, <1>2, <2>1, HeardKept DEF Quiet
<1>3. ASSUME NEW w \in Workers, Acknowledges(w) PROVE HeardInv'
  <2>1. \A v \in Workers :
          \/ worker'[0][v] = worker[0][v]
          \/ worker[0][v].pc # "broadcast" /\ worker'[0][v].pc # "broadcast"
    BY <1>3 DEF Acknowledges, OnlyMoves, Popping
  <2> QED BY <1>1, <1>3, <2>1, HeardKept DEF Acknowledges
<1> QED BY <1>1, <1>2, <1>3, StepView, HeardAccept, HeardBroadcast, HeardDone, HeardListen

\* From the moment its socket is open a miner hears the blocks of the chain
\* in their order, without a gap or a repetition, because broadcast_commit
\* runs under chain_lock and block_to_csv never refuses a committed block:
\* for any number of workers and miners, and whoever dies meanwhile.
THEOREM HeardInOrder == Spec => []MinersHearChainInOrder
<1>1. Init => HeardInv
  <2> SUFFICES ASSUME Init PROVE HeardInv OBVIOUS
  <2>1. /\ chain[0] = InitialChain
        /\ \A m \in Miners : heard[m].blocks = <<>> /\ heard[m].since = Len(InitialChain)
    BY ZeroIsNode DEF Init
  <2>2. \A w \in Workers : worker[0][w].pc # "broadcast"
    BY ZeroIsNode DEF Init, Popping
  <2>3. Len(InitialChain) \in Nat
    BY InitialChainAssumption
  <2>4. \A m \in Miners : LedgerFrom(chain, Len(InitialChain), heard[m].blocks)
    BY <2>1 DEF LedgerFrom
  <2>5. \A m \in Miners : ~OnItsWay(m)
    BY <2>2 DEF OnItsWay
  <2>6. \A m \in Miners : Len(InitialChain) + Len(heard[m].blocks) + 0 = Len(chain[0])
    BY <2>1, <2>3
  <2>7. \A m \in Miners : HeardFrom(m, Len(InitialChain))
    BY <2>1, <2>3, <2>4, <2>5, <2>6, ComingNumber DEF HeardFrom
  <2>8. \A m \in Miners : Len(InitialChain) \in 0..heard[m].since
    BY <2>1, <2>3
  <2> QED BY <2>1, <2>2, <2>7, <2>8 DEF HeardInv
<1>2. IInv /\ HeardInv /\ [Next]_vars => HeardInv'
  BY HeardStep
<1>3. IInv /\ HeardInv => MinersHearChainInOrder
  <2> SUFFICES ASSUME IInv, HeardInv, NEW m \in Miners
               PROVE  \E k \in 0..heard[m].since :
                        /\ heard[m].since <= k + 1
                        /\ LedgerFrom(chain, k, heard[m].blocks)
                        /\ Reached(m) /\ ~OnItsWay(m) =>
                             k + Len(heard[m].blocks) = Len(chain[0])
    BY DEF MinersHearChainInOrder
  <2>1. PICK k \in 0..heard[m].since : HeardFrom(m, k)
    BY DEF HeardInv
  <2>2. k \in Nat /\ Len(heard[m].blocks) \in Nat
    BY HeardTypes
  <2> QED BY <2>1, <2>2, ComingNumber DEF HeardFrom
<1> QED BY <1>1, <1>2, <1>3, Invariant, PTL DEF Spec
=============================================================================
