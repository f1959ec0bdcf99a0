---------------------------- MODULE Replication ----------------------------
(***************************************************************************)
(* The nodes of node/node.c.  Node 0 is the coordinator: miners propose    *)
(* blocks to it, it validates them, appends the valid ones and broadcasts  *)
(* each commit to its peers; a replica appends the next block, ignores an  *)
(* old one, and asks node 0 for the missing blocks when it sees a gap.     *)
(*                                                                         *)
(* Every node has NODE_WORKER_COUNT worker threads that pop messages from  *)
(* one FIFO.  The steps of the workers are cut at the points where another *)
(* thread can get in: between popping a message and taking chain_lock,     *)
(* between two connections of a broadcast (chain_lock held), before each   *)
(* reply, and around the round trip of a sync request (chain_lock free).   *)
(*                                                                         *)
(* inbox[n] stands for the listening socket's backlog, the receiver thread *)
(* and the queue: all three are FIFO and a full one makes connect wait.    *)
(* Module NodeQueue models the queue itself.                               *)
(*                                                                         *)
(* No process ignores SIGPIPE: a write to a connection whose other end has *)
(* died kills the writer.                                                  *)
(***************************************************************************)
EXTENDS Chain

CONSTANTS
  N,                  \* nodes 0 .. N-1
  M,                  \* miners 0 .. M-1
  Workers,            \* the worker threads of a node
  Block,              \* blocks that can appear on the wire
  Malformed,          \* a payload block_from_csv refuses (an empty one too)
  QuotedTx,           \* texts with a quote, which block_to_csv refuses
  InitialChain,       \* the blocks of initial_state.csv
  MAX_PROBE_PEERS,    \* ids a broadcast tries, for nodes and for miners
  InboxCap,           \* backlog + receiver + NODE_QUEUE_CAPACITY
  MaxSyncBlocks,      \* blocks that fit into MAX_PAYLOAD_SIZE
  LateMiners,         \* miners whose socket is not open at the start
  KillableNodes,      \* nodes that may be killed from outside
  KillableMiners,     \* miners that may be killed or terminated from outside
  MaxProposals,       \* bound: proposals in a behaviour
  MaxLives            \* bound: starts of one replica

Nodes    == 0..(N - 1)
Miners   == 0..(M - 1)
Replicas == Nodes \ {0}
Payload  == Block \cup {Malformed}

ASSUME NodeAssumption  == N \in Nat \ {0} /\ M \in Nat
ASSUME BlockAssumption == /\ \A b \in Block : b.index \in Nat
                          /\ Malformed \notin Block
ASSUME QuotedAssumption == QuotedTx \cap ValidTx = {}
ASSUME InitialChainAssumption ==
  /\ InitialChain \in Seq(Block)
  /\ InitialChain # <<>> => validate_blockchain(InitialChain)
  /\ \A i \in 1..Len(InitialChain) : InitialChain[i].index = i - 1
ASSUME BoundAssumption ==
  /\ MAX_PROBE_PEERS \in Nat \ {0}
  /\ InboxCap \in Nat /\ MaxSyncBlocks \in Nat
  /\ MaxProposals \in Nat /\ MaxLives \in Nat

VARIABLES
  chain,     \* chain[n]: the chain of node n, kept as it was when n died
  up,        \* up[n]: process n runs and listens
  life,      \* life[n]: how often n has been started
  inbox,     \* inbox[n]: connections accepted or waiting, with their message
  worker,    \* worker[n][w]: where worker w of node n is, and its locals
  miner,     \* miner[m]: the mining thread's side of a proposal
  heard,     \* heard[m]: miner m's socket and the commits delivered to it
  acks,      \* blocks answered with MSG_RESPONSE_OK, in that order (history)
  proposed   \* number of proposals made so far

vars == <<chain, up, life, inbox, worker, miner, heard, acks, proposed>>

-----------------------------------------------------------------------------
(* Messages, and the states of a worker.                                   *)

\* The other end of a sync request: worker w of node n in its l-th life.
Requester == [node : Nodes, worker : Workers, life : Nat]

Proposal == [type : {"BLOCK_PROPOSAL"}, miner : Miners, body : Payload]
CommitMsg == [type : {"BLOCK_COMMIT"}, block : Block]
SyncRequest == [type : {"SYNC_REQUEST"}, to : Requester, from : Nat]
Message == Proposal \cup CommitMsg \cup SyncRequest

WorkerState ==
       [pc : {"pop"}]
  \cup [pc : {"handle"}, msg : Message]
  \cup [pc : {"broadcast"}, miner : Miners, block : Block, peer : Nat]
  \cup [pc : {"reply"}, miner : Miners, body : Payload, ok : {FALSE}]
  \cup [pc : {"reply"}, miner : Miners, body : Block, ok : {TRUE}]
  \cup [pc : {"serve"}, to : Requester, from : Nat, lines : Seq(Block)]
  \cup [pc : {"connect", "await"}, from : Nat]
  \cup [pc : {"synced", "apply"}, next : Nat, lines : Seq(Block) \ {<<>>}]

Popping == [pc |-> "pop"]

\* A miner's socket, the length of chain[0] when it was opened (history), and
\* the blocks delivered to it.
Ear == [socket : {"starting", "listening", "closed"}, since : Nat, blocks : Seq(Block)]

\* Whether block_to_csv writes a block that block_from_csv has parsed: the
\* separators and line ends it refuses too are in no parsed text.
Writable(b) == \A i \in 1..Len(b.transactions) : b.transactions[i] \notin QuotedTx

\* chain_lock[n] is held across a broadcast and while synced lines are
\* applied; every other critical section is a single step.
HoldsLock(n, w) == worker[n][w].pc \in {"broadcast", "apply"}
UnlockedBroadcast(n) == \A w \in Workers : worker[n][w].pc # "apply"  \* mutant
ChainLockFree(n) == \A w \in Workers : ~HoldsLock(n, w)

\* Miner m accepts connections.
Listening(m) == miner[m] # "dead" /\ heard[m].socket = "listening"

Connected(c) == up[c.node] /\ life[c.node] = c.life

SetWorker(n, w, state) == worker' = [worker EXCEPT ![n][w] = state]

\* The processes of the nodes in S end: connections, queue and threads go.
End(S) ==
  /\ up' = [n \in Nodes |-> up[n] /\ n \notin S]
  /\ inbox' = [n \in Nodes |-> IF n \in S THEN <<>> ELSE inbox[n]]
  /\ worker' = [n \in Nodes |-> IF n \in S THEN [w \in Workers |-> Popping]
                                           ELSE worker[n]]

\* Replicas with a worker that may be between connect and write to node 0.
Connecting ==
  {n \in Nodes : up[n] /\ \E w \in Workers : worker[n][w].pc = "connect"}

\* Node 0 ends together with the nodes in S, and takes along any replica
\* that has connected to it and has yet to write.
CoordinatorEnds(S) == \E T \in SUBSET Connecting : End(S \cup {0} \cup T)

TypeOK ==
  /\ chain \in [Nodes -> Seq(Block)]
  /\ up \in [Nodes -> BOOLEAN]
  /\ life \in [Nodes -> Nat]
  /\ inbox \in [Nodes -> Seq(Message)]
  /\ worker \in [Nodes -> [Workers -> WorkerState]]
  /\ miner \in [Miners -> {"idle", "waiting", "dead"}]
  /\ heard \in [Miners -> Ear]
  /\ acks \in Seq(Block)
  /\ proposed \in 0..MaxProposals

Init ==
  /\ chain = [n \in Nodes |-> InitialChain]
  /\ up = [n \in Nodes |-> n = 0]
  /\ life = [n \in Nodes |-> IF n = 0 THEN 1 ELSE 0]
  /\ inbox = [n \in Nodes |-> <<>>]
  /\ worker = [n \in Nodes |-> [w \in Workers |-> Popping]]
  /\ miner = [m \in Miners |-> "idle"]
  /\ heard = [m \in Miners |->
       [socket |-> IF m \in LateMiners THEN "starting" ELSE "listening",
        since |-> Len(InitialChain), blocks |-> <<>>]]
  /\ acks = <<>>
  /\ proposed = 0

-----------------------------------------------------------------------------
(* The miners' side of a proposal.                                         *)

\* communication_thread_main: the thread has come to listen.
Listen(m) ==
  /\ miner[m] # "dead" /\ heard[m].socket = "starting"
  /\ heard' = [heard EXCEPT ![m].socket = "listening", ![m].since = Len(chain[0])]
  /\ UNCHANGED <<chain, up, life, inbox, worker, miner, acks, proposed>>

\* Mutant: a block that cannot be written is proposed all the same.
ProposeUnwritten(m) ==
  /\ miner[m] = "idle" /\ up[0] /\ heard[m].socket # "starting"
  /\ proposed < MaxProposals
  /\ Len(inbox[0]) < InboxCap
  /\ \E p \in Payload :
       inbox' = [inbox EXCEPT ![0] =
         Append(@, [type |-> "BLOCK_PROPOSAL", miner |-> m, body |-> p])]
  /\ miner' = [miner EXCEPT ![m] = "waiting"]
  /\ proposed' = proposed + 1
  /\ UNCHANGED <<chain, up, life, worker, heard, acks>>

\* propose_block: connect to node 0, send, then wait for the answer.  What it
\* sends is what block_to_csv has written.  The transactions have come in
\* through the miner's socket.
Propose(m) ==
  /\ miner[m] = "idle" /\ up[0] /\ heard[m].socket # "starting"
  /\ proposed < MaxProposals
  /\ Len(inbox[0]) < InboxCap
  /\ \E p \in Payload :
       /\ p # Malformed => Writable(p)
       /\ inbox' = [inbox EXCEPT ![0] =
            Append(@, [type |-> "BLOCK_PROPOSAL", miner |-> m, body |-> p])]
  /\ miner' = [miner EXCEPT ![m] = "waiting"]
  /\ proposed' = proposed + 1
  /\ UNCHANGED <<chain, up, life, worker, heard, acks>>

\* The connection ends without an answer because node 0 is gone.
ProposeFails(m) ==
  /\ miner[m] = "waiting" /\ ~up[0]
  /\ miner' = [miner EXCEPT ![m] = "idle"]
  /\ UNCHANGED <<chain, up, life, inbox, worker, heard, acks, proposed>>

-----------------------------------------------------------------------------
(* Worker threads.                                                         *)

\* worker_main: take the oldest message.
Pop(n, w) ==
  /\ worker[n][w].pc = "pop" /\ up[n] /\ inbox[n] # <<>>
  /\ SetWorker(n, w, [pc |-> "handle", msg |-> Head(inbox[n])])
  /\ inbox' = [inbox EXCEPT ![n] = Tail(@)]
  /\ UNCHANGED <<chain, up, life, miner, heard, acks, proposed>>

\* handle_block_proposal up to the broadcast.  A malformed payload is
\* refused without chain_lock; a valid block is appended and chain_lock kept.
\* broadcast_commit sends nothing if block_to_csv refuses the block.
HandleProposal(w) ==
  LET s == worker[0][w]
      Reject == /\ SetWorker(0, w, [pc |-> "reply", miner |-> s.msg.miner,
                                    body |-> s.msg.body, ok |-> FALSE])
                /\ UNCHANGED chain
      Accept == /\ chain' = [chain EXCEPT ![0] = Append(@, s.msg.body)]
                /\ SetWorker(0, w,
                     IF Writable(s.msg.body)
                       THEN [pc |-> "broadcast", miner |-> s.msg.miner,
                             block |-> s.msg.body, peer |-> 1]
                       ELSE [pc |-> "reply", miner |-> s.msg.miner,
                             body |-> s.msg.body, ok |-> TRUE])
  IN /\ s.pc = "handle" /\ s.msg.type = "BLOCK_PROPOSAL"
     /\ \/ s.msg.body = Malformed /\ Reject
        \/ /\ s.msg.body # Malformed /\ ChainLockFree(0)
           /\ IF ValidNext(chain[0], s.msg.body) THEN Accept ELSE Reject
     /\ UNCHANGED <<up, life, inbox, miner, heard, acks, proposed>>

\* One round of broadcast_commit's loops: nodes 1 .. MAX_PROBE_PEERS-1, then
\* miners 0 .. MAX_PROBE_PEERS-1.  A peer that does not listen is skipped; a
\* peer whose inbox is full makes connect wait.
Broadcast(w) ==
  LET s == worker[0][w]
      id == s.peer - MAX_PROBE_PEERS
      ToNode == /\ s.peer < MAX_PROBE_PEERS
                /\ IF s.peer \in Nodes /\ up[s.peer]
                     THEN /\ Len(inbox[s.peer]) < InboxCap
                          /\ inbox' = [inbox EXCEPT ![s.peer] = Append(@,
                               [type |-> "BLOCK_COMMIT", block |-> s.block])]
                     ELSE UNCHANGED inbox
                /\ UNCHANGED heard
      ToMiner == /\ s.peer >= MAX_PROBE_PEERS
                 /\ IF id \in Miners /\ Listening(id)
                      THEN heard' = [heard EXCEPT ![id].blocks = Append(@, s.block)]
                      ELSE UNCHANGED heard
                 /\ UNCHANGED inbox
  IN /\ s.pc = "broadcast" /\ s.peer < 2 * MAX_PROBE_PEERS
     /\ ToNode \/ ToMiner
     /\ SetWorker(0, w, [pc |-> "broadcast", miner |-> s.miner,
                         block |-> s.block, peer |-> s.peer + 1])
     /\ UNCHANGED <<chain, up, life, miner, acks, proposed>>

\* The end of broadcast_commit: chain_lock is released, the answer is next.
BroadcastDone(w) ==
  LET s == worker[0][w]
  IN /\ s.pc = "broadcast" /\ s.peer = 2 * MAX_PROBE_PEERS
     /\ SetWorker(0, w, [pc |-> "reply", miner |-> s.miner,
                         body |-> s.block, ok |-> TRUE])
     /\ UNCHANGED <<chain, up, life, inbox, miner, heard, acks, proposed>>

\* Mutant: a refused proposal gets no answer.
ReplyOnlyOk(w) ==
  LET s == worker[0][w]
  IN /\ s.pc = "reply" /\ SetWorker(0, w, Popping)
     /\ miner' = IF s.ok THEN [miner EXCEPT ![s.miner] = "idle"] ELSE miner
     /\ acks' = IF s.ok THEN Append(acks, s.body) ELSE acks
     /\ UNCHANGED <<chain, up, life, inbox, heard, proposed>>

\* MSG_RESPONSE_OK or MSG_BLOCK_REJECT, on the proposer's connection.
Reply(w) ==
  LET s == worker[0][w]
  IN /\ s.pc = "reply"
     /\ \/ /\ miner[s.miner] # "dead"
           /\ miner' = [miner EXCEPT ![s.miner] = "idle"]
           /\ acks' = IF s.ok THEN Append(acks, s.body) ELSE acks
           /\ SetWorker(0, w, Popping)
           /\ UNCHANGED <<up, inbox>>
        \/ /\ miner[s.miner] = "dead"
           /\ CoordinatorEnds({})
           /\ UNCHANGED <<miner, acks>>
     /\ UNCHANGED <<chain, life, heard, proposed>>

\* The loop of handle_sync_request over the blocks from a position on: a
\* block that block_to_csv refuses is passed over.
SyncLines(c, from) ==
  LET Buffer[i \in 0..Len(c)] ==
        IF i <= from THEN <<>>
        ELSE IF Writable(c[i]) THEN Append(Buffer[i - 1], c[i]) ELSE Buffer[i - 1]
  IN Buffer[Len(c)]

\* Mutant: the first missing block is left out.
SyncOffByOne(w) ==
  LET s == worker[0][w]
  IN /\ s.pc = "handle" /\ s.msg.type = "SYNC_REQUEST" /\ ChainLockFree(0)
     /\ SetWorker(0, w,
          [pc |-> "serve", to |-> s.msg.to, from |-> s.msg.from,
           lines |-> SyncLines(chain[0], s.msg.from + 1)])
     /\ UNCHANGED <<chain, up, life, inbox, miner, heard, acks, proposed>>

\* handle_sync_request under chain_lock: the blocks from a position on.
HandleSyncRequest(w) ==
  LET s == worker[0][w]
  IN /\ s.pc = "handle" /\ s.msg.type = "SYNC_REQUEST"
     /\ ChainLockFree(0)
     /\ SetWorker(0, w,
          [pc |-> "serve", to |-> s.msg.to, from |-> s.msg.from,
           lines |-> SyncLines(chain[0], s.msg.from)])
     /\ UNCHANGED <<chain, up, life, inbox, miner, heard, acks, proposed>>

\* The answer to a sync request.  ipc_send refuses a payload that is too
\* large and writes nothing: the requester sees the connection close.
\* A requester does not tell an empty payload from a closed connection.
Serve(w) ==
  LET s == worker[0][w]
      Sent == s.lines # <<>> /\ Len(s.lines) <= MaxSyncBlocks
      Answered == IF Sent THEN [pc |-> "synced", next |-> s.from, lines |-> s.lines]
                          ELSE Popping
  IN /\ s.pc = "serve"
     /\ \/ /\ Connected(s.to) /\ worker[s.to.node][s.to.worker].pc = "await"
           /\ worker' = [worker EXCEPT ![0][w] = Popping,
                                       ![s.to.node][s.to.worker] = Answered]
           /\ UNCHANGED <<up, inbox>>
        \/ /\ ~Connected(s.to) /\ Len(s.lines) > MaxSyncBlocks
           /\ SetWorker(0, w, Popping)
           /\ UNCHANGED <<up, inbox>>
        \/ /\ ~Connected(s.to) /\ Len(s.lines) <= MaxSyncBlocks
           /\ CoordinatorEnds({})
     /\ UNCHANGED <<chain, life, miner, heard, acks, proposed>>

\* Mutant: every block that is not old is appended.
CommitWithoutGapTest(n, w) ==
  LET s == worker[n][w]
  IN /\ s.pc = "handle" /\ s.msg.type = "BLOCK_COMMIT" /\ ChainLockFree(n)
     /\ chain' = IF s.msg.block.index >= Len(chain[n])
                   THEN [chain EXCEPT ![n] = Append(@, s.msg.block)] ELSE chain
     /\ SetWorker(n, w, Popping)
     /\ UNCHANGED <<up, life, inbox, miner, heard, acks, proposed>>

\* Mutant: a replica that is behind drops the block and does not sync.
CommitWithoutSync(n, w) ==
  LET s == worker[n][w]
  IN /\ s.pc = "handle" /\ s.msg.type = "BLOCK_COMMIT" /\ ChainLockFree(n)
     /\ chain' = IF ValidNext(chain[n], s.msg.block)
                   THEN [chain EXCEPT ![n] = Append(@, s.msg.block)] ELSE chain
     /\ SetWorker(n, w, Popping)
     /\ UNCHANGED <<up, life, inbox, miner, heard, acks, proposed>>

\* handle_block_commit under chain_lock.  The last block is looked up by its
\* index, count - 1, which by IndexIsPosition is the last position.
HandleCommit(n, w) ==
  LET s == worker[n][w]
      b == s.msg.block
      Append_ == /\ b.index = Len(chain[n])
                 /\ chain' = IF ValidNext(chain[n], b)
                               THEN [chain EXCEPT ![n] = Append(@, b)]
                               ELSE chain
                 /\ SetWorker(n, w, Popping)
      Ignore  == /\ b.index < Len(chain[n])
                 /\ SetWorker(n, w, Popping)
                 /\ UNCHANGED chain
      Behind  == /\ b.index > Len(chain[n])
                 /\ SetWorker(n, w, [pc |-> "connect", from |-> Len(chain[n])])
                 /\ UNCHANGED chain
  IN /\ s.pc = "handle" /\ s.msg.type = "BLOCK_COMMIT"
     /\ ChainLockFree(n)
     /\ Append_ \/ Ignore \/ Behind
     /\ UNCHANGED <<up, life, inbox, miner, heard, acks, proposed>>

\* Behind: connect to node 0 and send MSG_SYNC_REQUEST, without chain_lock.
RequestSync(n, w) ==
  LET s == worker[n][w]
      to == [node |-> n, worker |-> w, life |-> life[n]]
  IN /\ s.pc = "connect"
     /\ \/ /\ up[0] /\ Len(inbox[0]) < InboxCap
           /\ inbox' = [inbox EXCEPT ![0] = Append(@,
                [type |-> "SYNC_REQUEST", to |-> to, from |-> s.from])]
           /\ SetWorker(n, w, [pc |-> "await", from |-> s.from])
        \/ /\ ~up[0]
           /\ SetWorker(n, w, Popping)
           /\ UNCHANGED inbox
     /\ UNCHANGED <<chain, up, life, miner, heard, acks, proposed>>

\* The connection closes because node 0 is gone.
SyncFails(n, w) ==
  /\ worker[n][w].pc = "await" /\ ~up[0]
  /\ SetWorker(n, w, Popping)
  /\ UNCHANGED <<chain, up, life, inbox, miner, heard, acks, proposed>>

\* One line of the sync response; chain_lock is taken before the first line
\* and released after the last.  A line that does not fit is skipped.
ApplySynced(n, w) ==
  LET s == worker[n][w]
      b == Head(s.lines)
      rest == Tail(s.lines)
  IN /\ s.pc = "apply" \/ (s.pc = "synced" /\ ChainLockFree(n))
     /\ chain' = IF ValidSynced(chain[n], b)
                   THEN [chain EXCEPT ![n] = Append(@, b)]
                   ELSE chain
     /\ SetWorker(n, w, IF rest = <<>> THEN Popping
                        ELSE [pc |-> "apply", next |-> s.next + 1, lines |-> rest])
     /\ UNCHANGED <<up, life, inbox, miner, heard, acks, proposed>>

-----------------------------------------------------------------------------
(* Starts and crashes.                                                     *)

\* Mutant: the initial chain is not read again.
StartEmpty(n) ==
  /\ n # 0 /\ ~up[n] /\ life[n] < MaxLives
  /\ up' = [up EXCEPT ![n] = TRUE]
  /\ life' = [life EXCEPT ![n] = @ + 1]
  /\ chain' = [chain EXCEPT ![n] = <<>>]
  /\ UNCHANGED <<inbox, worker, miner, heard, acks, proposed>>

\* node_init of a replica: it reads the initial chain and listens.  Nothing
\* starts node 0 again.
Start(n) ==
  /\ n # 0 /\ ~up[n] /\ life[n] < MaxLives
  /\ up' = [up EXCEPT ![n] = TRUE]
  /\ life' = [life EXCEPT ![n] = @ + 1]
  /\ chain' = [chain EXCEPT ![n] = InitialChain]
  /\ UNCHANGED <<inbox, worker, miner, heard, acks, proposed>>

\* A worker of node 0 may be between connect and write to this peer.
Broadcasting(peer) ==
  \E w \in Workers : worker[0][w].pc = "broadcast" /\ worker[0][w].peer = peer

KillNode(n) ==
  /\ n \in KillableNodes /\ up[n]
  /\ \/ n # 0 /\ End({n})
     \/ (n = 0 \/ Broadcasting(n)) /\ CoordinatorEnds({n})
  /\ UNCHANGED <<chain, life, miner, heard, acks, proposed>>

\* A socket that goes while node 0 is between connect and write ends node 0.
MinerSocketGoes(m) ==
  \/ UNCHANGED <<up, inbox, worker>>
  \/ Broadcasting(MAX_PROBE_PEERS + m) /\ Listening(m) /\ CoordinatorEnds({})

KillMiner(m) ==
  /\ m \in KillableMiners /\ miner[m] # "dead"
  /\ miner' = [miner EXCEPT ![m] = "dead"]
  /\ MinerSocketGoes(m)
  /\ UNCHANGED <<chain, life, heard, acks, proposed>>

\* A miner that terminates closes its socket while its mining thread may
\* still wait for an answer.
StopListening(m) ==
  /\ m \in KillableMiners /\ Listening(m)
  /\ heard' = [heard EXCEPT ![m].socket = "closed"]
  /\ MinerSocketGoes(m)
  /\ UNCHANGED <<chain, life, miner, acks, proposed>>

-----------------------------------------------------------------------------
CoordinatorStep(w) ==
  \/ HandleProposal(w) \/ Broadcast(w) \/ BroadcastDone(w) \/ Reply(w)
  \/ HandleSyncRequest(w) \/ Serve(w)

NodeStep(n, w) ==
  \/ Pop(n, w) \/ HandleCommit(n, w) \/ RequestSync(n, w)
  \/ SyncFails(n, w) \/ ApplySynced(n, w)

Next ==
  \/ \E m \in Miners : \/ Listen(m) \/ Propose(m) \/ ProposeFails(m)
                       \/ KillMiner(m) \/ StopListening(m)
  \/ \E w \in Workers : CoordinatorStep(w)
  \/ \E n \in Nodes, w \in Workers : NodeStep(n, w)
  \/ \E n \in Nodes : Start(n) \/ KillNode(n)

Spec == Init /\ [][Next]_vars

\* Every thread that can move does: the worker threads, and a miner whose
\* connection has closed.  No one has to propose, start a node or crash.
Fairness ==
  /\ \A w \in Workers : WF_vars(CoordinatorStep(w))
  /\ \A n \in Nodes, w \in Workers : WF_vars(NodeStep(n, w))
  /\ \A m \in Miners : WF_vars(ProposeFails(m))

FairSpec == Spec /\ Fairness

-----------------------------------------------------------------------------
(* Properties.                                                             *)

\* However commits are reordered between a replica's workers, dropped,
\* repeated by a sync or lost in a crash, a node never holds a block that
\* the coordinator does not hold at the same position.
ReplicaPrefix ==
  \A n \in Nodes :
    /\ Len(chain[n]) <= Len(chain[0])
    /\ \A i \in 1..Len(chain[n]) : chain[n][i] = chain[0][i]

\* The coordinator's chain passes validate_blockchain at every moment,
\* although no code ever calls it on a growing chain.
LedgerValid == chain[0] # <<>> => validate_blockchain(chain[0])

\* A block's index is its position: handle_block_commit compares the index
\* of a block with the length of the chain and relies on it.
IndexIsPosition ==
  \A n \in Nodes : \A i \in 1..Len(chain[n]) : chain[n][i].index = i - 1

\* Of the proposals that race for an index, one at most is answered with
\* MSG_RESPONSE_OK, and the block it carried is the committed one.
OneWinnerPerIndex ==
  /\ \A i \in 1..Len(acks) : /\ acks[i].index + 1 \in 1..Len(chain[0])
                             /\ chain[0][acks[i].index + 1] = acks[i]
  /\ \A i, j \in 1..Len(acks) : i # j => acks[i].index # acks[j].index

\* lines are the coordinator's blocks that follow its first k.
LedgerFrom(c, k, lines) ==
  \A i \in 1..Len(lines) : k + i <= Len(c[0]) /\ lines[i] = c[0][k + i]

\* A worker is broadcasting and has yet to come to miner m.
OnItsWay(m) ==
  \E w \in Workers : /\ worker[0][w].pc = "broadcast"
                     /\ worker[0][w].peer <= MAX_PROBE_PEERS + m

\* Broadcasts reach miner m.
Reached(m) == up[0] /\ Listening(m) /\ m < MAX_PROBE_PEERS

\* From the moment it listens a miner hears every new block, in the order of
\* the chain: none is left out and none overtakes another, because
\* broadcast_commit runs under chain_lock.  Only the block that is being
\* broadcast when the socket opens may be heard or not.
MinersHearChainInOrder ==
  \A m \in Miners : \E k \in 0..heard[m].since :
    /\ heard[m].since <= k + 1
    /\ LedgerFrom(chain, k, heard[m].blocks)
    /\ Reached(m) /\ ~OnItsWay(m) => k + Len(heard[m].blocks) = Len(chain[0])

\* The nodes together implement the abstract ledger.
L == INSTANCE Ledger WITH ledger <- chain[0],
                          copy <- [r \in Replicas |-> chain[r]]
ImplementsLedger == L!Spec

\* The miner's mining thread does not wait forever in propose_block.
ProposalAnswered ==
  \A m \in Miners : miner[m] = "waiting" ~> miner[m] # "waiting"

\* The commit with index i has been delivered to node n.
Delivered(n, i) ==
  \E k \in 1..Len(inbox[n]) : /\ inbox[n][k].type = "BLOCK_COMMIT"
                              /\ inbox[n][k].block.index = i

\* A replica that is told of a block has that block in the end, and with it
\* all blocks before it, whatever it missed earlier.
CommitReachesReplica ==
  \A n \in Replicas, i \in 0..MaxProposals :
    (up[n] /\ Delivered(n, i)) ~> (Len(chain[n]) > i \/ ~up[n] \/ ~up[0])

\* The coordinator is not brought down by the death of another process.
CoordinatorSurvives == up[0]

-----------------------------------------------------------------------------
(* The inductive invariant behind ReplicaPrefix: everything that is under  *)
(* way is a piece of the coordinator's chain, and no piece starts beyond   *)
(* the end of the chain it will be applied to.  Blocks beyond the initial  *)
(* chain can be written, so that no sync passes one over.  The parts take  *)
(* the chains c, the running processes u and the lives l as parameters, so *)
(* that they can be compared before and after a step.                      *)

\* b is the block the coordinator holds at b's index.
OnLedger(c, b) == b.index < Len(c[0]) /\ c[0][b.index + 1] = b

\* A sync request asks for nothing of the initial chain, and for nothing
\* beyond the end of the chain it is for as long as its sender lives.
RequestOK(c, u, l, to, from) ==
  /\ Len(InitialChain) <= from
  /\ to.life <= l[to.node]
  /\ (u[to.node] /\ l[to.node] = to.life) => from <= Len(c[to.node])

MessageOK(c, u, l, msg) ==
  /\ msg.type = "BLOCK_PROPOSAL" /\ msg.body # Malformed => Writable(msg.body)
  /\ msg.type = "BLOCK_COMMIT" => OnLedger(c, msg.block)
  /\ msg.type = "SYNC_REQUEST" => RequestOK(c, u, l, msg.to, msg.from)

WorkerOK(c, u, l, n, s) ==
  /\ s.pc = "handle" => MessageOK(c, u, l, s.msg)
  /\ s.pc = "broadcast" => OnLedger(c, s.block)
  /\ s.pc = "serve" => RequestOK(c, u, l, s.to, s.from) /\ LedgerFrom(c, s.from, s.lines)
  /\ s.pc \in {"connect", "await"} => Len(InitialChain) <= s.from /\ s.from <= Len(c[n])
  /\ s.pc \in {"synced", "apply"} => /\ s.next <= Len(c[n])
                                     /\ LedgerFrom(c, s.next, s.lines)
  /\ ~u[n] => s.pc = "pop"

LedgerInv ==
  /\ Len(InitialChain) <= Len(chain[0])
  /\ \A i \in 1..Len(InitialChain) : chain[0][i] = InitialChain[i]
  /\ \A i \in 1..Len(chain[0]) : chain[0][i].index = i - 1
  /\ \A i \in 1..Len(chain[0]) : i > Len(InitialChain) => Writable(chain[0][i])
  /\ \A n \in Nodes : Len(InitialChain) <= Len(chain[n])
  /\ LedgerValid

InFlightInv ==
  /\ \A n \in Nodes : \A k \in 1..Len(inbox[n]) :
       MessageOK(chain, up, life, inbox[n][k])
  /\ \A n \in Nodes : \A w \in Workers :
       WorkerOK(chain, up, life, n, worker[n][w])

\* Every message and every worker's local state is consistent with the
\* coordinator's chain; with ReplicaPrefix this is preserved by every step.
IInv == TypeOK /\ LedgerInv /\ ReplicaPrefix /\ InFlightInv

-----------------------------------------------------------------------------
(* The inductive invariants behind OneWinnerPerIndex and                   *)
(* MinersHearChainInOrder, each of them relative to IInv.                  *)

\* A worker in state s has a block appended for which MSG_RESPONSE_OK is due.
Due(s) == s.pc = "broadcast" \/ (s.pc = "reply" /\ s.ok)
DueBlock(s) == IF s.pc = "broadcast" THEN s.block ELSE s.body

\* The blocks that are answered with OK, or about to be, are committed ones,
\* and each was appended by one worker for one proposal.
AckInv ==
  /\ \A i \in 1..Len(acks) : OnLedger(chain, acks[i])
  /\ \A i, j \in 1..Len(acks) : i # j => acks[i].index # acks[j].index
  /\ \A w \in Workers : Due(worker[0][w]) =>
       /\ OnLedger(chain, DueBlock(worker[0][w]))
       /\ \A i \in 1..Len(acks) : acks[i].index # DueBlock(worker[0][w]).index
  /\ \A v, w \in Workers :
       Due(worker[0][v]) /\ Due(worker[0][w]) /\ v # w =>
         DueBlock(worker[0][v]).index # DueBlock(worker[0][w]).index

\* The number of blocks on their way to miner m.
Coming(m) == IF OnItsWay(m) THEN 1 ELSE 0

\* What miner m has heard is the piece of the chain that follows the first k
\* blocks, up to the block that is on its way as long as broadcasts reach m.
HeardFrom(m, k) ==
  /\ heard[m].since <= k + 1
  /\ LedgerFrom(chain, k, heard[m].blocks)
  /\ Reached(m) => k + Len(heard[m].blocks) + Coming(m) = Len(chain[0])

\* One broadcast at a time, of the last block, and every miner has heard a
\* piece of the chain that starts where it came to listen.
HeardInv ==
  /\ \A v, w \in Workers :
       worker[0][v].pc = "broadcast" /\ worker[0][w].pc = "broadcast" => v = w
  /\ \A w \in Workers :
       worker[0][w].pc = "broadcast" => worker[0][w].block.index + 1 = Len(chain[0])
  /\ \A m \in Miners : heard[m].socket = "starting" => heard[m].blocks = <<>>
  /\ \A m \in Miners : \E k \in 0..heard[m].since : HeardFrom(m, k)
=============================================================================
