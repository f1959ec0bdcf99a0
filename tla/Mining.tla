------------------------------- MODULE Mining -------------------------------
(***************************************************************************)
(* The miners of miner/miner.c and miner/mempool.c.  A miner has two       *)
(* threads: the communication thread serves one connection at a time       *)
(* (transactions from clients, commits from node 0), the mining thread     *)
(* learns the tip of the chain from node 0 once, then builds candidates    *)
(* from the mempool and proposes them.  They share the mempool, under its  *)
(* own lock, and the tip with the flag restart_mining, under               *)
(* coordination_lock; a step here is what a thread does between two points *)
(* at which it takes a lock or waits for another process.                  *)
(*                                                                         *)
(* Of node 0 the module keeps what a miner can see: it answers queries and *)
(* proposals under chain_lock, and sends a commit to one miner after the   *)
(* other before it lets go of the lock.  Module Replication models it in   *)
(* full, with the other nodes.                                             *)
(*                                                                         *)
(* A waiting thread wakes up by time-out at the latest, so the condition   *)
(* variable of coordination_lock has no state here.                        *)
(***************************************************************************)
EXTENDS Chain

CONSTANTS
  M,                  \* miners 0 .. M-1
  Tx,                 \* payloads that clients send, each of them once
  InitialChain,       \* the blocks of initial_state.csv
  ZeroHash,           \* 64 zeros
  Times,              \* what time() may return
  MEMPOOL_CAPACITY,
  MAX_PROBE_PEERS,    \* miner ids a broadcast tries
  StoppableMiners     \* miners that get a termination signal

Miners == 0..(M - 1)

ASSUME MinersAssumption == M \in Nat
ASSUME CapacityAssumption == MEMPOOL_CAPACITY \in Nat /\ MAX_PROBE_PEERS \in Nat

\* A sequence, of whatever its elements are.
IsSeq(s) == s \in Seq({s[i] : i \in DOMAIN s})
Has(b, tx) == \E k \in 1..Len(b.transactions) : b.transactions[k] = tx

\* The initial file is well-formed, which blockchain_load_csv does not test.
ASSUME ChainAssumption ==
  /\ IsSeq(InitialChain)
  /\ \A i \in 1..Len(InitialChain) :
       InitialChain[i].index = i - 1 /\ validate_block_structure(InitialChain[i])

\* The clients' payloads are new ones: the file holds none that a miner takes.
ASSUME NewPayloads ==
  \A i \in 1..Len(InitialChain) : \A tx \in Tx \cap ValidTx : ~Has(InitialChain[i], tx)

VARIABLES
  ledger,          \* node 0's chain
  node0,           \* where node 0 is
  sent,            \* payloads sent to some miner so far
  inbox,           \* inbox[m]: connections to m's socket, with their message
  comm,            \* comm[m]: where the communication thread is
  mining,          \* mining[m]: where the mining thread is, and its locals
  mempool,         \* mempool[m]: the pending transactions, in slot order
  tip,             \* tip[m]: next_index and previous_hash
  restart_mining,
  shutting_down,
  acked            \* acked[m]: transactions m has answered with OK (history)

vars == <<ledger, node0, sent, inbox, comm, mining, mempool, tip,
          restart_mining, shutting_down, acked>>
node0Vars == <<ledger, node0>>
commVars == <<inbox, comm, sent, acked>>

NoTip == [next_index |-> 0, previous_hash |-> ZeroHash]
TipAfter(b) == [next_index |-> b.index + 1, previous_hash |-> BlockHash(b)]

Loop == [pc |-> "loop"]
Poll == [pc |-> "poll"]
Free == [pc |-> "free"]
SetMining(m, state) == mining' = [mining EXCEPT ![m] = state]
SetComm(m, state) == comm' = [comm EXCEPT ![m] = state]
Listening(m) == comm[m].pc \in {"poll", "remove", "commit", "closing"}

\* The communication thread tests shutting_down, then waits in select.
NextPoll(m) == IF shutting_down[m] THEN [pc |-> "closing"] ELSE Poll

\* Every process has just been started; node 0 may listen or not yet.
Init ==
  /\ ledger = InitialChain
  /\ node0 \in {Free, [pc |-> "starting"]}
  /\ sent = {}
  /\ inbox = [m \in Miners |-> <<>>]
  /\ comm = [m \in Miners |-> [pc |-> "starting"]]
  /\ mining = [m \in Miners |-> [pc |-> "query_height"]]
  /\ mempool = [m \in Miners |-> <<>>]
  /\ tip = [m \in Miners |-> NoTip]
  /\ restart_mining = [m \in Miners |-> FALSE]
  /\ shutting_down = [m \in Miners |-> FALSE]
  /\ acked = [m \in Miners |-> {}]

\* The same, after every miner has opened its socket and resynced.
WarmInit ==
  /\ ledger = InitialChain
  /\ node0 = Free
  /\ sent = {}
  /\ inbox = [m \in Miners |-> <<>>]
  /\ comm = [m \in Miners |-> Poll]
  /\ mining = [m \in Miners |-> Loop]
  /\ mempool = [m \in Miners |-> <<>>]
  /\ tip = [m \in Miners |-> IF InitialChain = <<>> THEN NoTip
                             ELSE TipAfter(InitialChain[Len(InitialChain)])]
  /\ restart_mining = [m \in Miners |-> TRUE]
  /\ shutting_down = [m \in Miners |-> FALSE]
  /\ acked = [m \in Miners |-> {}]

-----------------------------------------------------------------------------
(* The mempool.                                                            *)

\* mempool_add refuses a transaction only for want of room: its length has
\* been tested by validate_transaction.
HasRoom(pool) == Len(pool) < MEMPOOL_CAPACITY

mempool_snapshot(pool) ==
  SubSeq(pool, 1, IF Len(pool) < MAX_TRANSACTIONS_PER_BLOCK
                    THEN Len(pool) ELSE MAX_TRANSACTIONS_PER_BLOCK)

\* Mutant: the last transaction is dropped instead of moved.
DropLast(pool, i) == SubSeq(pool, 1, Len(pool) - 1)

\* Slot i gets the last transaction, and the pool shrinks by one.
SwapOut(pool, i) ==
  [k \in 1..(Len(pool) - 1) |-> IF k = i THEN pool[Len(pool)] ELSE pool[k]]

-----------------------------------------------------------------------------
(* The communication thread.                                               *)

\* A client, or the bootstrap's submit, connects to m and sends a payload.
Submit(m) ==
  /\ Listening(m)
  /\ \E tx \in Tx \ sent :
       /\ sent' = sent \cup {tx}
       /\ inbox' = [inbox EXCEPT ![m] = Append(@, [type |-> "TX_SUBMIT", tx |-> tx])]
  /\ UNCHANGED <<node0Vars, comm, mining, mempool, tip, restart_mining,
                 shutting_down, acked>>

\* The socket is created and bound.
Listen(m) ==
  /\ comm[m].pc = "starting"
  /\ SetComm(m, NextPoll(m))
  /\ UNCHANGED <<node0Vars, sent, inbox, mining, mempool, tip, restart_mining,
                 shutting_down, acked>>

\* Mutant: the capacity of the mempool is not looked at.
SubmitToFullPool(m) ==
  /\ comm[m].pc = "poll"
  /\ inbox[m] # <<>> /\ Head(inbox[m]).type = "TX_SUBMIT"
  /\ LET tx == Head(inbox[m]).tx
     IN /\ mempool' = [mempool EXCEPT ![m] = Append(@, tx)]
        /\ acked' = [acked EXCEPT ![m] = @ \cup {tx}]
  /\ inbox' = [inbox EXCEPT ![m] = Tail(@)]
  /\ SetComm(m, NextPoll(m))
  /\ UNCHANGED <<node0Vars, sent, mining, tip, restart_mining, shutting_down>>

\* handle_tx_submit: refuse an ill-formed transaction, or any transaction
\* when the mempool is full; add and acknowledge it otherwise.
HandleTxSubmit(m) ==
  /\ comm[m].pc = "poll"
  /\ inbox[m] # <<>> /\ Head(inbox[m]).type = "TX_SUBMIT"
  /\ LET tx == Head(inbox[m]).tx
         Taken == validate_transaction(tx) /\ HasRoom(mempool[m])
     IN /\ mempool' = IF Taken THEN [mempool EXCEPT ![m] = Append(@, tx)] ELSE mempool
        /\ acked' = IF Taken THEN [acked EXCEPT ![m] = @ \cup {tx}] ELSE acked
  /\ inbox' = [inbox EXCEPT ![m] = Tail(@)]
  /\ SetComm(m, NextPoll(m))
  /\ UNCHANGED <<node0Vars, sent, mining, tip, restart_mining, shutting_down>>

\* The loop of mempool_remove_included has come to slot i of the pool: while
\* there is one, the thread holds the mempool's lock.
NextRound(b, pool, i) ==
  IF i <= Len(pool) THEN [pc |-> "remove", block |-> b, slot |-> i]
                    ELSE [pc |-> "commit", block |-> b]

\* handle_block_commit, up to the first round of mempool_remove_included.
HandleBlockCommit(m) ==
  /\ comm[m].pc = "poll"
  /\ inbox[m] # <<>> /\ Head(inbox[m]).type = "BLOCK_COMMIT"
  /\ SetComm(m, NextRound(Head(inbox[m]).block, mempool[m], 1))
  /\ inbox' = [inbox EXCEPT ![m] = Tail(@)]
  /\ UNCHANGED <<node0Vars, sent, mining, mempool, tip, restart_mining, shutting_down, acked>>

\* The transaction in the slot is in the block.
Included(m) ==
  LET txs == comm[m].block.transactions
  IN \E k \in 1..Len(txs) : txs[k] = mempool[m][comm[m].slot]

\* Mutant: a refilled slot is not looked at again.
RemoveWithoutRecheck(m) ==
  /\ comm[m].pc = "remove"
  /\ LET pool == IF Included(m) THEN SwapOut(mempool[m], comm[m].slot) ELSE mempool[m]
     IN /\ mempool' = [mempool EXCEPT ![m] = pool]
        /\ SetComm(m, NextRound(comm[m].block, pool, comm[m].slot + 1))
  /\ UNCHANGED <<node0Vars, sent, inbox, mining, tip, restart_mining, shutting_down, acked>>

\* One round: a slot that was refilled is looked at again.
mempool_remove_included(m) ==
  /\ comm[m].pc = "remove"
  /\ IF Included(m)
       THEN LET pool == SwapOut(mempool[m], comm[m].slot)
            IN /\ mempool' = [mempool EXCEPT ![m] = pool]
               /\ SetComm(m, NextRound(comm[m].block, pool, comm[m].slot))
       ELSE /\ SetComm(m, NextRound(comm[m].block, mempool[m], comm[m].slot + 1))
            /\ UNCHANGED mempool
  /\ UNCHANGED <<node0Vars, sent, inbox, mining, tip, restart_mining, shutting_down, acked>>

\* Mutant: the hash of the committed block is not copied.
AdvanceIndexOnly(m) ==
  /\ comm[m].pc = "commit"
  /\ tip' = [tip EXCEPT ![m] = [next_index |-> comm[m].block.index + 1,
                                previous_hash |-> tip[m].previous_hash]]
  /\ restart_mining' = [restart_mining EXCEPT ![m] = TRUE]
  /\ SetComm(m, NextPoll(m))
  /\ UNCHANGED <<node0Vars, sent, inbox, mining, mempool, shutting_down, acked>>

\* Mutant: > in place of >=, so the next block counts as an old one.
AdvanceOffByOne(m) ==
  /\ comm[m].pc = "commit"
  /\ LET b == comm[m].block
     IN IF b.index > tip[m].next_index
          THEN /\ tip' = [tip EXCEPT ![m] = TipAfter(b)]
               /\ restart_mining' = [restart_mining EXCEPT ![m] = TRUE]
          ELSE UNCHANGED <<tip, restart_mining>>
  /\ SetComm(m, NextPoll(m))
  /\ UNCHANGED <<node0Vars, sent, inbox, mining, mempool, shutting_down, acked>>

\* handle_block_commit, second half, under coordination_lock: a block that is
\* not old moves the tip and interrupts the mining attempt.
AdvanceTip(m) ==
  /\ comm[m].pc = "commit"
  /\ LET b == comm[m].block
     IN IF b.index >= tip[m].next_index
          THEN /\ tip' = [tip EXCEPT ![m] = TipAfter(b)]
               /\ restart_mining' = [restart_mining EXCEPT ![m] = TRUE]
          ELSE UNCHANGED <<tip, restart_mining>>
  /\ SetComm(m, NextPoll(m))
  /\ UNCHANGED <<node0Vars, sent, inbox, mining, mempool, shutting_down, acked>>

\* The termination signal, or MSG_SHUTDOWN.
Terminate(m) ==
  /\ m \in StoppableMiners /\ ~shutting_down[m]
  /\ shutting_down' = [shutting_down EXCEPT ![m] = TRUE]
  /\ UNCHANGED <<node0Vars, commVars, mining, mempool, tip, restart_mining>>

\* The loop ends at its test, which a select that times out comes back to:
\* the socket is closed.  Waiting connections break, and their senders are
\* free to try another miner.
CommExit(m) ==
  /\ comm[m].pc = "closing" \/ (comm[m].pc = "poll" /\ shutting_down[m])
  /\ SetComm(m, [pc |-> "done"])
  /\ inbox' = [inbox EXCEPT ![m] = <<>>]
  /\ sent' = {tx \in sent : \A k \in 1..Len(inbox[m]) :
                inbox[m][k].type = "TX_SUBMIT" => inbox[m][k].tx # tx}
  /\ UNCHANGED <<node0Vars, mining, mempool, tip, restart_mining, shutting_down, acked>>

-----------------------------------------------------------------------------
(* The mining thread: resync_from_node.                                    *)

\* What node 0 answers, each time under chain_lock.
handle_query_height == Len(ledger)
handle_query_block(index) == ledger[index + 1]

\* MSG_QUERY_HEIGHT.  With node 0 unreachable the tip stays as it is.
QueryHeight(m) ==
  /\ mining[m].pc = "query_height"
  /\ \/ node0.pc = "starting" /\ SetMining(m, Loop)
     \/ /\ node0.pc = "free"
        /\ SetMining(m,
             IF handle_query_height = 0 THEN [pc |-> "set_tip", tip |-> NoTip]
             ELSE [pc |-> "query_block", height |-> handle_query_height])
  /\ UNCHANGED <<node0Vars, commVars, mempool, tip, restart_mining, shutting_down>>

\* MSG_QUERY_BLOCK for the last block of a moment ago.  The tip stays as it is
\* if the query fails or its answer is no block: node 0 answers with an error
\* if block_to_csv refuses the block.
QueryBlock(m) ==
  /\ mining[m].pc = "query_block"
  /\ \/ SetMining(m, Loop)
     \/ /\ node0.pc = "free"
        /\ SetMining(m, [pc |-> "set_tip",
                         tip |-> TipAfter(handle_query_block(mining[m].height - 1))])
  /\ UNCHANGED <<node0Vars, commVars, mempool, tip, restart_mining, shutting_down>>

\* The tip is overwritten, whatever it was.
SetTip(m) ==
  /\ mining[m].pc = "set_tip"
  /\ tip' = [tip EXCEPT ![m] = mining[m].tip]
  /\ restart_mining' = [restart_mining EXCEPT ![m] = TRUE]
  /\ SetMining(m, Loop)
  /\ UNCHANGED <<node0Vars, commVars, mempool, shutting_down>>

-----------------------------------------------------------------------------
(* The mining thread: mining_thread_main.                                  *)

\* Mutant: shutting_down is not looked at.
CopyTipForever(m) ==
  /\ mining[m].pc = "loop"
  /\ SetMining(m, [pc |-> "snapshot", tip |-> tip[m]])
  /\ restart_mining' = [restart_mining EXCEPT ![m] = FALSE]
  /\ UNCHANGED <<node0Vars, commVars, mempool, tip, shutting_down>>

\* Under coordination_lock: leave, or clear the flag and copy the tip.
CopyTip(m) ==
  /\ mining[m].pc = "loop"
  /\ IF shutting_down[m]
       THEN /\ SetMining(m, [pc |-> "done"])
            /\ UNCHANGED restart_mining
       ELSE /\ SetMining(m, [pc |-> "snapshot", tip |-> tip[m]])
            /\ restart_mining' = [restart_mining EXCEPT ![m] = FALSE]
  /\ UNCHANGED <<node0Vars, commVars, mempool, tip, shutting_down>>

\* Snapshot the mempool, when its lock is free, and build the candidate; wait
\* when there is nothing.
Snapshot(m) ==
  /\ mining[m].pc = "snapshot" /\ comm[m].pc # "remove"
  /\ LET batch == mempool_snapshot(mempool[m])
     IN \/ batch = <<>> /\ SetMining(m, [pc |-> "idle"])
        \/ /\ batch # <<>>
           /\ \E t \in Times :
                SetMining(m, [pc |-> "mine", block |->
                  [index |-> mining[m].tip.next_index, timestamp |-> t,
                   previous_hash |-> mining[m].tip.previous_hash, nonce |-> 0,
                   merkle_root |-> MerkleRoot(batch), transactions |-> batch]])
  /\ UNCHANGED <<node0Vars, commVars, mempool, tip, restart_mining, shutting_down>>

\* The timed wait on an empty mempool ends.
IdleEnds(m) ==
  /\ mining[m].pc = "idle"
  /\ SetMining(m, Loop)
  /\ UNCHANGED <<node0Vars, commVars, mempool, tip, restart_mining, shutting_down>>

Interrupted(m) == restart_mining[m] \/ shutting_down[m]

\* wait_or_abort returns early, or the dice say no.
NotMined(m) ==
  /\ mining[m].pc = "mine"
  /\ SetMining(m, Loop)
  /\ UNCHANGED <<node0Vars, commVars, mempool, tip, restart_mining, shutting_down>>

\* wait_or_abort times out and the dice say yes.
Mined(m) ==
  /\ mining[m].pc = "mine" /\ ~Interrupted(m)
  /\ SetMining(m, [pc |-> "propose", block |-> mining[m].block])
  /\ UNCHANGED <<node0Vars, commVars, mempool, tip, restart_mining, shutting_down>>

\* propose_block: connect and send, or give up when node 0 does not listen.
Propose(m) ==
  /\ mining[m].pc = "propose"
  /\ SetMining(m, IF node0.pc = "starting" THEN Loop
                  ELSE [pc |-> "await", block |-> mining[m].block])
  /\ UNCHANGED <<node0Vars, commVars, mempool, tip, restart_mining, shutting_down>>

-----------------------------------------------------------------------------
(* Node 0, as the miners see it.                                           *)

NodeStarts ==
  /\ node0.pc = "starting"
  /\ node0' = Free
  /\ UNCHANGED <<ledger, commVars, mining, mempool, tip, restart_mining, shutting_down>>

\* Mutant: a refused proposal gets no answer.
NeverReject(m) ==
  /\ mining[m].pc = "await" /\ node0.pc = "free"
  /\ ValidNext(ledger, mining[m].block)
  /\ ledger' = Append(ledger, mining[m].block)
  /\ node0' = [pc |-> "broadcast", miner |-> m, block |-> mining[m].block, peer |-> 0]
  /\ SetMining(m, [pc |-> "answer"])
  /\ UNCHANGED <<commVars, mempool, tip, restart_mining, shutting_down>>

\* handle_block_proposal.  MSG_BLOCK_REJECT goes back on the proposer's
\* connection, where propose_block reads it and drops it.
HandleProposal(m) ==
  /\ mining[m].pc = "await" /\ node0.pc = "free"
  /\ LET b == mining[m].block
     IN IF ValidNext(ledger, b)
          THEN /\ ledger' = Append(ledger, b)
               /\ node0' = [pc |-> "broadcast", miner |-> m, block |-> b, peer |-> 0]
               /\ SetMining(m, [pc |-> "answer"])
          ELSE /\ SetMining(m, Loop)
               /\ UNCHANGED node0Vars
  /\ UNCHANGED <<commVars, mempool, tip, restart_mining, shutting_down>>

\* One miner of broadcast_commit's second loop.
Broadcast ==
  /\ node0.pc = "broadcast" /\ node0.peer < MAX_PROBE_PEERS
  /\ inbox' = IF node0.peer \in Miners /\ Listening(node0.peer)
                THEN [inbox EXCEPT ![node0.peer] =
                       Append(@, [type |-> "BLOCK_COMMIT", block |-> node0.block])]
                ELSE inbox
  /\ node0' = [node0 EXCEPT !.peer = @ + 1]
  /\ UNCHANGED <<ledger, sent, comm, mining, mempool, tip, restart_mining,
                 shutting_down, acked>>

\* chain_lock is released and the proposer gets MSG_RESPONSE_OK.
BroadcastDone ==
  /\ node0.pc = "broadcast" /\ node0.peer = MAX_PROBE_PEERS
  /\ node0' = Free
  /\ SetMining(node0.miner, Loop)
  /\ UNCHANGED <<ledger, commVars, mempool, tip, restart_mining, shutting_down>>

-----------------------------------------------------------------------------
CommStep(m) == \/ Listen(m) \/ HandleTxSubmit(m) \/ HandleBlockCommit(m)
               \/ mempool_remove_included(m) \/ AdvanceTip(m) \/ CommExit(m)
MiningStep(m) == \/ QueryHeight(m) \/ QueryBlock(m) \/ SetTip(m) \/ CopyTip(m)
                 \/ Snapshot(m) \/ IdleEnds(m) \/ NotMined(m) \/ Mined(m)
                 \/ Propose(m)
NodeStep == NodeStarts \/ Broadcast \/ BroadcastDone

Next ==
  \/ NodeStep
  \/ \E m \in Miners : \/ Submit(m) \/ Terminate(m) \/ HandleProposal(m)
                       \/ CommStep(m) \/ MiningStep(m)

Spec == Init /\ [][Next]_vars

\* Every thread that can move does, and node 0 answers each proposal.  The
\* dice fall well again and again; nobody has to submit or to terminate.
Fairness ==
  /\ WF_vars(NodeStep)
  /\ \A m \in Miners : /\ WF_vars(CommStep(m)) /\ WF_vars(MiningStep(m))
                       /\ SF_vars(Mined(m)) /\ SF_vars(HandleProposal(m))

FairSpec == Spec /\ Fairness
WarmSpec == WarmInit /\ [][Next]_vars /\ Fairness

-----------------------------------------------------------------------------
(* Properties.                                                             *)

MessageType ==      [type : {"TX_SUBMIT"}, tx : Tx]
               \cup [type : {"BLOCK_COMMIT"}, block : {ledger[i] : i \in 1..Len(ledger)}]

TypeOK ==
  /\ node0.pc \in {"starting", "free", "broadcast"}
  /\ sent \subseteq Tx
  /\ \A m \in Miners :
       /\ \A k \in 1..Len(inbox[m]) : inbox[m][k] \in MessageType
       /\ comm[m].pc \in {"starting", "poll", "remove", "commit", "closing", "done"}
       /\ mining[m].pc \in {"query_height", "query_block", "set_tip", "loop", "idle",
                            "snapshot", "mine", "propose", "await", "answer", "done"}
       /\ Len(mempool[m]) <= MEMPOOL_CAPACITY
       /\ restart_mining[m] \in BOOLEAN /\ shutting_down[m] \in BOOLEAN
       /\ acked[m] \subseteq ValidTx

\* Places of a transaction in the ledger.
Committed(tx) ==
  {p \in (1..Len(ledger)) \X (1..MAX_TRANSACTIONS_PER_BLOCK) :
     /\ p[2] <= Len(ledger[p[1]].transactions)
     /\ ledger[p[1]].transactions[p[2]] = tx}

\* A transaction that was submitted once is committed at most once, although
\* the pool is copied, proposed from and cleaned by different threads: the
\* copy of the tip is older than the snapshot, and the pool is cleaned before
\* the tip moves.
CommittedOnce ==
  \A m \in Miners : \A tx \in acked[m] :
    \A p, q \in Committed(tx) : p = q

\* A transaction a miner has answered with OK is pending there or committed.
NoAckedTransactionLost ==
  \A m \in Miners : \A tx \in acked[m] :
    (\E k \in 1..Len(mempool[m]) : mempool[m][k] = tx) \/ Committed(tx) # {}

\* What a miner takes for the tip is a block of the ledger, or nothing yet.
TipIsCommitted ==
  \A m \in Miners :
    \/ tip[m] = NoTip
    \/ \E i \in 1..Len(ledger) : tip[m] = TipAfter(ledger[i])

\* The commits that have yet to reach m's tip.
Pending(m) ==
  LET queued == {k \in 1..Len(inbox[m]) : inbox[m][k].type = "BLOCK_COMMIT"}
      Blocks ==      {inbox[m][k].block : k \in queued}
                \cup (IF comm[m].pc \in {"remove", "commit"} THEN {comm[m].block} ELSE {})
                \cup (IF node0.pc = "broadcast" /\ node0.peer <= m
                        THEN {node0.block} ELSE {})
  IN {b.index : b \in Blocks}

\* Once the start is over, a miner that broadcasts reach misses no block: the
\* tip and the commits under way to it make up the whole ledger.
NoMissedCommit ==
  \A m \in Miners \cap 0..(MAX_PROBE_PEERS - 1) :
    comm[m].pc # "done" => Pending(m) = tip[m].next_index..(Len(ledger) - 1)

\* A transaction that was answered with OK is committed in the end.
AckedIsCommitted ==
  \A tx \in ValidTx :
    (\E m \in Miners : tx \in acked[m]) ~>
      (Committed(tx) # {} \/ \E m \in Miners : tx \in acked[m] /\ shutting_down[m])

\* A terminated miner's threads end, whatever they were waiting for.
TerminationEndsThreads ==
  \A m \in Miners :
    shutting_down[m] ~> comm[m].pc = "done" /\ mining[m].pc = "done"

\* A miner whose proposal is stale finds out where the chain really is.
RejectedMinerResyncs ==
  \A m \in Miners :
    (mining[m].pc = "await" /\ mining[m].block.index < Len(ledger))
      ~> tip[m].next_index >= Len(ledger)

-----------------------------------------------------------------------------
(* The inductive invariant of module MiningProofs.                         *)

\* Node 0 appends, and what it broadcasts is the last block it appended.
NodeInv ==
  /\ IsSeq(ledger)
  /\ \A i \in 1..Len(ledger) :
       ledger[i].index = i - 1 /\ Len(ledger[i].transactions) \in 1..MAX_TRANSACTIONS_PER_BLOCK
  /\ node0.pc \in {"starting", "free", "broadcast"}
  /\ node0.pc = "broadcast" =>
       /\ node0 = [pc |-> "broadcast", miner |-> node0.miner, block |-> node0.block,
                   peer |-> node0.peer]
       /\ node0.miner \in Miners /\ node0.peer \in 0..MAX_PROBE_PEERS
       /\ Len(ledger) > 0 /\ node0.block = ledger[Len(ledger)]

Queues(m, k, tx) == inbox[m][k].type = "TX_SUBMIT" /\ inbox[m][k].tx = tx

\* A payload waits in one connection or is answered by one miner, and what is
\* in the ledger has been answered.
OnePlace ==
  /\ \A m \in Miners : acked[m] \subseteq sent
  /\ \A m, n \in Miners : \A tx \in acked[m] \cap acked[n] : m = n
  /\ \A m \in Miners : \A k \in 1..Len(inbox[m]) : \A tx \in Tx :
       Queues(m, k, tx) =>
         /\ tx \in sent
         /\ \A n \in Miners : tx \notin acked[n]
         /\ \A n \in Miners : \A l \in 1..Len(inbox[n]) :
              Queues(n, l, tx) => m = n /\ k = l
  /\ \A i \in 1..Len(ledger) : \A tx \in Tx \cap ValidTx :
       Has(ledger[i], tx) => \E m \in Miners : tx \in acked[m]

Busy(m) == comm[m].pc \in {"remove", "commit"}
Queued(m) == {k \in 1..Len(inbox[m]) : inbox[m][k].type = "BLOCK_COMMIT"}
Reaching(m) == node0.pc = "broadcast" /\ node0.peer <= m

\* The commits on their way to a miner, in the order of the chain.
OrderInv(m) ==
  /\ IsSeq(inbox[m]) /\ \A k \in 1..Len(inbox[m]) : inbox[m][k] \in MessageType
  /\ comm[m].pc \in {"starting", "poll", "remove", "commit", "closing", "done"}
  /\ Busy(m) => \E i \in 1..Len(ledger) : comm[m].block = ledger[i]
  /\ m >= MAX_PROBE_PEERS => Queued(m) = {} /\ ~Busy(m)
  /\ \A k, l \in Queued(m) : k < l => inbox[m][k].block.index < inbox[m][l].block.index
  /\ Busy(m) => \A k \in Queued(m) : comm[m].block.index < inbox[m][k].block.index
  /\ Reaching(m) =>
       /\ \A k \in Queued(m) : inbox[m][k].block.index < node0.block.index
       /\ Busy(m) => comm[m].block.index < node0.block.index

\* What is answered is pending or committed, and committed in one place.
PoolInv(m) ==
  /\ mempool[m] \in Seq(acked[m]) /\ acked[m] \subseteq ValidTx \cap Tx
  /\ Len(mempool[m]) <= MEMPOOL_CAPACITY
  /\ \A k, l \in 1..Len(mempool[m]) : mempool[m][k] = mempool[m][l] => k = l
  /\ \A tx \in acked[m] :
       \/ \E k \in 1..Len(mempool[m]) : mempool[m][k] = tx
       \/ \E i \in 1..Len(ledger) : Has(ledger[i], tx)
  /\ \A i, j \in 1..Len(ledger) : \A tx \in acked[m] :
       Has(ledger[i], tx) /\ Has(ledger[j], tx) => i = j
  /\ \A i \in 1..Len(ledger) : \A k, l \in 1..Len(ledger[i].transactions) :
       ledger[i].transactions[k] = ledger[i].transactions[l]
         /\ ledger[i].transactions[k] \in acked[m] => k = l

\* A pooled transaction that is committed already: its commit is still to come
\* and the tip has not passed it.  The cleaning of the pool has got to slot.
CleanInv(m) ==
  /\ comm[m].pc = "starting" => acked[m] = {}
  /\ \A k \in 1..Len(mempool[m]) : \A i \in 1..Len(ledger) :
       Has(ledger[i], mempool[m][k]) =>
         /\ tip[m].next_index < i
         /\ m < MAX_PROBE_PEERS /\ comm[m].pc \in {"poll", "remove", "commit"} =>
              i - 1 \in Pending(m)
  /\ comm[m].pc = "remove" =>
       /\ comm[m].slot \in 1..Len(mempool[m])
       /\ \A k \in 1..(comm[m].slot - 1) : ~Has(comm[m].block, mempool[m][k])
  /\ comm[m].pc = "commit" =>
       \A k \in 1..Len(mempool[m]) : ~Has(comm[m].block, mempool[m][k])

IsTip(t) == t = NoTip \/ \E i \in 1..Len(ledger) : t = TipAfter(ledger[i])
Candidate(m) == mining[m].pc \in {"mine", "propose", "await"}

\* What the mining thread has copied is old, never ahead: a candidate with a
\* transaction that is committed already has an index that is taken.
MiningInv(m) ==
  /\ mining[m].pc \in {"query_height", "query_block", "set_tip", "loop", "idle",
                       "snapshot", "mine", "propose", "await", "answer", "done"}
  /\ restart_mining[m] \in BOOLEAN /\ shutting_down[m] \in BOOLEAN
  /\ IsTip(tip[m])
  /\ mining[m].pc \in {"set_tip", "snapshot"} => IsTip(mining[m].tip)
  /\ mining[m].pc = "query_block" => mining[m].height \in 1..Len(ledger)
  /\ mining[m].pc \in {"query_height", "query_block", "set_tip"} =>
       \A i \in 1..Len(ledger) : \A tx \in acked[m] : ~Has(ledger[i], tx)
  /\ mining[m].pc = "snapshot" =>
       \A k \in 1..Len(mempool[m]) : \A i \in 1..Len(ledger) :
         Has(ledger[i], mempool[m][k]) => mining[m].tip.next_index < i
  /\ Candidate(m) =>
       LET b == mining[m].block
       IN /\ b.transactions \in Seq(acked[m]) /\ b.index \in Nat
          /\ \A k, l \in 1..Len(b.transactions) : b.transactions[k] = b.transactions[l] => k = l
          /\ \A i \in 1..Len(ledger) : \A tx \in acked[m] :
               Has(b, tx) /\ Has(ledger[i], tx) => b.index < i

\* The variables are functions of the miners.
Shape ==
  /\ sent \subseteq Tx
  /\ inbox = [m \in Miners |-> inbox[m]] /\ comm = [m \in Miners |-> comm[m]]
  /\ mining = [m \in Miners |-> mining[m]] /\ mempool = [m \in Miners |-> mempool[m]]
  /\ tip = [m \in Miners |-> tip[m]] /\ acked = [m \in Miners |-> acked[m]]
  /\ restart_mining = [m \in Miners |-> restart_mining[m]]
  /\ shutting_down = [m \in Miners |-> shutting_down[m]]

MinerInv(m) == OrderInv(m) /\ PoolInv(m) /\ CleanInv(m) /\ MiningInv(m)
IInv == Shape /\ NodeInv /\ OnePlace /\ \A m \in Miners : MinerInv(m)

\* After the start nobody overwrites a tip that commits have moved.
WarmInv ==
  /\ NoMissedCommit
  /\ \A m \in Miners : /\ comm[m].pc # "starting"
                       /\ mining[m].pc \notin {"query_height", "query_block", "set_tip"}
=============================================================================
