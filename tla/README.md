# Formal model of the multi-process blockchain

TLA+ modules, TLC configurations and TLAPS proofs for the C implementation under
`src/code`. Paths below are relative to that directory.

## 1. The system

| Part | Source | State | Operations | Talks to |
|---|---|---|---|---|
| Node | `node/node.c` | chain under `chain_lock`, message queue, receiver and worker threads | proposal, commit, sync request, queries, start, stop | node 0 to replicas and miners (commit broadcasts), replicas to node 0 (sync) |
| Message queue | `common/node_queue.c` | ring, counters, shutdown flag, two condition variables | push, pop, shutdown | receiver and workers of one node |
| Validation | `common/validation.c` | none | structure, Merkle root, link, whole chain | called by nodes |
| Miner | `miner/miner.c` | tip, `restart_mining`, `shutting_down`, two threads | submit, commit, resync, mining attempt, proposal, termination | node 0 (queries, proposals), clients |
| Mempool | `miner/mempool.c` | array of transactions under its own lock | add, snapshot, remove included | both threads of a miner |
| Bootstrap | `bootstrap/bootstrap.c`, `common/process_info.c` | process table, shutdown flag | spawn, reap, commands, pause, resume, shutdown | all processes (signals), node 0 and miners (requests) |
| Client | `client/client.c` | next miner of the round robin | submit with retries | miners |
| IPC | `common/ipc.c` | sockets | framed send and receive | everybody |
| Serialisation, storage | `common/block.c`, `common/blockchain.c` | none; array of blocks | CSV, append, lookup | nodes, miners |
| Hashing | `common/crypto.c` | none | block hash, Merkle root | nodes, miners |
| Bash verifier | `bash/blockchain.sh` | none | validation of a CSV file | offline |

**How they interact.** A client sends a transaction to a miner, which puts it into
its mempool. The mining thread builds a candidate on the tip it knows, waits, and
proposes the block to node 0. Node 0 validates and appends it and, still holding
`chain_lock`, sends it to every other node and every miner. A replica appends the
next block, ignores an old one, and asks node 0 for all missing blocks when it sees
a gap. A miner removes the block's transactions and moves its tip. The bootstrap
starts and stops all processes by signals.

**What is hard.** Several workers handle messages of one node at once; locks are
released around a round trip; processes are killed and restarted; no process
ignores `SIGPIPE`; nothing has a timeout on the answer to a request; miners hear of
commits by a broadcast that is sent once, and only to sockets that listen; a block
can be accepted that cannot be written again; signals interrupt a blocked `fgets` and
the last `waitpid` of the shutdown, but not the wait for an answer. `PROJECT.json` lists these hazards line by line.

**What makes it correct.** One ledger that only grows by valid blocks; replicas that
are prefixes of it; one winner for each index; proposals that get an answer;
replicas that catch up; a queue that loses, repeats and reorders nothing; each
acknowledged transaction committed, and once; a table that agrees with the kernel;
a shutdown that ends and leaves nobody behind who has not been killed. Messages that arrive whole or not
at all; transactions that a retry does not submit twice; files that reload to the
chain they were saved from, and two validators that agree on them.

## 2. The modules

| Module | Models | |
|---|---|---|
| `Chain` | validation rules, acceptance tests of `node.c` | constant operators |
| `Ledger` | what the nodes promise together | abstract specification |
| `Replication` | node 0, the replicas, the miners' side of a proposal | implements `Ledger` |
| `ReplicationProofs`, `CommitProofs` | | theorems about `Replication` |
| `Fifo` | what `node_queue.h` promises | abstract specification |
| `NodeQueue` | queue with receiver, workers and `node_stop` | implements `Fifo` |
| `NodeQueueProofs` | | theorems about `NodeQueue` |
| `Mining` | miners with both threads and mempools; node 0 as they see it | |
| `MiningProofs` | | theorems about `Mining` |
| `Client` | clients, and the miners' sockets they send to | |
| `ClientProofs` | | theorems about `Client` |
| `Bootstrap` | bootstrap, process table, signals, children | |
| `BootstrapProofs` | | theorems about `Bootstrap` |
| `Delivery` | what `ipc.c` promises for one message | abstract specification |
| `Ipc` | one direction of a connection: framing, partial reads and writes | implements `Delivery` |
| `Merkle` | Merkle root and block hash | constant operators |
| `BlockCsv` | CSV lines and files: `block.c`, `blockchain.c` | constant operators |
| `Verifier` | `blockchain.sh --verify` | constant operators |
| `Archive` | loading, queries, `request` and `save`; composes `Chain`, `BlockCsv`, `Verifier` and two `Ipc`s | |
| `ArchiveProofs` | | theorems about `Archive` and its two `Ipc`s |
| `FileProofs` | | theorems about `Merkle`, `BlockCsv`, `Verifier` and the files of `Archive` |
| `MCReplication`, `MCNodeQueue`, `MCMining`, `MCArchive` | instances for TLC | |

### Chain

A block is the record that `block_from_csv` produces. The operators have the names
of the C functions. Hash and Merkle root are constant operators: the proofs assume
nothing about them, not even that they are injective; the TLC instances use
collision-free ones. `ValidNext` is the test of a proposal and of a commit,
`ValidSynced` that of a synced line, which differs on an empty chain. Text is
abstract: `ShortTx` are strings of a legal length, `ValidTx` those that match the
transaction pattern.

### Replication

`chain[n]`, `up[n]` and `life[n]` are a node's chain, whether its process runs, and
how often it was started. `inbox[n]` is the FIFO of backlog, receiver and queue;
it is bounded, and a full one makes a sender wait. `worker[n][w]` is a worker's
position with its local variables:

| pc | in `node.c` |
|---|---|
| `pop` | in `node_queue_pop` |
| `handle` | a message in hand, before `chain_lock` |
| `broadcast` | in `broadcast_commit`, `chain_lock` held, about to serve `peer` |
| `reply` | before the answer to the miner |
| `serve` | a sync response built, lock released, before `ipc_send` |
| `connect`, `await` | replica behind: before and after the request is sent, no lock held |
| `synced`, `apply` | response received; applying its lines, `chain_lock` held |

Each handler is cut only where another thread can come in. A malformed payload is
refused without the lock, as in the code. Death closes connections: a process that
writes to a dead peer is killed (`CoordinatorEnds`, `End`); whether the write comes
before or after the death is a nondeterministic choice. A replica that starts again
reads the initial chain; nothing restarts node 0.

`heard[m]` is miner m's socket: not open yet, listening or closed, the length of
node 0's chain when it was opened, and the blocks delivered since. A broadcast passes
over a miner whose socket does not listen (`node.c:216`). `LateMiners` start without
one; a miner that terminates closes it while its mining thread may still wait.

`Writable` is the test of `block_to_csv`. A text with a quote (`QuotedTx`) can be read
from a line and pass validation at index 0, and cannot be written. All three callers
are there: `broadcast_commit` then sends nothing although the proposal is answered
with `OK` (`HandleProposal`), `handle_sync_request` leaves the block out (`SyncLines`),
and `propose_block` does not propose it (`Propose`). The third one is why the first
two never concern a block that was proposed: what reaches node 0 from a miner was
written by `block_to_csv`. The mutant `ProposeUnwritten` drops that test, and
`replication_race` then finds an empty replica that takes block 1 at position 0. A
block of the initial file can be unwritable; every node reads that file, and
a replica asks only for what follows it. Another program that sent such a proposal to
node 0's socket is outside the model.

Assumed of the initial chain: empty, or accepted by `validate_blockchain`, with
indices from 0. `blockchain_load_csv` does not test this.

### NodeQueue

One action per critical section, cut at `pthread_cond_wait`. A signal wakes an
arbitrary waiter, spurious wake-ups are possible, woken threads test again in any
order. The receiver accepts, then waits for the message; the connection may break
first, and shutting down the listening socket does not end that wait. Messages are
numbered as the receiver reads them, so the histories `popped`
and `refused` state order and loss directly. `node_stop` runs in its three steps
(flag, queue, socket) interleaved with everything.

### Mining

A step is what a thread does between two points at which it takes a lock or waits
for another process: the tip is copied before the mempool is, the pool is cleaned
before the tip moves, a resync reads height and block in two queries and then
overwrites the tip; each query may fail, and the tip then stays as it is. `mempool_remove_included` is one step for each round of its
loop, because the array it runs over changes under it; it holds the mempool's lock
from the first round to the last, so nobody copies a pool that is half cleaned.
Waits are timed, so they may end at any moment; the dice are
nondeterministic. Node 0 is reduced to what a miner can see: it answers under its
lock, and its broadcast goes to one miner after the other. `Init` is a cold start,
in any order; `WarmInit` the state after a start that nothing disturbed. Each
payload of `Tx` is sent once and is not in the initial file (`NewPayloads`), which
is what `CommittedOnce` is about. Of the initial file the module assumes that block
i has index i - 1 and an acceptable structure (`ChainAssumption`).

### Client

`client[c]` is a position in `submit_transaction` with the list of miners, `start`
and `attempt`; `miner[m]` that of the communication thread. A socket has the life
the code gives it: its file exists from `bind`, connects succeed from `listen`,
wait while `backlog[m]` is full, and are refused after `close`, which comes before
`unlink`; a miner that is killed leaves its file. `conn[c]` is the connection:
what was written, and an answer, `OK`, `ERR` or the end. A write to a closed
connection kills the writer, client or miner. `SIGTERM` interrupts a blocked
connect and a sleep; it does not interrupt the wait for an answer.

`taken`, `outcome`, `steady` and `served` are histories: what miners that live, or
have terminated in order, ever took; what the client logged; who has listened since
the list was made; and who answered last. `AcceptedOnce` does not count miners that
were killed: such a miner may have taken a transaction without answering, and the
client then gives it to another one. `SubmissionEnds` counts the death of a client
as an end only if somebody killed it, or if the miner had closed the connection
before anything was written, so that `SIGPIPE` killed it. That this happens at all
contradicts the comment of `submit_transaction` (see Disagreements).

### Archive and its parts

`Archive` follows a chain from `initial_state.csv` through node 0 to a saved file.
The two directions of the bootstrap's connection are two instances of `Ipc`. The
handlers hold `chain_lock` from the first look at the chain to the last, so a
handler is one step; reading the request and writing the answer are as many as the
socket makes of them, and node 0 may be killed between any two.

- `Ipc` moves cells, pieces of a message that stay together: a header of
  `HEADER_SIZE` cells and a payload of one cell for each line. `write_full` and
  `read_full` are repeated `Write` and `Read` of any number of cells that fits.
- `BlockCsv` keeps the last field of a line as characters, since everything depends
  on where its quotes, colons and commas are. A number is its value and whether it
  is written as `%016x` writes it. The loop over `strstr` is the sequence of values
  of `transaction_cursor` (`Cursors`) up to the round that finds no separator
  (`Rounds`).
- `Merkle` takes SHA-256 to be injective and digests of transactions to differ from
  digests of pairs. The script's root, in `Verifier`, is written independently of it.
- `Verifier` is the script, with its own parser, Merkle root and hash. Its loop is
  the sequence of values of `remaining`, a text that gets shorter, and not a cursor
  into a text that stays.
- A proposal reaches node 0 as a line and is parsed like one of a file
  (`ProposedLines`, `AppendBlock`), so every block of a chain comes out of
  `block_from_csv`. Proposals that the tests refuse change nothing and are not steps.

What the model shows about the files, besides the properties: `blockchain_load_csv`
does not validate, and a chain with an invalid last block never grows again; a
quote inside a genesis text makes a chain that can be loaded but neither saved nor
synced, and `save` then writes the error text into the file and reports success,
since it does not look at `header.type`; a comma makes a file the script refuses;
the script does not compare timestamps; a saved file without blocks does not load.
A text that ends with a colon before a separator would be split elsewhere when it is
read again, but splitting at the leftmost separator never produces one.

### Bootstrap

The kernel's view of each child (`process`) and the table's (`entry`) are separate.
`SIGCHLD`, `SIGINT` and `SIGTERM` bring a blocked `fgets` back to the loop, end the
loop around the last `waitpid` if it waits for somebody (`Interrupt`), and otherwise
only set a flag or nothing. They come any number of times, `SIGCHLD` also when
children stop or continue. A child that was sent `SIGKILL` is `dying` until the kernel
is through with it; a shutdown that is cut short ends in `interrupted` with all entries
marked `TERMINATED`, reaped or not. A
request connects, writes and waits in three steps; a stopped child is connected to
and does not answer. A child may ignore `SIGTERM`. A child that finds no room in the
table runs untracked.

## 3. Runs

All configurations say `CHECK_DEADLOCK FALSE`: proposals, messages, transactions
and commands are bounded, and once they are used up the system really rests.

| Run | Question | Bounds |
|---|---|---|
| `replication_race` | one winner, commits heard in order by every socket that listens, a valid ledger, prefixes, positions? | 2 nodes, 2 miners, 2 workers, 3 proposals from an empty chain: a fork, its continuation, blocks that break the rules, one that cannot be written and its successor; one miner listens late, one may be killed or close its socket, node 0 may be killed |
| `replication_live` | the inductive invariant, `Ledger`; is every proposal answered, does a replica catch up? | an initial block that cannot be written and three more; the replica may die and return |
| `queue` | order, wake-ups, draining, `Fifo`; every message handled, all threads ended by a stop | 3 workers, 3 slots, 7 messages: the ring fills and goes round twice; any number of broken connections |
| `mining_safety` | committed once, not lost, tips committed, from a cold start | 2 miners, 3 valid transactions and an ill-formed one, pool and block of 2, symmetry over the valid transactions |
| `mining_live` | no commit missed, acknowledged is committed, a termination ends both threads | warm start, 2 transactions, one miner may terminate |
| `bootstrap` | table and kernel agree, no orphan with an entry that was not killed, a shutdown ends, a signal that `fgets` misses costs one command | 1 to 4 children, 3 entries, 3 commands of any kind, 3 children may die, any number of signals |
| `client` | nothing submitted twice by a retry, the log is true, a miner that stays is found, the round robin turns; submissions and terminated clients end | 2 clients, 2 miners, 2 transactions, backlog and mempool of 1; one of each may be killed and one terminated |
| `save` | `Delivery`, answers are snapshots, saved files reload, script and C agree, a Merkle root binds its list; commands end | 67 initial files, up to 3 blocks of which 2 fit into a payload, 1 command, headers and socket buffers of 2 cells |

Symmetry is used only in runs without liveness, `replication_race` (workers are
interchangeable) and `mining_safety` (nothing orders transactions).

**Why the bounds are enough.** Two workers give every race for a lock, two miners
every race for an index, one replica every gap, since replicas do not talk to each
other. Three blocks beyond the genesis are needed for a gap of two with a commit in
between. `Replication` has two runs because who hears what needs miners that come and
go, and catching up needs a replica that does; together they would be too many
states. One starts from no blocks, the other from a file. A pool and a block of two transactions let the swap removal refill a slot
and leave a transaction behind. `mining_safety` has one transaction more than a pool
holds. Two clients and a backlog of one make a client wait in `connect`; the second
transaction, of either client, finds a full mempool or a moved round robin. The
initial files of `save` are all genesis texts of up to 4 characters over a letter
and the colon, and of up to 2 with comma and quote, blocks of 1 to 5 transactions
(trees of heights 1 to 3), and files with one thing wrong. One command is enough for
what a command does; that a second one, on a new connection, finds nothing of the
first is part of what `ArchiveProofs` proves. Four children and three entries reach a table that is too small and ones that
are not.

**Fairness.** Weak fairness of threads: each thread that can run does, which the
scheduler gives. In `Replication` a miner whose connection has closed also notices.
In `NodeQueue` a peer that has connected writes its message or closes (`PeerStep`):
all senders in the repository write right after they connect, a dead one's connection
is closed by the kernel, and one that the bootstrap has stopped is continued by the
shutdown. `Receive` is not fair by itself.
In `Mining`, strong fairness of `Mined`: dice that are thrown again and again fall
well again and again; and of `HandleProposal`: a mutex does not starve a worker for
ever (glibc's promises less, but proposals are few). In `Bootstrap`, the deadline of
the shutdown passes, and `SIGKILL` kills (`Dies`). In `Client` and `Archive` every process that can take a step
does; killing, stopping, mining and typing are not fair. Nobody ever has to type, submit, propose, start or crash, and no
child has to react to `SIGTERM`.

### Disagreements

Four runs are expected to fail, one for each cause. Each checks a statement of a comment, test or script.

| Run | What happens |
|---|---|
| `coordinator_killed` | Miner proposes and is killed; node 0's answer raises `SIGPIPE`, which ends node 0. |
| `sync_too_large` | The missing blocks exceed `MAX_PAYLOAD_SIZE`; the response is never sent, the replica stays behind. |
| `miner_stale` | `MSG_BLOCK_REJECT` is read by `propose_block` and dropped; the resync meant for it never runs. |
| `boot_pause_hang` | `pause`, then `submit` or `request`: the bootstrap waits for a child it has stopped. |

The cause of the first, that nobody ignores `SIGPIPE`, has a second victim: a client
whose miner dies between connect and write is killed and never tries the next miner,
although the comment at `client/client.c:385-387` says that the retries let clients keep
working if a miner crashes. `SubmissionEnds` says that this is the only way.

A fifth is weaker and has no run: the comment at `bootstrap/bootstrap.c:53` wants
dead children reaped promptly, and one that dies after the reap and before `fgets`
blocks stays `RUNNING` until somebody types. `SignalCostsOneCommand` says how long at
most.

One more hazard is out of the bounds of the runs. `broadcast_commit` connects under
`chain_lock` and waits while a replica's backlog is full; if all workers of that
replica wait for a sync, which node 0 serves under the same lock, nobody goes on.
`Replication` has this circular wait when each node has one worker and each inbox
one slot. With 4 workers, a queue of 64 and a backlog of 16 it takes more than 80
commits that all overtake a waiting sync request at the mutex.

## 4. Proofs

For every number of nodes, miners, workers, blocks and messages, and every value of
the other constants that satisfies the named assumptions.

**Replication.** `TypeCorrect` first. `ReplicaPrefix` is not inductive: a commit in
an inbox, a block in a worker's hands or a sync response could be anything. `IInv`
adds (`InFlightInv`) that all of these are pieces of the coordinator's chain, and
that a sync request of a process that still lives never starts beyond the end of
its chain; the condition on lives is what a restart needs, because a request of a
former life may ask for more than the new chain has. `LedgerInv` adds that the
coordinator's chain is valid, extends the initial chain and has indices equal to
positions, that every block beyond the initial chain can be written, and that no node
ever has less than the initial chain. The last two, with a sync request that starts
behind the initial chain, make `SyncLines` the plain rest of the ledger
whatever the initial file contains; an empty initial chain included, where all blocks
can be written. The argument for a synced line: all lines are the ledger's blocks from
`next` on, and `next` is at most the length of the replica's chain; a line below
that length is refused because its index is not the successor's, and one at that
length is exactly the ledger's next block. There is one lemma per action, and
lemmas that say what growing chains and dying processes leave intact
(`OnLedgerKept`, `RequestKept`, `MessageKept`, `EndInFlight`). From `IInv` follow
`ReplicasArePrefixes`, `LedgerAlwaysValid`, `IndexesArePositions` and, step by step,
`NodesImplementLedger`.

`CommitProofs` adds two invariants on top. `AckInv`: between the append and the
answer a worker owes an `OK` for its block; blocks that are owed and blocks that
were answered all have different indices and are in the ledger. From it follows
`OneWinner`. `HeardInv`: at most one worker broadcasts, and what it broadcasts is
the last block; what a miner has heard is a piece of the chain (`HeardFrom`), which
starts at the length the chain had when the socket opened, or one block before that
if the socket opened in front of a broadcast that was under way. While node 0 runs and
the socket listens, the piece and the block that is still on its way reach to the end
of the chain. That equality survives a death or a close as a prefix, which is what
`HeardInOrder` states.

**NodeQueue.** `IInv` joins the types, `tail = (head + count) % Capacity`, the fact
that nothing is refused before the shutdown, and the three properties, which need
each other: that a worker has left implies an empty ring only because push refuses
after the shutdown. From it follow `QueueInOrder`, `QueueNoLostWakeup`,
`QueueDrained` and `QueueImplementsFifo`.

**Mining.** `CommittedOnce` is far from inductive: a mempool may well hold a
transaction that is in the chain, and a miner may well propose it. `IInv` says why
it is not committed again. `CleanInv`: a pooled transaction that block i already has
is ahead of the tip (`tip.next_index` is at most i - 1), and its commit is still
pending, queued, in the hands of the communication thread or on its way from node 0
(a miner that broadcasts do not reach never moves its tip after the start).
`MiningInv`: a tip that was copied before the pool was, and a candidate built from
both, have the same property, so the index of such a candidate is taken, and node 0
rejects it. `OrderInv`: commits reach a miner in increasing order; without it, an
older commit could move the tip past one that is still pending. `OnePlace`: a
payload waits in one connection or was answered by one miner. The rounds of the
cleaning need their own part, that nothing before `slot` is in the block: the swap
brings an unseen transaction to `slot`, which is looked at again. `PoolInv` holds
what remains of `NoAckedTransactionLost` and `CommittedOnce`. The resync at the
start overwrites the tip without looking, which is safe because nothing that this
miner answered is in the chain before its first candidate. A cold start misses
commits, so `NoMissedCommit` is a theorem of `WarmSpec` (`WarmInv`). Theorems:
`TypeCorrect`, `TipsAreReal`, `NothingIsLost`, `NothingTwice`, `NothingMissed`.

**Bootstrap.** `IInv` joins types, the order in which children are started, and the
two properties of the table, which need each other: only because an entry is
`TERMINATED` exactly when its process was reaped does the loop that sends `SIGKILL`
reach everybody. So every process of the table is dying, a zombie or reaped when the
last `waitpid` is called (a part of `IInv`); undisturbed it reaps them all, and a
signal that ends it leaves nobody who could live on. From it follow `TypeCorrect`, `TableIsTrue` and
`ShutdownIsClean`. `LateNotLost` is a property of behaviours: once the flag is set,
or a child has died, at most one `fgets` can still return a line before the top of
the loop is passed (`AtMostOneMore`).

**Client.** `OnePlace` and `WaitsForMiner`: a connection is in one backlog, or with
the thread that accepted it, and its client waits for exactly that miner.
`TakenOf`: the current transaction is with a miner only if that miner is about to
answer `OK` or has done so; this is what makes a retry safe, since an error or the
end of the connection then implies that nobody has it. `SearchOf` and `RobinOf`
relate `start`, `attempt` and the list of miners to who has listened all the time and
who answered last. Theorems: `RetriesAreSafe`, `LogIsTrue`, `SearchIsComplete`,
`RotationIsFair`.

**Archive.** `WireInv` says of one direction that what was read, what the kernel
holds and what is still to be written are, one after the other, cells of the message
at their places, and that the receiver is done only when it has all of them; header
and payload limit together give that `Wanted` is what is missing. The steps are
lemmas about any two values of a wire and serve both directions. `CommandInv` adds
that the request is that of the running command and the response, if there is one, a
snapshot, and that a snapshot remains one while the chain grows (`SnapshotGrows`).
Theorems: `WiresDeliver`, the refinement of `Delivery` in both directions, and
`AnswersAreSnapshots`. The proof needs that a file is a list of lines
(`FileAssumption`) and nothing about hashes, parsing or validation.

The proof of the refinement found an error in the model: `Delivery` let a new
connection begin only without a message, while a command connects and calls
`ipc_send` in one step, which two commands in a row would have shown.

**Files.** `FileProofs` is about loops over texts and trees of any size.

- *Induction.* `Induction` and `MinIsLeast` come from the least element of a set of
  numbers, which the library states about sets and without an operator as parameter.
  A recursive function satisfies its equation because a solution exists; the proofs
  build one up round by round or write it down, as the loop's invariant.
- *The round trip.* `Loop` says of the loop over `strstr` that every round but the
  last finds a separator and the next one starts behind it. By `Splice`, the pieces
  so far, joined by `::`, are the text before the cursor; hence `JoinSplit`: joining
  what was split gives the text back. So `block_to_csv` writes the text that `block_from_csv` read
  (`RoundTrip`), and a file line by line the lines of the chain (`Reloads`).
- *Merkle roots.* A level can be recovered from the next one if the digest that fills
  levels up is not in it (`HalfInjective`), and it is in none; the number of levels can be
  read off the root, because leaves are digests of texts and all others digests of
  pairs. `RootDeterminesList` goes down the levels by induction.
- *Agreement.* The script cuts a text that gets shorter, the C program moves a cursor;
  `Shift` relates one to the other and gives `SplitsAgree`. `ParentsAreHalf` and
  `RootsAgree` do this for the Merkle root. What commas do to the script is
  `CommaRefused` and `CommaFree`. `Agreement` is then about any file at all.
- *The invariant.* `SavedFileReloads` is not inductive, and `IInv` says nothing about
  what is inside a block: a block with the texts `a:` and `b` would be written as
  `a:::b` and read again as `a` and `:b`. `FileInv` adds that the transactions of
  every block are what the loop finds in some text (`IsParsed`), that a command that
  saves asks for everything, and that an error carries the error text, which is no
  header. From it follow `SavedFilesReload`, `ImplementationsAgree` and `RootsBind`.

Assumed: the three punctuation marks are characters, the limits are numbers
(`CharAssumption`, `LimitAssumption`); the last field of each line of a file, and of
each proposal, is text (`FileAssumption`, `ArchiveAssumption`); the lists a root is
compared with have no empty transaction (`BatchAssumption`), which
`block_add_transaction` sees to. Of SHA-256, what `Merkle` builds in: no collisions.

`RootsBind` covers all states, `RootsBound`; for TLC the same invariant is limited to
those before the first command, since commands do not change the chain.

**Only model-checked.** All liveness, because fairness is out of the prover's reach:
`ProposalAnswered`, `CommitReachesReplica`, `EveryMessageHandled`, `StopEndsThreads`,
`AckedIsCommitted`, `TerminationEndsThreads`, `ShutdownCompletes`, `SubmissionEnds`,
`TerminationEndsClient` and `CommandEnds`. Every invariant and every other property
of the passing runs has a theorem.

## 5. Not modelled

The inside of SHA-256; magic, version and socket paths; the syntax of numbers and of
valid transactions beyond membership in a set; logging; argument parsing; creating
and removing the runtime directory; exhaustion of memory. `block_serialize`,
`block_deserialize`, `mempool_size` and `blockchain_save_csv` are called by tests
only; the last one is in `BlockCsv` because it says what a saved file should be.
`MSG_SHUTDOWN` has no sender.

## 6. Plan

Order: what decides about the ledger first, then what feeds it, then what runs it.

1. Done: `Chain`, `Ledger`, `Replication` with proofs; `Fifo`, `NodeQueue` with
   proofs; `Mining`; `Bootstrap`.
2. Done: `Client`; `Merkle`, `BlockCsv`, `Verifier`, `Delivery`, `Ipc` and `Archive`.
3. Done: the remaining invariants of `Replication`, and proofs for `Mining`,
   `Bootstrap`, `Client` and `Archive`, with the refinement of `Delivery`.
4. Done: proofs about files, Merkle roots and the script.
5. Left: that `Client`'s miners and those of `Mining` agree on what a miner answers,
   which both modules state for themselves.
