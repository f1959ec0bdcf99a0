------------------------------ MODULE Archive ------------------------------
(***************************************************************************)
(* The way of a chain from file to file.  The bootstrap copies the initial *)
(* state into the runtime directory; node 0 loads it, without validating   *)
(* it, and appends blocks; `save blockchain` and the two `request`         *)
(* commands ask node 0, which answers with CSV lines; the saved file is    *)
(* what the bash script verifies and what the next start may load.         *)
(*                                                                         *)
(* Both directions of the connection are instances of Ipc: cells of the    *)
(* request and of the response move one write and one read at a time, and  *)
(* node 0 may be killed between any two of them.  The handlers themselves  *)
(* hold chain_lock from their first look at the chain to their last.       *)
(***************************************************************************)
EXTENDS BlockCsv, Verifier

CONSTANTS
  HEADER_SIZE, SOCKET_BUFFER, MAX_PAYLOAD_SIZE,     \* see Ipc
  Files,                   \* contents of initial_state.csv to start from
  NoFile,                  \* no initial state was given
  Batches,                 \* lists of transactions a root is compared with
  Proposed,                \* transaction fields of the lines that miners propose
  Now,                     \* the timestamp of their blocks
  ZeroHash,                \* the hash a first block links to
  Indices,                 \* block indices that are asked for
  MaxBlocks,               \* bound: blocks that are appended up to this height
  MaxCommands              \* bound: commands in a behaviour

ASSUME IpcAssumption ==
  HEADER_SIZE \in Nat \ {0} /\ SOCKET_BUFFER \in Nat \ {0} /\ MAX_PAYLOAD_SIZE \in Nat
ASSUME ArchiveAssumption ==
  /\ NoFile \in Files /\ Proposed \subseteq Seq(Char)
  /\ MaxBlocks \in Nat /\ MaxCommands \in Nat

IsSeq(s) == s \in Seq({s[i] : i \in DOMAIN s})

\* A file is a list of lines, and the last field of a line is text.
ASSUME FileAssumption ==
  \A file \in Files \ {NoFile} :
    IsSeq(file.lines) /\ \A i \in 1..Len(file.lines) : file.lines[i].transactions \in Seq(Char)

\* Nothing without transactions, and no empty transaction, gets into a block.
ASSUME BatchAssumption ==
  \A txs \in Batches : IsSeq(txs) /\ txs # <<>> /\ \A i \in 1..Len(txs) : txs[i] # <<>>

VARIABLES
  disk,        \* initial_state.csv in the runtime directory
  node,        \* node 0: "init", "up" or "dead"
  chain,       \* node 0's chain
  boot,        \* the bootstrap: its command, and the chain's height at its start
  result,      \* what the last command saved or printed
  typed,       \* commands so far
  request,     \* bootstrap to node 0
  response     \* node 0 to bootstrap

vars == <<disk, node, chain, boot, result, typed, request, response>>

Req == INSTANCE Ipc WITH wire <- request
Resp == INSTANCE Ipc WITH wire <- response

ShortText == {t \in Seq(Char) : LegalLength(t)}

V == INSTANCE Chain WITH ShortTx <- ShortText, BlockHash <- calculate_block_hash,
                         MerkleRoot <- calculate_merkle_root

Prompt == [pc |-> "prompt"]
NoResult == [state |-> "nothing"]

Init ==
  /\ disk \in Files
  /\ node = "init" /\ chain = <<>>
  /\ boot = Prompt /\ result = NoResult /\ typed = 0
  /\ request = Req!NewWire /\ response = Resp!NewWire

-----------------------------------------------------------------------------
(* Node 0.                                                                 *)

\* Its end of the connection, when the process ends.
NodeEnds ==
  /\ node' = "dead"
  /\ request' = Req!CloseReceiver(request)
  /\ response' = Resp!CloseSender(response)

\* node_init: the socket listens before the file is read.  A file that
\* cannot be loaded ends the node.
NodeInit ==
  /\ node = "init"
  /\ IF disk = NoFile
       THEN node' = "up" /\ chain' = <<>> /\ UNCHANGED <<request, response>>
       ELSE \E loaded \in {blockchain_load_csv(disk)} :
              IF loaded.ok
                THEN node' = "up" /\ chain' = loaded.chain /\ UNCHANGED <<request, response>>
                ELSE NodeEnds /\ UNCHANGED chain
  /\ UNCHANGED <<disk, boot, result, typed>>

\* The lines of proposals that fit onto the chain.
ProposedLines ==
  LET last == chain[Len(chain)]
  IN {[index |-> Number(IF chain = <<>> THEN 0 ELSE last.index + 1), timestamp |-> Number(Now),
       previous_hash |-> IF chain = <<>> THEN ZeroHash ELSE calculate_block_hash(last),
       merkle_root |-> calculate_merkle_root(SplitTransactions[SubSeq(text, 2, Len(text) - 1)]),
       nonce |-> Number(0), transactions |-> text] : text \in Proposed}

\* A proposal that is well-formed and passes the tests is appended.
AppendBlock ==
  /\ node = "up" /\ Len(chain) < MaxBlocks
  /\ \E parsed \in {block_from_csv(line) : line \in ProposedLines} :
       /\ parsed.ok /\ V!ValidNext(chain, parsed.block)
       /\ chain' = blockchain_append(chain, parsed.block)
  /\ UNCHANGED <<disk, node, boot, result, typed, request, response>>

KillNode ==
  /\ node # "dead"
  /\ NodeEnds
  /\ UNCHANGED <<disk, chain, boot, result, typed>>

CsvHeader == [kind |-> "csv_header"]
LineCell(line) == [kind |-> "line", line |-> line]
ErrorText == <<[kind |-> "text"]>>

Answer(type, payload) == Resp!Message(type, payload)

\* Where a query points to in the chain; 0 is nowhere.
Find(query) ==
  CASE query.by = "index" -> blockchain_get_by_index(chain, query.index)
    [] query.by = "hash" -> blockchain_get_by_hash(chain, query.hash)
    [] OTHER -> 0

handle_query_block(query) ==
  LET i == Find(query)
  IN IF i # 0 /\ Serialisable(chain[i])
       THEN Answer("OK", <<LineCell(block_to_csv(chain[i]).line)>>)
       ELSE Answer("ERR", ErrorText)

\* Mutant: the block that was found is left out.
QueryChainAfter(query) ==
  LET first == IF query.by = "all" THEN 1 ELSE Find(query) + 1
      part == SubSeq(chain, first, Len(chain))
  IN IF first # 0 /\ \A i \in 1..Len(part) : Serialisable(part[i])
       THEN Answer("OK", <<CsvHeader>> \o
                         [i \in 1..Len(part) |-> LineCell(block_to_csv(part[i]).line)])
       ELSE Answer("ERR", ErrorText)

\* The whole chain, or all blocks from one on.  One block that cannot be
\* written, and there is only an error.
handle_query_chain(query) ==
  LET first == IF query.by = "all" THEN 1 ELSE Find(query)
      part == SubSeq(chain, first, Len(chain))
  IN IF first # 0 /\ \A i \in 1..Len(part) : Serialisable(part[i])
       THEN Answer("OK", <<CsvHeader>> \o
                         [i \in 1..Len(part) |-> LineCell(block_to_csv(part[i]).line)])
       ELSE Answer("ERR", ErrorText)

ReceiveRequest ==
  /\ node = "up" /\ Req!Read
  /\ UNCHANGED <<disk, node, chain, boot, result, typed, response>>

\* A worker handles the query and calls ipc_send.  When that refuses, the
\* connection is closed without an answer.
HandleQuery ==
  /\ node = "up" /\ request.receiver = "done"
  /\ response.message = NoResult /\ response.sender = "open"
  /\ LET query == IF Req!Received.payload = <<>> THEN [by |-> "all"]
                  ELSE Req!Received.payload[1]
         sent == Resp!ipc_send(response, IF Req!Received.type = "QUERY_CHAIN"
                                           THEN handle_query_chain(query)
                                           ELSE handle_query_block(query))
     IN response' = IF sent = response THEN Resp!CloseSender(response) ELSE sent
  /\ UNCHANGED <<disk, node, chain, boot, result, typed, request>>

SendResponse ==
  /\ node = "up" /\ Resp!Write
  /\ UNCHANGED <<disk, node, chain, boot, result, typed, request>>

\* ipc_close(client_fd).
CloseConnection ==
  /\ node = "up" /\ response.sender = "open"
  /\ response.message # NoResult /\ response.todo = <<>>
  /\ response' = Resp!CloseSender(response)
  /\ UNCHANGED <<disk, node, chain, boot, result, typed, request>>

-----------------------------------------------------------------------------
(* The bootstrap: send_request and the commands that use it.               *)

Queries ==      {[by |-> "all"], [by |-> "junk"]}
           \cup {[by |-> "index", index |-> n] : n \in Indices}
           \cup {[by |-> "hash", hash |-> calculate_block_hash(chain[i])] : i \in 1..Len(chain)}

CommandSet ==      {[name |-> "save", type |-> "QUERY_CHAIN", query |-> [by |-> "all"]]}
              \cup {[name |-> "print", type |-> t, query |-> q] :
                      t \in {"QUERY_CHAIN", "QUERY_BLOCK"}, q \in Queries}

\* The arguments are sent as they are typed; without any, nothing.
Payload(query) == IF query.by = "all" THEN <<>> ELSE <<query>>

\* Connect, if node 0 listens, and start to send.
TypeCommand ==
  /\ boot.pc = "prompt" /\ typed < MaxCommands
  /\ typed' = typed + 1
  /\ \E c \in CommandSet :
       IF node = "dead"
         THEN /\ result' = [state |-> "unreachable"]
              /\ UNCHANGED <<boot, request, response>>
         ELSE /\ boot' = [pc |-> "request", command |-> c, height |-> Len(chain)]
              /\ result' = NoResult
              /\ request' = Req!ipc_send(Req!NewWire, Req!Message(c.type, Payload(c.query)))
              /\ response' = Resp!NewWire
  /\ UNCHANGED <<disk, node, chain>>

SendRequest ==
  /\ boot.pc = "request" /\ Req!Write
  /\ UNCHANGED <<disk, node, chain, boot, result, typed, response>>

\* SIGPIPE: node 0 has died before everything was written.
BootstrapKilled ==
  /\ boot.pc = "request" /\ request.receiver = "closed" /\ request.todo # <<>>
  /\ boot' = [pc |-> "killed"]
  /\ UNCHANGED <<disk, node, chain, result, typed, request, response>>

ReceiveResponse ==
  /\ boot.pc = "request" /\ request.todo = <<>>
  /\ Resp!Read \/ Resp!EndOfStream
  /\ UNCHANGED <<disk, node, chain, boot, result, typed, request>>

\* The response is printed, or written to the file as it is: its type is not
\* looked at.  The file may be one that cannot be opened.
Finish ==
  /\ boot.pc = "request"
  /\ \/ response.receiver = "failed" /\ result' = [state |-> "no response"]
     \/ /\ response.receiver = "done" /\ boot.command.name = "save"
        /\ result' = [state |-> "not written"]
     \/ /\ response.receiver = "done"
        /\ result' = [state |-> "answered", command |-> boot.command, height |-> boot.height,
                      type |-> Resp!Received.type, payload |-> Resp!Received.payload]
  /\ boot' = Prompt
  /\ UNCHANGED <<disk, node, chain, typed, request, response>>

-----------------------------------------------------------------------------
NodeStep == NodeInit \/ ReceiveRequest \/ HandleQuery \/ SendResponse \/ CloseConnection
BootStep == SendRequest \/ BootstrapKilled \/ ReceiveResponse \/ Finish
Next == NodeStep \/ BootStep \/ AppendBlock \/ KillNode \/ TypeCommand

\* Both processes run; nobody has to type, to propose or to kill.
Spec == Init /\ [][Next]_vars /\ WF_vars(NodeStep) /\ WF_vars(BootStep)

-----------------------------------------------------------------------------
(* Properties.                                                             *)

\* Request and response arrive whole or not at all.
DeliversAllOrNothing == Req!DeliversAllOrNothing /\ Resp!DeliversAllOrNothing

Answered == result.state = "answered"
Matches(b, query) ==
  \/ query.by = "index" /\ b.index = query.index
  \/ query.by = "hash" /\ calculate_block_hash(b) = query.hash

\* The file the bootstrap writes when it saves this payload.
SavedFile(payload) ==
  IF payload[1] = CsvHeader
    THEN [header |-> TRUE, lines |-> [i \in 1..(Len(payload) - 1) |-> payload[i + 1].line]]
    ELSE [header |-> FALSE, lines |-> <<>>]

\* Where the answer to a query may start.
Starts(query) ==
  IF query.by = "all" THEN {1} ELSE {i \in 1..Len(chain) : Matches(chain[i], query)}

\* What an answer to a command that was typed at this height may be.
IsSnapshot(command, height, type, payload) ==
  CASE type = "ERR" ->
         \/ \E i \in 1..Len(chain) : ~Serialisable(chain[i])
         \/ \A i \in Starts(command.query) : i > height
         \/ command.type = "QUERY_BLOCK" /\ command.query.by = "all"
    [] type # "ERR" /\ command.type = "QUERY_BLOCK" ->
         \E i \in Starts(command.query) \cap 1..Len(chain) :
           payload = <<LineCell(block_to_csv(chain[i]).line)>>
    [] OTHER ->
         \E i \in Starts(command.query), n \in height..Len(chain) :
           SavedFile(payload) = blockchain_save_csv(SubSeq(chain, i, n))

\* An answer shows the chain at one moment between command and answer,
\* although blocks are appended all the time: everything from the block that
\* was asked for up to some height, or that block alone; an error only if no
\* block of that time matched or one cannot be written.
AnswerIsSnapshot ==
  Answered => IsSnapshot(result.command, result.height, result.type, result.payload)

\* A saved file loads again, to the very blocks it was made of, whatever
\* colons and commas their texts have.
SavedFileReloads ==
  Answered /\ result.command.name = "save" /\ result.type = "OK" =>
    LET file == SavedFile(result.payload)
        count == Len(file.lines)
    IN IF count = 0 THEN ~blockchain_load_csv(file).ok
       ELSE blockchain_load_csv(file) = [ok |-> TRUE, chain |-> SubSeq(chain, 1, count)]

\* validate_blockchain without its test of the timestamps.
ValidButForTime(c) ==
  /\ c[1].index = 0
  /\ \A i \in 1..Len(c) : V!validate_block_merkle_root(c[i])
  /\ \A i \in 2..Len(c) : /\ c[i].index = c[i - 1].index + 1
                          /\ c[i].previous_hash = calculate_block_hash(c[i - 1])

\* A line without the commas and the numbers that the script cannot read.
Readable(line) ==
  /\ Comma \notin Range(line.transactions)
  /\ line.index.canonical /\ line.timestamp.canonical /\ line.nonce.canonical

AgreeOn(file) ==
  LET loaded == blockchain_load_csv(file)
  IN loaded.ok =>
       (verify_blockchain(file) <=>
          /\ ValidButForTime(loaded.chain)
          /\ \A i \in 1..Len(file.lines) : Readable(file.lines[i]))

\* The two implementations agree on every file that loads, be it an initial
\* state or saved: the script accepts it exactly if the C rules do, but for
\* timestamps, which it does not compare, and for commas in the genesis text
\* and numbers not written as %016x, which it cannot read.
VerifierAgrees ==
  /\ node = "init" /\ disk # NoFile => AgreeOn(disk)
  /\ Answered /\ result.command.name = "save" => AgreeOn(SavedFile(result.payload))

\* No other list of transactions has the root of a block in the chain.
RootsBound ==
  \A i \in 1..Len(chain) : V!validate_block_merkle_root(chain[i]) =>
    \A other \in Batches :
      calculate_merkle_root(other) = chain[i].merkle_root => other = chain[i].transactions

\* A Merkle root binds the list of transactions: no other list, shorter,
\* longer or in another order, has the root of a block in the chain.  Commands
\* do not change the chain, so TLC looks only at states before the first one.
RootBindsTransactions == typed = 0 => RootsBound

\* A command comes back to the prompt, even if the chain is too large to be
\* sent or node 0 dies, unless SIGPIPE kills the bootstrap.
CommandEnds == boot.pc = "request" ~> boot.pc \in {"prompt", "killed"}

-----------------------------------------------------------------------------
(* The inductive invariant.                                                *)

Cells(m) == Req!Header(m) \o m.payload

\* The sequence s is what follows the first k cells of message m.
Placed(s, m, k) == \A i \in 1..Len(s) : s[i] = Cells(m)[k + i]

\* A direction of the connection: what was read, what the kernel holds and
\* what is to be written are, one after the other, cells of the message.
WireInv(w) ==
  /\ w = [message |-> w.message, todo |-> w.todo, buffer |-> w.buffer, got |-> w.got,
          sender |-> w.sender, receiver |-> w.receiver]
  /\ w.sender \in {"open", "closed"}
  /\ w.receiver \in {"reading", "done", "failed", "closed"}
  /\ IsSeq(w.todo) /\ IsSeq(w.buffer) /\ IsSeq(w.got)
  /\ w.message = NoResult =>
       w.todo = <<>> /\ w.buffer = <<>> /\ w.got = <<>> /\ w.receiver # "done"
  /\ w.message # NoResult =>
       LET m == w.message
           total == HEADER_SIZE + Len(m.payload)
       IN /\ m = Req!Message(m.type, m.payload) /\ IsSeq(m.payload)
          /\ Len(m.payload) <= MAX_PAYLOAD_SIZE
          /\ Len(w.got) + Len(w.buffer) + Len(w.todo) <= total
          /\ Placed(w.got, m, 0)
          /\ Placed(w.buffer, m, Len(w.got))
          /\ Placed(w.todo, m, Len(w.got) + Len(w.buffer))
          /\ w.receiver = "done" => Len(w.got) = total

\* While a command runs, the request is its own, and the response, as far as
\* there is one, is a snapshot that later blocks do not invalidate.
CommandInv ==
  /\ boot.pc = "request" =>
       /\ boot.height \in 0..Len(chain)
       /\ boot.command.type \in {"QUERY_CHAIN", "QUERY_BLOCK"}
       /\ boot.command.query.by = "all" => boot.command.query = [by |-> "all"]
       /\ request.message # NoResult =>
            request.message = Req!Message(boot.command.type, Payload(boot.command.query))
       /\ response.message # NoResult =>
            IsSnapshot(boot.command, boot.height, response.message.type, response.message.payload)
  /\ AnswerIsSnapshot
  /\ Answered => result.height \in 0..Len(chain)
  /\ node = "init" => chain = <<>> /\ response.message = NoResult /\ ~Answered

IInv ==
  /\ WireInv(request) /\ WireInv(response)
  /\ disk \in Files /\ IsSeq(chain)
  /\ CommandInv

\* A block as block_from_csv makes it: its transactions are what the loop
\* finds in a text, within the limits.
IsParsed(b) ==
  /\ b = [index |-> b.index, timestamp |-> b.timestamp, previous_hash |-> b.previous_hash,
          nonce |-> b.nonce, merkle_root |-> b.merkle_root, transactions |-> b.transactions]
  /\ Join(b.transactions) \in Seq(Char)
  /\ b.transactions = SplitTransactions[Join(b.transactions)]
  /\ Len(b.transactions) <= MAX_TRANSACTIONS_PER_BLOCK
  /\ \A k \in 1..Len(b.transactions) : LegalLength(b.transactions[k])

\* What a command that saves asks for, and what an error says.
SavesAll(c) == c.name = "save" => c.type = "QUERY_CHAIN" /\ c.query = [by |-> "all"]
ErrorIsText(type, payload) == type = "ERR" => payload = ErrorText

\* Blocks come from lines, and only the whole chain is saved.
FileInv ==
  /\ \A i \in 1..Len(chain) : IsParsed(chain[i])
  /\ boot.pc = "request" =>
       /\ SavesAll(boot.command)
       /\ response.message # NoResult =>
            ErrorIsText(response.message.type, response.message.payload)
  /\ Answered => SavesAll(result.command) /\ ErrorIsText(result.type, result.payload)
=============================================================================
