------------------------------- MODULE Client -------------------------------
(***************************************************************************)
(* The clients of client/client.c and the sockets of the miners they send  *)
(* their transactions to.  A client discovers the socket files of the      *)
(* runtime directory, starts at its round-robin position and tries one     *)
(* miner after the other until one answers.                                *)
(*                                                                         *)
(* What makes this delicate is the life of a socket.  Its file appears in  *)
(* bind, before listen, and stays when the miner is killed; a miner that   *)
(* terminates closes it and unlinks the file afterwards.  The kernel       *)
(* accepts connections up to the backlog, and a client waits when it is    *)
(* full.  Nobody ignores SIGPIPE: whoever writes to a connection the other *)
(* side has closed is killed.                                              *)
(*                                                                         *)
(* Of a miner the module keeps its communication thread, its mempool and   *)
(* the commits that empty it; module Mining has the rest.  Connections of  *)
(* node 0 and of the bootstrap take no room in the backlog here.  A client *)
(* generates well-formed transactions only, each one a new one.            *)
(***************************************************************************)
EXTENDS Naturals, FiniteSets, Sequences, FiniteSetsExt, Functions

CONSTANTS
  Clients,
  M,                       \* miners 0 .. M-1
  MaxTx,                   \* bound: transactions generated by all clients
  MEMPOOL_CAPACITY,
  IPC_BACKLOG,             \* connections the kernel accepts for a miner
  MAX_DISCOVERED_MINERS,
  Stoppable,               \* clients and miners that get a termination signal
  Killable                 \* clients and miners that are killed

Miners == 0..(M - 1)
Tx == Clients \X (1..MaxTx)

ASSUME ClientAssumption ==
  /\ M \in Nat /\ MaxTx \in Nat /\ IPC_BACKLOG \in Nat \ {0}
  /\ MEMPOOL_CAPACITY \in Nat /\ MAX_DISCOVERED_MINERS \in Nat \ {0}

VARIABLES
  frequency,       \* the clients' third argument: 0, or some period
  client,          \* client[c]: where c is, with its locals
  next_miner,      \* next_miner[c]: the round-robin position
  made,            \* made[c]: transactions generated; the last is current
  conn,            \* conn[c]: c's connection, as the kernel has it
  miner,           \* miner[m]: where the communication thread is
  file,            \* file[m]: the socket file exists
  backlog,         \* backlog[m]: connections not yet accepted, by client
  mempool,         \* mempool[m]: the pending transactions
  shutdown,        \* clients and miners whose shutdown flag is set
  taken,           \* taken[m]: all that a miner which lives put into its pool (history)
  outcome,         \* outcome[c]: of c's last submission (history)
  steady,          \* steady[c]: miners listening since c's discovery (history)
  served           \* served[c]: who answered c last, of which list (history)

clientVars == <<client, next_miner, made, outcome, served>>
minerVars == <<miner, file, backlog, mempool, taken>>
vars == <<frequency, clientVars, conn, minerVars, shutdown, steady>>

At(pc) == [pc |-> pc]
NoConn == [written |-> FALSE, answer |-> "none"]
Nobody == [miner |-> M, ids |-> <<>>]

Init ==
  /\ frequency \in {0, 1}
  /\ client = [c \in Clients |-> At("idle")]
  /\ next_miner = [c \in Clients |-> 0]
  /\ made = [c \in Clients |-> 0]
  /\ conn = [c \in Clients |-> NoConn]
  /\ miner = [m \in Miners |-> At("starting")]
  /\ file = [m \in Miners |-> FALSE]
  /\ backlog = [m \in Miners |-> <<>>]
  /\ mempool = [m \in Miners |-> {}]
  /\ shutdown = {}
  /\ taken = [m \in Miners |-> {}]
  /\ outcome = [c \in Clients |-> "none"]
  /\ steady = [c \in Clients |-> {}]
  /\ served = [c \in Clients |-> Nobody]

Listening(m) == miner[m].pc \in {"poll", "recv", "reply", "closing"}
SetClient(c, state) == client' = [client EXCEPT ![c] = state]
SetMiner(m, state) == miner' = [miner EXCEPT ![m] = state]

-----------------------------------------------------------------------------
(* The main loop of a client.                                              *)

\* Mutant: the loop of a client with frequency 0 does not test the flag.
LeaveUnlessIdle(c) ==
  /\ client[c].pc = "idle" /\ c \in shutdown /\ frequency # 0
  /\ SetClient(c, At("done"))
  /\ UNCHANGED <<frequency, next_miner, made, outcome, served, conn, minerVars,
                 shutdown, steady>>

\* The loop ends when it finds the flag set.
Leave(c) ==
  /\ client[c].pc = "idle" /\ c \in shutdown
  /\ SetClient(c, At("done"))
  /\ UNCHANGED <<frequency, next_miner, made, outcome, served, conn, minerVars,
                 shutdown, steady>>

\* discover_miners: the ids in the names of the socket files, sorted.  When
\* there are too many, those that readdir returns first.
discover_miners ==
  LET Found == {m \in Miners : file[m]}
      count == Min({Cardinality(Found), MAX_DISCOVERED_MINERS})
  IN {ids \in [1..count -> Found] : \A i, j \in 1..count : i < j => ids[i] < ids[j]}

\* A sleep is over: a transaction is generated, unless the frequency is 0,
\* and submit_transaction starts.  Without miners it is over at once.
Submit(c) ==
  /\ client[c].pc = "idle" /\ c \notin shutdown
  /\ frequency # 0 /\ MapThenSumSet(LAMBDA d : made[d], Clients) < MaxTx
  /\ made' = [made EXCEPT ![c] = @ + 1]
  /\ \E ids \in discover_miners :
       /\ SetClient(c, IF ids = <<>> THEN At("idle")
                       ELSE [pc |-> "connect", ids |-> ids, attempt |-> 0,
                             start |-> next_miner[c] % Len(ids)])
       /\ outcome' = [outcome EXCEPT ![c] = IF ids = <<>> THEN "unavailable" ELSE "none"]
       /\ steady' = [steady EXCEPT ![c] = {m \in Range(ids) : Listening(m)}]
  /\ UNCHANGED <<frequency, next_miner, served, conn, minerVars, shutdown>>

\* position and miner_id in the loop of submit_transaction.
Position(c) == (client[c].start + client[c].attempt) % Len(client[c].ids)
MinerId(c) == client[c].ids[Position(c) + 1]

\* Mutant: the last miner of the list is left out.
SkipLast(c) ==
  /\ IF client[c].attempt + 2 < Len(client[c].ids)
       THEN /\ SetClient(c, [client[c] EXCEPT !.pc = "connect", !.attempt = @ + 1])
            /\ UNCHANGED <<next_miner, outcome, served>>
       ELSE /\ SetClient(c, At("idle"))
            /\ next_miner' = [next_miner EXCEPT ![c] = client[c].start + 1]
            /\ outcome' = [outcome EXCEPT ![c] = "unavailable"]
            /\ served' = [served EXCEPT ![c] = Nobody]
  /\ conn' = [conn EXCEPT ![c] = NoConn]

\* This miner is unavailable: try the next one, or give the transaction up.
NextAttempt(c) ==
  /\ IF client[c].attempt + 1 < Len(client[c].ids)
       THEN /\ SetClient(c, [client[c] EXCEPT !.pc = "connect", !.attempt = @ + 1])
            /\ UNCHANGED <<next_miner, outcome, served>>
       ELSE /\ SetClient(c, At("idle"))
            /\ next_miner' = [next_miner EXCEPT ![c] = client[c].start + 1]
            /\ outcome' = [outcome EXCEPT ![c] = "unavailable"]
            /\ served' = [served EXCEPT ![c] = Nobody]
  /\ conn' = [conn EXCEPT ![c] = NoConn]

\* Mutant: every MSG_TX_ACK counts as OK.
AnyAckIsOK(c) ==
  /\ SetClient(c, At("idle"))
  /\ next_miner' = [next_miner EXCEPT ![c] = Position(c) + 1]
  /\ outcome' = [outcome EXCEPT ![c] = "accepted"]
  /\ served' = [served EXCEPT ![c] =
       [miner |-> MinerId(c), ids |-> client[c].ids]]
  /\ conn' = [conn EXCEPT ![c] = NoConn]

\* Mutant: the round robin goes on from where this submission started.
AnsweredFromStart(c) ==
  /\ SetClient(c, At("idle"))
  /\ next_miner' = [next_miner EXCEPT ![c] = client[c].start + 1]
  /\ outcome' = [outcome EXCEPT ![c] = IF conn[c].answer = "OK" THEN "accepted"
                                                               ELSE "rejected"]
  /\ served' = [served EXCEPT ![c] =
       [miner |-> MinerId(c), ids |-> client[c].ids]]
  /\ conn' = [conn EXCEPT ![c] = NoConn]

\* The miner has answered, with OK or with an error, a full mempool included.
Answered(c) ==
  /\ SetClient(c, At("idle"))
  /\ next_miner' = [next_miner EXCEPT ![c] = Position(c) + 1]
  /\ outcome' = [outcome EXCEPT ![c] = IF conn[c].answer = "OK" THEN "accepted"
                                                               ELSE "rejected"]
  /\ served' = [served EXCEPT ![c] =
       [miner |-> MinerId(c), ids |-> client[c].ids]]
  /\ conn' = [conn EXCEPT ![c] = NoConn]

Blocked(c) ==
  /\ client[c].pc = "connect" /\ Listening(MinerId(c))
  /\ Len(backlog[MinerId(c)]) >= IPC_BACKLOG

\* ipc_connect: refused when nobody listens, and waiting for room otherwise.
Connect(c) ==
  /\ client[c].pc = "connect" /\ ~Blocked(c)
  /\ LET m == MinerId(c)
     IN IF Listening(m)
          THEN /\ backlog' = [backlog EXCEPT ![m] = Append(@, c)]
               /\ SetClient(c, [client[c] EXCEPT !.pc = "write"])
               /\ UNCHANGED <<next_miner, outcome, served, conn>>
          ELSE NextAttempt(c) /\ UNCHANGED backlog
  /\ UNCHANGED <<frequency, made, miner, file, mempool, taken, shutdown, steady>>

\* ipc_send of MSG_TX_SUBMIT.  SIGPIPE ends the client if the miner is gone.
Write(c) ==
  /\ client[c].pc = "write"
  /\ IF conn[c].answer = "eof"
       THEN SetClient(c, At("killed")) /\ UNCHANGED conn
       ELSE /\ SetClient(c, [client[c] EXCEPT !.pc = "await"])
            /\ conn' = [conn EXCEPT ![c].written = TRUE]
  /\ UNCHANGED <<frequency, next_miner, made, outcome, served, minerVars,
                 shutdown, steady>>

\* ipc_recv returns: an answer, or the end of the connection.
Receive(c) ==
  /\ client[c].pc = "await" /\ conn[c].answer # "none"
  /\ IF conn[c].answer = "eof" THEN NextAttempt(c) ELSE Answered(c)
  /\ UNCHANGED <<frequency, made, minerVars, shutdown, steady>>

\* Mutant: a signal ends the wait for the answer.
TerminateWaiting(c) ==
  /\ c \in Stoppable \ shutdown /\ client[c].pc \notin {"done", "killed"}
  /\ shutdown' = shutdown \cup {c}
  /\ IF Blocked(c) \/ client[c].pc = "await"
       THEN NextAttempt(c) ELSE UNCHANGED <<client, next_miner, outcome, served, conn>>
  /\ UNCHANGED <<frequency, made, minerVars, steady>>

\* SIGTERM sets the flag.  It breaks a connect that is blocked, but not the
\* wait for an answer, which read_full resumes.
TerminateClient(c) ==
  /\ c \in Stoppable \ shutdown /\ client[c].pc \notin {"done", "killed"}
  /\ shutdown' = shutdown \cup {c}
  /\ IF Blocked(c) THEN NextAttempt(c)
                   ELSE UNCHANGED <<client, next_miner, outcome, served, conn>>
  /\ UNCHANGED <<frequency, made, minerVars, steady>>

\* Its connection stays in the miner's backlog, with what was written.
KillClient(c) ==
  /\ c \in Killable /\ client[c].pc \notin {"done", "killed"}
  /\ SetClient(c, At("killed"))
  /\ UNCHANGED <<frequency, next_miner, made, outcome, served, conn, minerVars,
                 shutdown, steady>>

-----------------------------------------------------------------------------
(* The communication thread of a miner.                                    *)

\* The loop tests shutting_down and then waits in select.
NextPoll(m) == IF m \in shutdown THEN At("closing") ELSE At("poll")

\* bind, then listen, in ipc_server_create.
Bind(m) ==
  /\ miner[m].pc = "starting"
  /\ SetMiner(m, At("bound"))
  /\ file' = [file EXCEPT ![m] = TRUE]
  /\ UNCHANGED <<frequency, clientVars, conn, backlog, mempool, taken, shutdown, steady>>

Listen(m) ==
  /\ miner[m].pc = "bound"
  /\ SetMiner(m, NextPoll(m))
  /\ UNCHANGED <<frequency, clientVars, conn, file, backlog, mempool, taken,
                 shutdown, steady>>

Accept(m) ==
  /\ miner[m].pc = "poll" /\ backlog[m] # <<>>
  /\ SetMiner(m, [pc |-> "recv", client |-> Head(backlog[m])])
  /\ backlog' = [backlog EXCEPT ![m] = Tail(@)]
  /\ UNCHANGED <<frequency, clientVars, conn, file, mempool, taken, shutdown, steady>>

\* handle_tx_submit up to its answer.  A client that was killed before it
\* wrote is not answered.
HandleTxSubmit(m) ==
  /\ miner[m].pc = "recv"
  /\ LET c == miner[m].client
         tx == <<c, made[c]>>
         room == Cardinality(mempool[m]) < MEMPOOL_CAPACITY
     IN \/ /\ conn[c].written
           /\ SetMiner(m, [pc |-> "reply", client |-> c,
                           answer |-> IF room THEN "OK" ELSE "ERR"])
           /\ mempool' = IF room THEN [mempool EXCEPT ![m] = @ \cup {tx}] ELSE mempool
           /\ taken' = IF room THEN [taken EXCEPT ![m] = @ \cup {tx}] ELSE taken
        \/ /\ ~conn[c].written /\ client[c].pc = "killed"
           /\ SetMiner(m, NextPoll(m))
           /\ UNCHANGED <<mempool, taken>>
  /\ UNCHANGED <<frequency, clientVars, conn, file, backlog, shutdown, steady>>

\* Connections of clients that m has not answered.
Unanswered(m) == Range(backlog[m]) \cup
                 (IF miner[m].pc \in {"recv", "reply"} THEN {miner[m].client} ELSE {})

\* m does not listen any more, and these connections break.
StopsListening(m, broken) ==
  /\ backlog' = [backlog EXCEPT ![m] = <<>>]
  /\ conn' = [c \in Clients |->
       IF c \in broken THEN [conn[c] EXCEPT !.answer = "eof"] ELSE conn[c]]
  /\ steady' = [c \in Clients |-> steady[c] \ {m}]

\* Its transactions die with it; its socket file stays.
Killed(m) ==
  /\ SetMiner(m, At("killed"))
  /\ StopsListening(m, Unanswered(m))
  /\ mempool' = [mempool EXCEPT ![m] = {}]
  /\ taken' = [taken EXCEPT ![m] = {}]

\* Mutant: no answer when the mempool is full, and the connection is kept.
ReplyOnlyOK(m) ==
  /\ miner[m].pc = "reply"
  /\ LET c == miner[m].client
     IN IF client[c].pc = "killed"
          THEN Killed(m)
          ELSE /\ conn' = IF miner[m].answer = "OK"
                            THEN [conn EXCEPT ![c].answer = "OK"] ELSE conn
               /\ SetMiner(m, NextPoll(m))
               /\ UNCHANGED <<backlog, steady, mempool, taken>>
  /\ UNCHANGED <<frequency, clientVars, file, shutdown>>

\* MSG_TX_ACK, and the connection is closed.  SIGPIPE ends the miner if the
\* client is gone.
Reply(m) ==
  /\ miner[m].pc = "reply"
  /\ LET c == miner[m].client
     IN IF client[c].pc = "killed"
          THEN Killed(m)
          ELSE /\ conn' = [conn EXCEPT ![c].answer = miner[m].answer]
               /\ SetMiner(m, NextPoll(m))
               /\ UNCHANGED <<backlog, steady, mempool, taken>>
  /\ UNCHANGED <<frequency, clientVars, file, shutdown>>

\* A commit of node 0 takes transactions out of the pool.
HandleBlockCommit(m) ==
  /\ miner[m].pc = "poll" /\ mempool[m] # {}
  /\ \E included \in SUBSET mempool[m] :
       included # {} /\ mempool' = [mempool EXCEPT ![m] = @ \ included]
  /\ UNCHANGED <<frequency, clientVars, conn, miner, file, backlog, taken, shutdown, steady>>

TerminateMiner(m) ==
  /\ m \in Stoppable \ shutdown /\ miner[m].pc \notin {"closed", "killed"}
  /\ shutdown' = shutdown \cup {m}
  /\ UNCHANGED <<frequency, clientVars, conn, minerVars, steady>>

\* The loop ends: the socket is closed first, its file removed afterwards.
CloseServer(m) ==
  /\ miner[m].pc = "closing" \/ (miner[m].pc = "poll" /\ m \in shutdown)
  /\ SetMiner(m, At("unlink"))
  /\ StopsListening(m, Unanswered(m))
  /\ UNCHANGED <<frequency, clientVars, file, mempool, taken, shutdown>>

Unlink(m) ==
  /\ miner[m].pc = "unlink"
  /\ SetMiner(m, At("closed"))
  /\ file' = [file EXCEPT ![m] = FALSE]
  /\ mempool' = [mempool EXCEPT ![m] = {}]
  /\ UNCHANGED <<frequency, clientVars, conn, backlog, taken, shutdown, steady>>

KillMiner(m) ==
  /\ m \in Killable /\ miner[m].pc \notin {"closed", "killed"}
  /\ Killed(m)
  /\ UNCHANGED <<frequency, clientVars, file, shutdown>>

-----------------------------------------------------------------------------
ClientStep(c) == Leave(c) \/ Submit(c) \/ Connect(c) \/ Write(c) \/ Receive(c)
MinerStep(m) == \/ Bind(m) \/ Listen(m) \/ Accept(m) \/ HandleTxSubmit(m) \/ Reply(m)
                \/ CloseServer(m) \/ Unlink(m)

Next ==
  \/ \E c \in Clients : ClientStep(c) \/ TerminateClient(c) \/ KillClient(c)
  \/ \E m \in Miners : \/ MinerStep(m) \/ HandleBlockCommit(m)
                       \/ TerminateMiner(m) \/ KillMiner(m)

\* Processes that can run do.  Nothing has to be killed, stopped or mined.
Fairness == /\ \A c \in Clients : WF_vars(ClientStep(c))
            /\ \A m \in Miners : WF_vars(MinerStep(m))

Spec == Init /\ [][Next]_vars /\ Fairness

-----------------------------------------------------------------------------
(* Properties.                                                             *)

\* Retries do not submit a transaction twice: at most one miner that was not
\* killed has taken it.  A miner that terminates answers the connection it
\* has accepted before it closes the socket.
AcceptedOnce ==
  \A tx \in Tx : Cardinality({m \in Miners : tx \in taken[m]}) <= 1

\* What the client logs is so: unless a miner was killed, an accepted
\* transaction is with one, and a transaction that is reported as rejected or
\* not sent is with none, terminated miners included.
OutcomeIsTrue ==
  \A c \in Clients : client[c].pc \in {"idle", "done"} =>
    LET Holders == {m \in Miners : <<c, made[c]>> \in taken[m]}
    IN /\ outcome[c] = "accepted" => \E m \in Miners : m \in Holders \/ miner[m].pc = "killed"
       /\ outcome[c] \in {"rejected", "unavailable"} => Holders = {}

\* submit_transaction reports that no miner is available only if none of
\* those it discovered listened all the time, whichever of the others crash
\* or close meanwhile; a termination signal may cut the search short.
RemainingMinersServe ==
  \A c \in Clients :
    client[c].pc = "idle" /\ outcome[c] = "unavailable" /\ c \notin shutdown =>
      steady[c] = {}

\* The round robin: the miner that answered last is the last one tried, as
\* long as the list of socket files is the same and no submission failed at
\* all of them.
RoundRobin ==
  \A c \in Clients :
    /\ client[c].pc = "connect"
    /\ served[c] = [miner |-> MinerId(c), ids |-> client[c].ids]
    => client[c].attempt = Len(client[c].ids) - 1

\* A submission comes back to the main loop, whichever miners crash, close or
\* are full.  It does not if the client is killed: from outside, or, which is
\* the one way that a miner can take a client with it, by SIGPIPE when it
\* writes to a miner that closed the connection before it read anything.
SubmissionEnds ==
  \A c \in Clients :
    client[c].pc = "connect" ~>
      \/ client[c].pc = "idle"
      \/ /\ client[c].pc = "killed"
         /\ c \in Killable \/ (conn[c].answer = "eof" /\ ~conn[c].written)

\* A terminated client ends, wherever the signal reached it.
TerminationEndsClient ==
  \A c \in Clients : c \in shutdown ~> client[c].pc \in {"done", "killed"}

-----------------------------------------------------------------------------
(* The inductive invariant behind the safety properties.                   *)

Submitting(c) == client[c].pc \in {"connect", "write", "await"}

ClientState ==
  [pc : {"idle", "done", "killed"}] \cup
  [pc : {"connect", "write", "await"}, ids : Seq(Miners), attempt : Nat, start : Nat]

MinerState ==
  [pc : {"starting", "bound", "poll", "closing", "unlink", "closed", "killed"}] \cup
  [pc : {"recv"}, client : Clients] \cup
  [pc : {"reply"}, client : Clients, answer : {"OK", "ERR"}]

TypeOK ==
  /\ client \in [Clients -> ClientState]
  /\ next_miner \in [Clients -> Nat] /\ made \in [Clients -> Nat]
  /\ conn \in [Clients -> [written : BOOLEAN, answer : {"none", "eof", "OK", "ERR"}]]
  /\ miner \in [Miners -> MinerState]
  /\ backlog \in [Miners -> Seq(Clients)]
  /\ taken \in [Miners -> SUBSET (Clients \X Nat)]
  /\ outcome \in [Clients -> {"none", "accepted", "rejected", "unavailable"}]
  /\ steady \in [Clients -> SUBSET Miners]
  /\ served \in [Clients -> [miner : Nat, ids : Seq(Miners)]]

\* A connection is in one place at most: once in one backlog, or with the
\* thread that accepted it.
OnePlace ==
  \A m \in Miners :
    /\ \A i, j \in 1..Len(backlog[m]) : backlog[m][i] = backlog[m][j] => i = j
    /\ miner[m].pc \in {"recv", "reply"} => miner[m].client \notin Range(backlog[m])

\* A connection that m has yet to answer belongs to a client which waits for
\* m, or waited for it when it was killed, and is open; m answers only what
\* was written.
WaitsForMiner(c) ==
  \A m \in Miners : c \in Unanswered(m) =>
    /\ client[c].pc \in {"write", "await", "killed"} /\ conn[c].answer = "none"
    /\ client[c].pc # "killed" => m = MinerId(c)
    /\ miner[m].pc = "reply" /\ miner[m].client = c => conn[c].written
    /\ \A n \in Miners : c \in Unanswered(n) => n = m

\* What a client knows of its connection.
ConnectionOf(c) ==
  /\ client[c].pc \in {"idle", "connect", "done"} => conn[c] = NoConn
  /\ client[c].pc = "write" => ~conn[c].written /\ conn[c].answer \in {"none", "eof"}
  /\ Submitting(c) /\ conn[c].answer = "eof" => MinerId(c) \notin steady[c]

\* No transaction of c is with two miners.  Its current one is with a miner
\* only if that miner is about to say so, or has said so.
TakenOf(c) ==
  /\ \A m \in Miners : \A tx \in taken[m] : tx[1] = c =>
       /\ tx[2] <= made[c]
       /\ \A n \in Miners : tx \in taken[n] => n = m
  /\ \A m \in Miners : <<c, made[c]>> \in taken[m] =>
       \/ miner[m] = [pc |-> "reply", client |-> c, answer |-> "OK"]
       \/ /\ \A n \in Miners : c \notin Unanswered(n)
          /\ \/ client[c].pc = "killed"
             \/ client[c].pc = "await" /\ conn[c].answer = "OK"
             \/ client[c].pc \in {"idle", "done"} /\ outcome[c] = "accepted"
  /\ \A m \in Miners : miner[m] = [pc |-> "reply", client |-> c, answer |-> "OK"] =>
       <<c, made[c]>> \in taken[m]
  /\ \/ client[c].pc = "await" /\ conn[c].answer = "OK"
     \/ client[c].pc \in {"idle", "done"} /\ outcome[c] = "accepted"
     => \E m \in Miners : <<c, made[c]>> \in taken[m] \/ miner[m].pc = "killed"

\* The list a client works through, and where it is in it.  The miners it
\* has tried have not listened all the time.
SearchOf(c) ==
  /\ \A m \in steady[c] : Listening(m)
  /\ client[c].pc = "idle" /\ outcome[c] = "unavailable" /\ c \notin shutdown =>
       steady[c] = {}
  /\ Submitting(c) =>
       /\ client[c].start < Len(client[c].ids) /\ client[c].attempt < Len(client[c].ids)
       /\ \A i, j \in 1..Len(client[c].ids) :
            i < j => client[c].ids[i] < client[c].ids[j]
       /\ steady[c] \subseteq Range(client[c].ids)
       /\ c \notin shutdown => \A k \in 0..(client[c].attempt - 1) :
            client[c].ids[((client[c].start + k) % Len(client[c].ids)) + 1] \notin steady[c]

\* next_miner points behind the miner that answered last.
RobinOf(c) ==
  /\ served[c].ids # <<>> => \E p \in 0..(Len(served[c].ids) - 1) :
       next_miner[c] = p + 1 /\ served[c].miner = served[c].ids[p + 1]
  /\ Submitting(c) => client[c].start = next_miner[c] % Len(client[c].ids)

ClientInv(c) ==
  WaitsForMiner(c) /\ ConnectionOf(c) /\ TakenOf(c) /\ SearchOf(c) /\ RobinOf(c)

IInv == TypeOK /\ OnePlace /\ \A c \in Clients : ClientInv(c)
=============================================================================
