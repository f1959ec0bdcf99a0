----------------------------- MODULE Bootstrap -----------------------------
(***************************************************************************)
(* The bootstrap process of bootstrap/bootstrap.c with the process table   *)
(* of common/process_info.c: it starts the children, runs the commands     *)
(* that are typed, notices children that have ended, and shuts the system  *)
(* down.                                                                   *)
(*                                                                         *)
(* Signals are where it is delicate.  SIGCHLD, SIGINT and SIGTERM          *)
(* interrupt a fgets that is blocked, and the last waitpid of the shutdown *)
(* while it waits for somebody.  They do not interrupt the code between    *)
(* two calls of fgets, the wait for an answer, which read_full resumes, or *)
(* the wait of shutdown_all, which only sleeps less.                       *)
(*                                                                         *)
(* SIGCHLD comes with every change of a child's state, stops included,     *)
(* since the handler is installed without SA_NOCLDSTOP.                    *)
(*                                                                         *)
(* Of a child the module keeps the state of its process.  A child that is  *)
(* asked something answers while it runs; one that has been sent SIGTERM   *)
(* may end, or never get to it.                                            *)
(***************************************************************************)
EXTENDS Naturals, FiniteSets

CONSTANTS
  C,                       \* bound: children that are asked for
  Servers,                 \* those that listen to commands: nodes and miners
  MAX_TRACKED_PROCESSES,   \* size of the process table
  Commands,                \* commands that are typed
  Crashable,               \* children that may be killed from outside
  MaxCommands              \* bound: commands in a behaviour

Children == 0..(C - 1)

ASSUME ChildrenAssumption == C \in Nat /\ Servers \subseteq Children
ASSUME TableAssumption == MAX_TRACKED_PROCESSES \in Nat
ASSUME CommandAssumption ==
  /\ Commands \subseteq {"ask", "pause", "resume", "status", "stop"}
  /\ Crashable \subseteq Children /\ MaxCommands \in Nat

VARIABLES
  boot,                  \* where the bootstrap is
  asked,                 \* the child whose answer it waits for
  wanted,                \* children asked for: nodes, then miners, then clients
  spawned,               \* children started so far
  process,               \* process[c]: what the kernel knows of child c
  entry,                 \* entry[c]: the state in c's table entry
  terminating,           \* terminating[c]: SIGTERM was sent to c
  sigchld,               \* a SIGCHLD for a stop or a continuation is pending
  shutdown_requested,    \* g_shutdown_requested
  typed                  \* commands typed so far

vars == <<boot, asked, wanted, spawned, process, entry, terminating, sigchld,
          shutdown_requested, typed>>

BootPc == {"spawn", "loop", "prompt", "fgets", "write", "await",
           "terminate", "wait", "drain", "done", "interrupted", "killed"}

\* A child that has been sent SIGKILL is dying until the kernel is through.
ProcessState == {"none", "running", "stopped", "dying", "zombie", "reaped"}

TypeOK ==
  /\ boot \in BootPc /\ asked \in Children
  /\ wanted \in 1..C /\ spawned \in 0..wanted
  /\ process \in [Children -> ProcessState]
  /\ entry \in [Children -> {"untracked", "RUNNING", "PAUSED", "TERMINATED"}]
  /\ terminating \in [Children -> BOOLEAN] /\ sigchld \in BOOLEAN
  /\ shutdown_requested \in BOOLEAN
  /\ typed \in 0..MaxCommands

Init ==
  /\ boot = "spawn" /\ asked = 0
  /\ wanted \in 1..C /\ spawned = 0
  /\ process = [c \in Children |-> "none"]
  /\ entry = [c \in Children |-> "untracked"]
  /\ terminating = [c \in Children |-> FALSE] /\ sigchld = FALSE
  /\ shutdown_requested = FALSE
  /\ typed = 0

Tracked == {c \in Children : entry[c] # "untracked"}
Live == {c \in Children : process[c] \in {"running", "stopped"}}
Dying == {c \in Children : process[c] = "dying"}

\* The test of process_table_add.
TableHasRoom == Cardinality(Tracked) < MAX_TRACKED_PROCESSES

-----------------------------------------------------------------------------
(* Starting the children.                                                  *)

\* Mutant: one child too many.
SpawnOneMore ==
  /\ boot = "spawn" /\ spawned <= wanted
  /\ process' = [c \in Children |-> IF c = spawned THEN "running" ELSE process[c]]
  /\ entry' = [c \in Children |-> IF c = spawned THEN "RUNNING" ELSE entry[c]]
  /\ spawned' = spawned + 1
  /\ UNCHANGED <<wanted, boot, asked, terminating, sigchld, shutdown_requested, typed>>

\* fork, exec and process_table_add.  A child the table has no room for
\* runs, untracked, and ends the start.
Spawn ==
  /\ boot = "spawn" /\ spawned < wanted
  /\ process' = [process EXCEPT ![spawned] = "running"]
  /\ IF TableHasRoom
       THEN /\ entry' = [entry EXCEPT ![spawned] = "RUNNING"]
            /\ UNCHANGED boot
       ELSE /\ boot' = "terminate"
            /\ UNCHANGED entry
  /\ spawned' = spawned + 1
  /\ UNCHANGED <<wanted, asked, terminating, sigchld, shutdown_requested, typed>>

\* fork fails, or every child has been started.
SpawnEnds ==
  /\ boot = "spawn"
  /\ \/ spawned < wanted /\ boot' = "terminate"
     \/ spawned = wanted /\ boot' = "loop"
  /\ UNCHANGED <<wanted, asked, spawned, process, entry, terminating, sigchld,
                 shutdown_requested, typed>>

-----------------------------------------------------------------------------
(* The main loop.                                                          *)

\* Mutant: waitpid is called once, and not until it finds nobody.
ReapOne ==
  LET First(c) == process[c] = "zombie" /\ \A d \in 0..(c - 1) : process[d] # "zombie"
  IN /\ process' = [c \in Children |-> IF First(c) THEN "reaped" ELSE process[c]]
     /\ entry' = [c \in Children |-> IF First(c) /\ c \in Tracked THEN "TERMINATED"
                                                                 ELSE entry[c]]

\* reap_terminated_children.
Reap ==
  /\ process' = [c \in Children |-> IF process[c] = "zombie" THEN "reaped"
                                                             ELSE process[c]]
  /\ entry' = [c \in Children |-> IF process[c] = "zombie" /\ c \in Tracked
                                    THEN "TERMINATED" ELSE entry[c]]

\* Reap, then test the flag the termination handler sets.
LoopTop ==
  /\ boot = "loop"
  /\ Reap
  /\ boot' = IF shutdown_requested THEN "terminate" ELSE "prompt"
  /\ UNCHANGED <<wanted, asked, spawned, terminating, sigchld, shutdown_requested, typed>>

\* Print the prompt and block in fgets.
Prompt ==
  /\ boot = "prompt"
  /\ boot' = "fgets"
  /\ UNCHANGED <<wanted, asked, spawned, process, entry, terminating, sigchld,
                 shutdown_requested, typed>>

Type(command) ==
  /\ boot = "fgets" /\ command \in Commands
  /\ typed < MaxCommands /\ typed' = typed + 1

\* pause_all: kill succeeds on a child that has ended but is not yet reaped.
PauseAll ==
  /\ Type("pause")
  /\ process' = [c \in Children |-> IF entry[c] = "RUNNING" /\ process[c] = "running"
                                      THEN "stopped" ELSE process[c]]
  /\ entry' = [c \in Children |-> IF entry[c] = "RUNNING" THEN "PAUSED" ELSE entry[c]]
  /\ sigchld' = (sigchld \/ process' # process)
  /\ boot' = "loop"
  /\ UNCHANGED <<wanted, asked, spawned, terminating, shutdown_requested>>

\* Mutant: a paused child is marked RUNNING and not continued.
ResumeWithoutSignal ==
  /\ Type("resume")
  /\ entry' = [c \in Children |-> IF entry[c] = "PAUSED" THEN "RUNNING" ELSE entry[c]]
  /\ boot' = "loop"
  /\ UNCHANGED <<wanted, asked, spawned, process, terminating, sigchld, shutdown_requested>>

ResumeAll ==
  /\ Type("resume")
  /\ process' = [c \in Children |-> IF entry[c] = "PAUSED" /\ process[c] = "stopped"
                                      THEN "running" ELSE process[c]]
  /\ entry' = [c \in Children |-> IF entry[c] = "PAUSED" THEN "RUNNING" ELSE entry[c]]
  /\ sigchld' = (sigchld \/ process' # process)
  /\ boot' = "loop"
  /\ UNCHANGED <<wanted, asked, spawned, terminating, shutdown_requested>>

\* submit, request blockchain, request block, save blockchain: connect to a
\* miner or to node 0.  The kernel accepts for a child that is stopped; a
\* child that does not listen, yet or any more, is reported.
Ask ==
  /\ Type("ask")
  /\ \E c \in Servers : \/ c \in Live /\ asked' = c /\ boot' = "write"
                        \/ boot' = "loop" /\ UNCHANGED asked
  /\ UNCHANGED <<wanted, spawned, process, entry, terminating, sigchld, shutdown_requested>>

AskWrite ==
  /\ boot = "write"
  /\ boot' = "await"
  /\ UNCHANGED <<wanted, asked, spawned, process, entry, terminating, sigchld,
                 shutdown_requested, typed>>

\* The answer comes, or the connection breaks with the child.
Answer ==
  /\ boot = "await" /\ process[asked] # "stopped"
  /\ boot' = "loop"
  /\ UNCHANGED <<wanted, asked, spawned, process, entry, terminating, sigchld,
                 shutdown_requested, typed>>

\* status and lines that are no command.
Status ==
  /\ Type("status")
  /\ boot' = "loop"
  /\ UNCHANGED <<wanted, asked, spawned, process, entry, terminating, sigchld, shutdown_requested>>

\* stop, or the end of the input.
Stop ==
  /\ Type("stop")
  /\ boot' = "terminate"
  /\ UNCHANGED <<wanted, asked, spawned, process, entry, terminating, sigchld, shutdown_requested>>

-----------------------------------------------------------------------------
(* shutdown_all.                                                           *)

\* SIGTERM to every child that is tracked and not known to have ended, and
\* SIGCONT before it to those that are paused.
Terminate ==
  /\ boot = "terminate"
  /\ terminating' = [c \in Children |-> entry[c] \in {"RUNNING", "PAUSED"}]
  /\ process' = [c \in Children |-> IF entry[c] = "PAUSED" /\ process[c] = "stopped"
                                      THEN "running" ELSE process[c]]
  /\ sigchld' = (sigchld \/ process' # process)
  /\ boot' = "wait"
  /\ UNCHANGED <<wanted, asked, spawned, entry, shutdown_requested, typed>>

\* One round of the wait, and what follows it when nobody is left.
Wait ==
  /\ boot = "wait"
  /\ Reap
  /\ boot' = IF \A c \in Tracked : entry'[c] = "TERMINATED" THEN "done" ELSE "wait"
  /\ UNCHANGED <<wanted, asked, spawned, terminating, sigchld, shutdown_requested, typed>>

\* Mutant: the bootstrap gives up at the deadline.
GiveUp ==
  /\ boot = "wait"
  /\ Reap
  /\ boot' = "done"
  /\ UNCHANGED <<wanted, asked, spawned, terminating, sigchld, shutdown_requested, typed>>

\* Mutant: only children marked RUNNING get SIGKILL.
KillOnlyRunning ==
  /\ boot = "wait"
  /\ \E c \in Tracked : entry[c] # "TERMINATED" /\ process[c] # "zombie"
  /\ process' = [c \in Children |-> IF c \in Live /\ entry[c] = "RUNNING"
                                      THEN "dying" ELSE process[c]]
  /\ boot' = "drain"
  /\ UNCHANGED <<wanted, asked, spawned, entry, terminating, sigchld, shutdown_requested, typed>>

\* The deadline passes with somebody left: SIGKILL.
WaitTimesOut ==
  /\ boot = "wait"
  /\ \E c \in Tracked : entry[c] # "TERMINATED" /\ process[c] # "zombie"
  /\ process' = [c \in Children |->
       CASE process[c] = "zombie" -> "reaped"
         [] c \in Live /\ c \in Tracked -> "dying"
         [] OTHER -> process[c]]
  /\ entry' = [c \in Children |-> IF process[c] = "zombie" /\ c \in Tracked
                                    THEN "TERMINATED" ELSE entry[c]]
  /\ boot' = "drain"
  /\ UNCHANGED <<wanted, asked, spawned, terminating, sigchld, shutdown_requested, typed>>

\* The end of the loop around the last waitpid: what has ended is reaped, and
\* every entry is marked.
LeaveDrain ==
  /\ boot = "drain"
  /\ process' = [c \in Children |-> IF process[c] = "zombie" THEN "reaped"
                                                             ELSE process[c]]
  /\ entry' = [c \in Children |-> IF c \in Tracked THEN "TERMINATED" ELSE entry[c]]

\* waitpid finds no child any more, tracked or not.
Drain ==
  /\ LeaveDrain /\ Live \cup Dying = {}
  /\ boot' = "done"
  /\ UNCHANGED <<wanted, asked, spawned, terminating, sigchld, shutdown_requested, typed>>

-----------------------------------------------------------------------------
(* The children and the signals.                                           *)

\* A signal is handled.  It breaks a fgets that is blocked; waitpid returns
\* with EINTR if it blocks, and shutdown_all does not call it again.
Interrupt ==
  \/ /\ boot' = IF boot = "fgets" THEN "loop" ELSE boot
     /\ UNCHANGED <<process, entry>>
  \/ /\ LeaveDrain /\ Live \cup Dying # {}
     /\ boot' = "interrupted"

\* SIGCHLD breaks a fgets that is blocked; a waitpid that blocks finds the
\* child first.  The end of a child to which the bootstrap has connected and
\* not yet written may kill the bootstrap.
Ended(c) ==
  /\ process' = [process EXCEPT ![c] = "zombie"]
  /\ \/ boot' = IF boot = "fgets" THEN "loop" ELSE boot
     \/ boot = "write" /\ asked = c /\ boot' = "killed"
  /\ UNCHANGED <<wanted, asked, spawned, entry, terminating, sigchld, shutdown_requested, typed>>

\* SIGCHLD for children that were stopped or continued.
StopNoticed ==
  /\ sigchld /\ sigchld' = FALSE
  /\ Interrupt
  /\ UNCHANGED <<wanted, asked, spawned, terminating, shutdown_requested, typed>>

\* The kernel has done with SIGKILL.
Dies(c) == process[c] = "dying" /\ Ended(c)

\* A child acts on SIGTERM.
ChildEnds(c) == terminating[c] /\ process[c] = "running" /\ Ended(c)

\* A child fails, or is killed by somebody else.
ChildCrashes(c) == c \in Crashable /\ c \in Live /\ Ended(c)

\* SIGINT or SIGTERM to the bootstrap, the first one or another.
SignalBootstrap ==
  /\ boot \notin {"done", "interrupted", "killed"}
  /\ shutdown_requested' = TRUE
  /\ Interrupt
  /\ UNCHANGED <<wanted, asked, spawned, terminating, sigchld, typed>>

-----------------------------------------------------------------------------
Command == PauseAll \/ ResumeAll \/ Ask \/ Status \/ Stop
BootStep == \/ Spawn \/ SpawnEnds \/ LoopTop \/ Prompt \/ AskWrite \/ Answer
            \/ Terminate \/ Wait \/ Drain

Next ==
  \/ BootStep \/ Command \/ WaitTimesOut \/ StopNoticed \/ SignalBootstrap
  \/ \E c \in Children : ChildEnds(c) \/ ChildCrashes(c) \/ Dies(c)

Spec == Init /\ [][Next]_vars

\* The bootstrap runs, its deadline passes, and SIGKILL kills.  No child has
\* to end when it is asked to, nobody has to type or to send a signal.
FairSpec ==
  /\ Spec /\ WF_vars(BootStep) /\ WF_vars(WaitTimesOut)
  /\ \A c \in Children : WF_vars(Dies(c))

-----------------------------------------------------------------------------
(* Properties.                                                             *)

\* The table tells the truth about every process it tracks, up to a death it
\* has yet to notice: no entry outlives its process, whose pid the kernel may
\* give to somebody else and which shutdown_all would signal; and PAUSED
\* means stopped, until the shutdown continues everybody.  Only a signal in
\* the last waitpid marks entries of processes that are not reaped.
TableMatchesProcesses ==
  \A c \in Tracked :
    /\ boot # "interrupted" => (entry[c] = "TERMINATED" <=> process[c] = "reaped")
    /\ boot \in {"spawn", "loop", "prompt", "fgets", "write", "await", "terminate"} =>
         (process[c] = "stopped" => entry[c] = "PAUSED") /\
         (process[c] = "running" => entry[c] = "RUNNING")

\* A bootstrap that has shut down leaves no process of its table behind, be
\* it stopped, stuck or already dead.  If a signal cuts the last waitpid
\* short, a process may be left that has been sent SIGKILL, and no other.
NoTrackedOrphan ==
  \A c \in Tracked :
    /\ boot = "done" => process[c] = "reaped" /\ entry[c] = "TERMINATED"
    /\ boot = "interrupted" => process[c] \in {"dying", "zombie", "reaped"}

\* A shutdown that has begun comes to its end, and every process of the table
\* with it, even if children are paused or do not react to SIGTERM and
\* whatever signals come, as long as the table had room for all.
ShutdownCompletes ==
  boot = "terminate" /\ Live \subseteq Tracked ~>
    boot \in {"done", "interrupted"} /\ Live \cup Dying = {}

\* The bootstrap does not hang on a command: it reads the next line again.
CommandReturns == boot = "await" ~> boot # "await"

\* A signal that comes between the test at the top of the loop and fgets is
\* late, not lost: a child that has died is taken for alive by at most one
\* more command, and after SIGTERM or SIGINT at most one more is taken.
SignalCostsOneCommand ==
  \A n \in 0..MaxCommands :
    /\ [](shutdown_requested /\ typed = n => [](typed <= n + 1))
    /\ \A c \in Children :
         [](process[c] = "zombie" /\ typed = n =>
              [](typed > n + 1 => process[c] # "zombie"))

-----------------------------------------------------------------------------
\* The inductive invariant behind the properties of the table: what is
\* tracked was started, what was started is among the first children, and the
\* last waitpid is called when nobody of the table can live on.
IInv ==
  /\ TypeOK
  /\ \A c \in Children : process[c] # "none" => c < spawned
  /\ \A c \in Tracked : process[c] # "none"
  /\ boot = "drain" => \A c \in Tracked : process[c] \in {"dying", "zombie", "reaped"}
  /\ TableMatchesProcesses
  /\ NoTrackedOrphan
=============================================================================
