-------------------------- MODULE BootstrapProofs --------------------------
(***************************************************************************)
(* Proofs about Bootstrap, for any number of children and commands and any *)
(* size of the process table.                                              *)
(*                                                                         *)
(* The table's properties follow from IInv.  What a late signal costs is   *)
(* proved for one fixed moment, the n-th command, by an invariant of all   *)
(* that can follow it, and then for every moment.                          *)
(***************************************************************************)
EXTENDS Bootstrap, TLAPS

\* Every part of IInv speaks of one child at a time.
ChildOK(c) ==
  /\ process[c] # "none" => c < spawned
  /\ entry[c] # "untracked" =>
       /\ process[c] # "none"
       /\ boot # "interrupted" => (entry[c] = "TERMINATED" <=> process[c] = "reaped")
       /\ boot \in {"spawn", "loop", "prompt", "fgets", "write", "await", "terminate"} =>
            (process[c] = "stopped" => entry[c] = "PAUSED") /\
            (process[c] = "running" => entry[c] = "RUNNING")
       /\ boot \in {"drain", "interrupted"} =>
            process[c] \in {"dying", "zombie", "reaped"}
       /\ boot = "done" => process[c] = "reaped" /\ entry[c] = "TERMINATED"

LEMMA ChildByChild == IInv <=> TypeOK /\ \A c \in Children : ChildOK(c)
  BY DEF IInv, ChildOK, TableMatchesProcesses, NoTrackedOrphan, Tracked

\* Initially nothing has been started.
LEMMA InitOK == Init => IInv
<1> SUFFICES ASSUME Init PROVE IInv
  OBVIOUS
<1>1. TypeOK
  <2>1. asked \in Children /\ spawned \in 0..wanted
    BY ChildrenAssumption DEF Init, Children
  <2>2. typed \in 0..MaxCommands
    BY CommandAssumption DEF Init
  <2> QED
    BY <2>1, <2>2 DEF Init, TypeOK, BootPc, ProcessState
<1>2. \A c \in Children : ChildOK(c)
  BY DEF Init, ChildOK
<1> QED
  BY <1>1, <1>2, ChildByChild

LEMMA TypeStep == TypeOK /\ [Next]_vars => TypeOK'
<1> SUFFICES ASSUME TypeOK, [Next]_vars PROVE TypeOK'
  OBVIOUS
<1> USE ChildrenAssumption, CommandAssumption
<1> USE DEF TypeOK, BootPc, ProcessState
<1>1. CASE Spawn
  <2>1. spawned \in Children /\ spawned + 1 \in 0..wanted
    BY <1>1 DEF Spawn, Children
  <2>2. process' \in [Children -> ProcessState]
    BY <1>1, <2>1 DEF Spawn
  <2>3. entry' \in [Children -> {"untracked", "RUNNING", "PAUSED", "TERMINATED"}]
    BY <1>1, <2>1 DEF Spawn
  <2> QED
    BY <1>1, <2>1, <2>2, <2>3 DEF Spawn
<1>2. CASE SpawnEnds
  BY <1>2 DEF SpawnEnds
<1>3. CASE LoopTop
  BY <1>3 DEF LoopTop, Reap
<1>4. CASE Prompt
  BY <1>4 DEF Prompt
<1>5. CASE PauseAll
  BY <1>5 DEF PauseAll, Type
<1>6. CASE ResumeAll
  BY <1>6 DEF ResumeAll, Type
<1>7. CASE Ask
  BY <1>7 DEF Ask, Type
<1>8. CASE AskWrite
  BY <1>8 DEF AskWrite
<1>9. CASE Answer
  BY <1>9 DEF Answer
<1>10. CASE Status
  BY <1>10 DEF Status, Type
<1>11. CASE Stop
  BY <1>11 DEF Stop, Type
<1>12. CASE Terminate
  BY <1>12 DEF Terminate
<1>13. CASE Wait
  BY <1>13 DEF Wait, Reap
<1>14. CASE WaitTimesOut
  BY <1>14 DEF WaitTimesOut
<1>15. CASE Drain
  BY <1>15 DEF Drain, LeaveDrain
<1>16. CASE StopNoticed
  BY <1>16 DEF StopNoticed, Interrupt, LeaveDrain
<1>17. CASE SignalBootstrap
  BY <1>17 DEF SignalBootstrap, Interrupt, LeaveDrain
<1>18. ASSUME NEW c \in Children, ChildEnds(c) \/ ChildCrashes(c) \/ Dies(c) PROVE TypeOK'
  BY <1>18 DEF ChildEnds, ChildCrashes, Dies, Ended
<1>19. CASE UNCHANGED vars
  BY <1>19 DEF vars
<1> QED
  BY <1>1, <1>2, <1>3, <1>4, <1>5, <1>6, <1>7, <1>8, <1>9, <1>10, <1>11, <1>12, <1>13,
     <1>14, <1>15, <1>16, <1>17, <1>18, <1>19 DEF Next, BootStep, Command

\* Where the bootstrap can go and what can change of a child in one step.
LEMMA ChildStep ==
  ASSUME TypeOK, [Next]_vars, NEW c \in Children, ChildOK(c)
  PROVE  ChildOK(c)'
<1> USE DEF TypeOK, BootPc, ProcessState, ChildOK
<1>1. CASE Spawn
  <2>1. spawned \in Children /\ spawned' = spawned + 1
    BY <1>1, ChildrenAssumption DEF Spawn, Children
  <2>2. CASE c = spawned
    <3>1. process[c] = "none"
      BY <2>1, <2>2
    <3>2. entry[c] = "untracked"
      BY <3>1
    <3> QED
      BY <1>1, <2>1, <2>2, <3>1, <3>2 DEF Spawn
  <2>3. CASE c # spawned
    <3>1. process'[c] = process[c] /\ entry'[c] = entry[c]
      BY <1>1, <2>1, <2>3 DEF Spawn
    <3>2. c < spawned => c < spawned'
      BY <2>1 DEF Children
    <3> QED
      BY <1>1, <3>1, <3>2 DEF Spawn
  <2> QED
    BY <2>2, <2>3
<1>2. CASE SpawnEnds
  BY <1>2 DEF SpawnEnds
<1>3. CASE LoopTop
  BY <1>3 DEF LoopTop, Reap, Tracked
<1>4. CASE Prompt
  BY <1>4 DEF Prompt
<1>5. CASE PauseAll
  BY <1>5 DEF PauseAll, Type
<1>6. CASE ResumeAll
  BY <1>6 DEF ResumeAll, Type
<1>7. CASE Ask
  BY <1>7 DEF Ask, Type
<1>8. CASE AskWrite
  BY <1>8 DEF AskWrite
<1>9. CASE Answer
  BY <1>9 DEF Answer
<1>10. CASE Status
  BY <1>10 DEF Status, Type
<1>11. CASE Stop
  BY <1>11 DEF Stop, Type
<1>12. CASE Terminate
  BY <1>12 DEF Terminate
<1>13. CASE Wait
  BY <1>13 DEF Wait, Reap, Tracked
<1>14. CASE WaitTimesOut
  BY <1>14 DEF WaitTimesOut, Tracked, Live
<1>15. CASE Drain
  BY <1>15 DEF Drain, LeaveDrain, Tracked, Live, Dying
<1>16. CASE StopNoticed
  BY <1>16 DEF StopNoticed, Interrupt, LeaveDrain, Tracked
<1>17. CASE SignalBootstrap
  BY <1>17 DEF SignalBootstrap, Interrupt, LeaveDrain, Tracked
<1>18. ASSUME NEW d \in Children, ChildEnds(d) \/ ChildCrashes(d) \/ Dies(d)
       PROVE  ChildOK(c)'
  BY <1>18 DEF ChildEnds, ChildCrashes, Dies, Ended, Live
<1>19. CASE UNCHANGED vars
  BY <1>19 DEF vars
<1> QED
  BY <1>1, <1>2, <1>3, <1>4, <1>5, <1>6, <1>7, <1>8, <1>9, <1>10, <1>11, <1>12, <1>13,
     <1>14, <1>15, <1>16, <1>17, <1>18, <1>19 DEF Next, BootStep, Command

LEMMA Inductive == IInv /\ [Next]_vars => IInv'
<1> SUFFICES ASSUME IInv, [Next]_vars PROVE IInv'
  OBVIOUS
<1>1. TypeOK /\ \A c \in Children : ChildOK(c)
  BY ChildByChild
<1>2. TypeOK'
  BY <1>1, TypeStep
<1>3. \A c \in Children : ChildOK(c)'
  BY <1>1, ChildStep
<1>4. Children' = Children
  BY DEF Children
<1> QED
  BY <1>2, <1>3, <1>4 DEF IInv, ChildOK, TableMatchesProcesses, NoTrackedOrphan, Tracked

\* The inductive invariant holds in every state of the bootstrap.
THEOREM Invariance == Spec => []IInv
  BY InitOK, Inductive, PTL DEF Spec
\* Every variable of the bootstrap keeps to its type, at any number of
\* children and any size of the table.
THEOREM TypeCorrect == Spec => []TypeOK
<1>1. IInv => TypeOK
  BY DEF IInv
<1> QED
  BY <1>1, Invariance, PTL

\* No entry of the process table outlives its process or is ahead of it,
\* whatever order deaths, stops, commands and the shutdown come in.
THEOREM TableIsTrue == Spec => []TableMatchesProcesses
<1>1. IInv => TableMatchesProcesses
  BY DEF IInv
<1> QED
  BY <1>1, Invariance, PTL

\* shutdown_all returns only when every process of the table is reaped, or,
\* if a signal ends its last waitpid, has at least been sent SIGKILL.
THEOREM ShutdownIsClean == Spec => []NoTrackedOrphan
<1>1. IInv => NoTrackedOrphan
  BY DEF IInv
<1> QED
  BY <1>1, Invariance, PTL

-----------------------------------------------------------------------------
(* What a late signal costs.                                               *)

\* Since the n-th command, at most one more has been taken, and if one has,
\* the bootstrap passes the top of its loop before it reads again.
AtMostOneMore(n) ==
  \/ typed = n
  \/ typed = n + 1 /\ boot \notin {"prompt", "fgets"}

\* What holds ever after a termination signal that found n commands taken.
AfterSignal(n) == shutdown_requested /\ AtMostOneMore(n)

\* What holds ever after a death that found n commands taken.
AfterDeath(n, c) ==
  \/ process[c] = "reaped"
  \/ process[c] = "zombie" /\ AtMostOneMore(n)

\* A command is read at fgets alone, and the way there leads past the top of
\* the loop.
LEMMA OneMoreStep ==
  ASSUME TypeOK, [Next]_vars, NEW n \in 0..MaxCommands, AtMostOneMore(n), ~LoopTop
  PROVE  AtMostOneMore(n)'
<1> USE CommandAssumption
<1>1. CASE PauseAll \/ ResumeAll \/ Ask \/ Status \/ Stop
  <2>1. boot = "fgets" /\ typed' = typed + 1
    BY <1>1 DEF PauseAll, ResumeAll, Ask, Status, Stop, Type
  <2>2. boot' \notin {"prompt", "fgets"}
    BY <1>1 DEF PauseAll, ResumeAll, Ask, Status, Stop
  <2> QED
    BY <2>1, <2>2 DEF AtMostOneMore
<1>2. CASE Prompt
  BY <1>2 DEF Prompt, AtMostOneMore
<1>3. CASE /\ typed' = typed
           /\ boot' = boot \/ boot' \notin {"prompt", "fgets"}
  BY <1>3 DEF AtMostOneMore
<1>4. CASE Spawn \/ SpawnEnds \/ AskWrite \/ Answer \/ Terminate \/ Wait \/ Drain
  BY <1>3, <1>4 DEF Spawn, SpawnEnds, AskWrite, Answer, Terminate, Wait, Drain, LeaveDrain
<1>5. CASE WaitTimesOut \/ StopNoticed \/ SignalBootstrap \/ UNCHANGED vars
  BY <1>3, <1>5 DEF WaitTimesOut, StopNoticed, SignalBootstrap, Interrupt, vars
<1>6. ASSUME NEW c \in Children, ChildEnds(c) \/ ChildCrashes(c) \/ Dies(c)
      PROVE  AtMostOneMore(n)'
  BY <1>3, <1>6 DEF ChildEnds, ChildCrashes, Dies, Ended
<1> QED
  BY <1>1, <1>2, <1>4, <1>5, <1>6 DEF Next, BootStep, Command

\* The flag is never cleared, and the top of the loop obeys it.
LEMMA AfterSignalStep ==
  ASSUME TypeOK, [Next]_vars, NEW n \in 0..MaxCommands, AfterSignal(n)
  PROVE  AfterSignal(n)'
<1>1. CASE LoopTop
  BY <1>1 DEF LoopTop, AfterSignal, AtMostOneMore
<1>2. CASE ~LoopTop
  <2>1. AtMostOneMore(n)'
    BY <1>2, OneMoreStep DEF AfterSignal
  <2>2. shutdown_requested'
    BY DEF AfterSignal, Next, BootStep, Command, Spawn, SpawnEnds, LoopTop, Prompt, PauseAll,
           ResumeAll, Ask, AskWrite, Answer, Status, Stop, Terminate, Wait, WaitTimesOut,
           Drain, StopNoticed, SignalBootstrap, ChildEnds, ChildCrashes, Dies, Ended, vars
  <2> QED
    BY <2>1, <2>2 DEF AfterSignal
<1> QED
  BY <1>1, <1>2

\* A dead child is reaped and nothing else, and never started again.
LEMMA DeadStep ==
  ASSUME IInv, [Next]_vars, NEW c \in Children, process[c] \in {"zombie", "reaped"}
  PROVE  process'[c] = "reaped" \/ process'[c] = process[c]
<1>0. TypeOK /\ ChildOK(c)
  BY ChildByChild
<1> USE DEF TypeOK
<1>1. CASE Spawn
  <2>1. c # spawned
    BY <1>0 DEF ChildOK, Children
  <2> QED
    BY <1>0, <1>1, <2>1 DEF Spawn
<1>2. CASE LoopTop \/ Wait
  BY <1>2 DEF LoopTop, Wait, Reap
<1>3. CASE PauseAll \/ ResumeAll
  BY <1>3 DEF PauseAll, ResumeAll
<1>4. CASE Ask \/ Status \/ Stop
  BY <1>4 DEF Ask, Status, Stop
<1>5. CASE Terminate \/ WaitTimesOut \/ Drain
  BY <1>5 DEF Terminate, WaitTimesOut, Drain, LeaveDrain, Live
<1>6. CASE SpawnEnds \/ Prompt \/ AskWrite \/ Answer
  BY <1>6 DEF SpawnEnds, Prompt, AskWrite, Answer
<1>7. CASE StopNoticed \/ SignalBootstrap \/ UNCHANGED vars
  BY <1>7 DEF StopNoticed, SignalBootstrap, Interrupt, LeaveDrain, vars
<1>8. ASSUME NEW d \in Children, ChildEnds(d) \/ ChildCrashes(d) \/ Dies(d)
      PROVE  process'[c] = "reaped" \/ process'[c] = process[c]
  BY <1>0, <1>8 DEF ChildEnds, ChildCrashes, Dies, Ended, Live
<1> QED
  BY <1>1, <1>2, <1>3, <1>4, <1>5, <1>6, <1>7, <1>8 DEF Next, BootStep, Command

LEMMA AfterDeathStep ==
  ASSUME IInv, [Next]_vars, NEW n \in 0..MaxCommands, NEW c \in Children, AfterDeath(n, c)
  PROVE  AfterDeath(n, c)'
<1>1. process[c] \in {"zombie", "reaped"}
  BY DEF AfterDeath
<1>2. process'[c] = "reaped" \/ process'[c] = process[c]
  BY <1>1, DeadStep
<1>3. CASE process[c] = "reaped" \/ process'[c] = "reaped"
  BY <1>2, <1>3 DEF AfterDeath
<1>4. CASE LoopTop /\ process[c] = "zombie"
  BY <1>4 DEF LoopTop, Reap, AfterDeath
<1>5. CASE ~LoopTop /\ process[c] = "zombie" /\ process'[c] = "zombie"
  <2>1. AtMostOneMore(n)
    BY <1>5 DEF AfterDeath
  <2>2. AtMostOneMore(n)'
    BY <1>5, <2>1, OneMoreStep DEF IInv
  <2> QED
    BY <1>5, <2>2 DEF AfterDeath
<1> QED
  BY <1>1, <1>2, <1>3, <1>4, <1>5

LEMMA SignalCost ==
  ASSUME NEW n \in 0..MaxCommands
  PROVE  Spec => [](shutdown_requested /\ typed = n => [](typed <= n + 1))
<1>1. shutdown_requested /\ typed = n => AfterSignal(n)
  BY DEF AfterSignal, AtMostOneMore
<1>2. IInv /\ AfterSignal(n) /\ [Next]_vars => AfterSignal(n)'
  BY AfterSignalStep DEF IInv
<1>3. AfterSignal(n) => typed <= n + 1
  BY CommandAssumption DEF AfterSignal, AtMostOneMore
<1> QED
  BY <1>1, <1>2, <1>3, Invariance, PTL DEF Spec

LEMMA DeathCost ==
  ASSUME NEW n \in 0..MaxCommands, NEW c \in Children
  PROVE  Spec => [](process[c] = "zombie" /\ typed = n =>
                      [](typed > n + 1 => process[c] # "zombie"))
<1>1. process[c] = "zombie" /\ typed = n => AfterDeath(n, c)
  BY DEF AfterDeath, AtMostOneMore
<1>2. IInv /\ AfterDeath(n, c) /\ [Next]_vars => AfterDeath(n, c)'
  BY AfterDeathStep
<1>3. AfterDeath(n, c) => (typed > n + 1 => process[c] # "zombie")
  BY CommandAssumption DEF AfterDeath, AtMostOneMore
<1> QED
  BY <1>1, <1>2, <1>3, Invariance, PTL DEF Spec

\* A SIGCHLD or SIGTERM that falls between the test at the top of the main
\* loop and fgets is noticed after one more command at the latest.
THEOREM LateNotLost == Spec => SignalCostsOneCommand
<1>1. \A n \in 0..MaxCommands :
        Spec => [](shutdown_requested /\ typed = n => [](typed <= n + 1))
  BY SignalCost
<1>2. \A n \in 0..MaxCommands : \A c \in Children :
        Spec => [](process[c] = "zombie" /\ typed = n =>
                     [](typed > n + 1 => process[c] # "zombie"))
  BY DeathCost
<1> QED
  BY <1>1, <1>2 DEF SignalCostsOneCommand
=============================================================================
