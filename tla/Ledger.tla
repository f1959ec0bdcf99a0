------------------------------- MODULE Ledger -------------------------------
(***************************************************************************)
(* What the nodes promise together: one ledger that only ever grows by a   *)
(* valid next block, and replicas that copy it one block at a time, in     *)
(* order, or start over from the initial chain.  Nothing here knows of     *)
(* messages, workers, locks or crashes.                                    *)
(***************************************************************************)
EXTENDS Chain

CONSTANTS Replicas, Block, InitialChain

VARIABLES
  ledger,   \* the coordinator's chain
  copy      \* copy[r]: the chain of replica r

ledgerVars == <<ledger, copy>>

Init ==
  /\ ledger = InitialChain
  /\ copy = [r \in Replicas |-> InitialChain]

Commit ==
  /\ \E b \in Block : /\ ValidNext(ledger, b)
                      /\ ledger' = Append(ledger, b)
  /\ UNCHANGED copy

\* Replica r takes over the block that follows the ones it has.
Advance(r) ==
  /\ Len(copy[r]) < Len(ledger)
  /\ copy' = [copy EXCEPT ![r] = Append(@, ledger[Len(@) + 1])]
  /\ UNCHANGED ledger

Restart(r) ==
  /\ copy' = [copy EXCEPT ![r] = InitialChain]
  /\ UNCHANGED ledger

Next == \/ Commit
        \/ \E r \in Replicas : Advance(r) \/ Restart(r)

Spec == Init /\ [][Next]_ledgerVars
=============================================================================
