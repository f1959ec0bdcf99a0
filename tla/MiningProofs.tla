---------------------------- MODULE MiningProofs ----------------------------
(***************************************************************************)
(* Proofs about the miners: a transaction that a miner has answered with   *)
(* OK is never lost and never committed twice, a tip is always a block of  *)
(* the ledger, and after the start no commit is missed.                    *)
(*                                                                         *)
(* A step of one miner leaves the other miners' parts of the invariant     *)
(* alone (Local); what is left is that miner's four parts, and a step of   *)
(* node 0, which every miner's parts can feel.                             *)
(***************************************************************************)
EXTENDS Mining, TLAPS, SequenceTheorems

-----------------------------------------------------------------------------
(* Sequences of anything.                                                  *)

\* A sequence over some set is a sequence over its own elements.
LEMMA OwnElements ==
  ASSUME NEW S, NEW s \in Seq(S)
  PROVE  /\ IsSeq(s) /\ Len(s) \in Nat /\ DOMAIN s = 1..Len(s)
         /\ \A i \in 1..Len(s) : s[i] \in S
<1> DEFINE R == {s[i] : i \in DOMAIN s}
<1>1. Len(s) \in Nat /\ DOMAIN s = 1..Len(s) /\ \A i \in 1..Len(s) : s[i] \in S
  OBVIOUS
<1>2. s \in [1..Len(s) -> R]
  <2>1. s = [i \in 1..Len(s) |-> s[i]]
    OBVIOUS
  <2>2. \A i \in 1..Len(s) : s[i] \in R
    BY <1>1
  <2> QED
    BY <2>1, <2>2
<1>3. s \in Seq(R)
  BY <1>1, <1>2, SeqDef
<1> QED
  BY <1>1, <1>3 DEF IsSeq

\* The length and the domain of a sequence.
LEMMA SeqFacts ==
  ASSUME NEW s, IsSeq(s)
  PROVE  Len(s) \in Nat /\ DOMAIN s = 1..Len(s)
  BY OwnElements DEF IsSeq

LEMMA SeqAppend ==
  ASSUME NEW s, IsSeq(s), NEW x
  PROVE  /\ IsSeq(Append(s, x))
         /\ Len(Append(s, x)) = Len(s) + 1
         /\ \A i \in 1..Len(s) : Append(s, x)[i] = s[i]
         /\ Append(s, x)[Len(s) + 1] = x
<1> DEFINE S == {s[i] : i \in DOMAIN s}
<1>1. s \in Seq(S)
  BY DEF IsSeq
<1> HIDE DEF S
<1>2. s \in Seq(S \cup {x}) /\ x \in S \cup {x}
  BY <1>1
<1>3. /\ Append(s, x) \in Seq(S \cup {x})
      /\ Len(Append(s, x)) = Len(s) + 1
      /\ \A i \in 1..Len(s) : Append(s, x)[i] = s[i]
      /\ Append(s, x)[Len(s) + 1] = x
  BY <1>2, AppendProperties
<1> QED
  BY <1>3, OwnElements

LEMMA SeqTail ==
  ASSUME NEW s, IsSeq(s), s # <<>>
  PROVE  /\ IsSeq(Tail(s))
         /\ Len(s) > 0 /\ Len(Tail(s)) = Len(s) - 1
         /\ \A i \in 1..Len(Tail(s)) : Tail(s)[i] = s[i + 1]
         /\ Head(s) = s[1]
<1> DEFINE S == {s[i] : i \in DOMAIN s}
<1>1. s \in Seq(S)
  BY DEF IsSeq
<1> HIDE DEF S
<1>2. /\ Tail(s) \in Seq(S)
      /\ Len(s) \in Nat /\ Len(s) > 0 /\ Len(Tail(s)) = Len(s) - 1
      /\ \A i \in 1..Len(Tail(s)) : Tail(s)[i] = s[i + 1]
      /\ Head(s) = s[1]
  BY <1>1, HeadTailProperties, EmptySeq
<1> QED
  BY <1>2, OwnElements

LEMMA SeqEmpty == IsSeq(<<>>) /\ Len(<<>>) = 0
  BY OwnElements, EmptySeq

-----------------------------------------------------------------------------
(* Frames: what a part of the invariant looks at.                          *)

LEMMA OrderFrame ==
  ASSUME NEW m \in Miners, OrderInv(m), inbox'[m] = inbox[m], comm'[m] = comm[m],
         UNCHANGED <<ledger, node0>>
  PROVE  OrderInv(m)'
  BY DEF OrderInv, Busy, Queued, Reaching, MessageType

LEMMA PoolFrame ==
  ASSUME NEW m \in Miners, PoolInv(m), mempool'[m] = mempool[m], acked'[m] = acked[m],
         UNCHANGED ledger
  PROVE  PoolInv(m)'
  BY DEF PoolInv

LEMMA CleanFrame ==
  ASSUME NEW m \in Miners, CleanInv(m), comm'[m] = comm[m], acked'[m] = acked[m],
         mempool'[m] = mempool[m], tip'[m] = tip[m], inbox'[m] = inbox[m],
         UNCHANGED <<ledger, node0>>
  PROVE  CleanInv(m)'
<1>1. Pending(m)' = Pending(m)
  BY DEF Pending
<1> QED
  BY <1>1 DEF CleanInv, Has

LEMMA MiningFrame ==
  ASSUME NEW m \in Miners, MiningInv(m), mining'[m] = mining[m], tip'[m] = tip[m],
         restart_mining'[m] = restart_mining[m], shutting_down'[m] = shutting_down[m],
         acked'[m] = acked[m], mempool'[m] = mempool[m], UNCHANGED ledger
  PROVE  MiningInv(m)'
  BY DEF MiningInv, Has, IsTip, TipAfter, NoTip, Candidate

\* Nothing of miner n changes.
Same(n) ==
  /\ inbox'[n] = inbox[n] /\ comm'[n] = comm[n] /\ mining'[n] = mining[n]
  /\ mempool'[n] = mempool[n] /\ tip'[n] = tip[n] /\ acked'[n] = acked[n]
  /\ restart_mining'[n] = restart_mining[n] /\ shutting_down'[n] = shutting_down[n]

LEMMA OnePlaceFrame ==
  ASSUME OnePlace, UNCHANGED <<inbox, sent, acked, ledger>>
  PROVE  OnePlace'
  BY DEF OnePlace, Queues, Has

\* A step of miner m: the other miners do not notice.
LEMMA Local ==
  ASSUME IInv, NEW m \in Miners, UNCHANGED <<ledger, node0>>,
         \A n \in Miners \ {m} : Same(n),
         Shape', OnePlace', MinerInv(m)'
  PROVE  IInv'
<1>1. NodeInv'
  BY DEF IInv, NodeInv
<1>2. \A n \in Miners : MinerInv(n)'
  <2> TAKE n \in Miners
  <2>1. CASE n = m
    BY <2>1
  <2>2. CASE n # m
    <3>1. Same(n)
      BY <2>2
    <3>2. OrderInv(n) /\ PoolInv(n) /\ CleanInv(n) /\ MiningInv(n)
      BY DEF IInv, MinerInv
    <3> QED
      BY <3>1, <3>2, OrderFrame, PoolFrame, CleanFrame, MiningFrame DEF MinerInv, Same
  <2> QED
    BY <2>1, <2>2
<1> QED
  BY <1>1, <1>2 DEF IInv

-----------------------------------------------------------------------------
(* The mining thread: most steps change nothing but the thread's locals.   *)

LEMMA MiningLocal ==
  ASSUME IInv, NEW m \in Miners, NEW state, SetMining(m, state),
         UNCHANGED <<node0Vars, commVars, mempool, tip, restart_mining, shutting_down>>,
         MiningInv(m)'
  PROVE  IInv'
<1>1. Shape'
  BY DEF IInv, Shape, SetMining, commVars
<1>2. OnePlace'
  BY OnePlaceFrame DEF IInv, node0Vars, commVars
<1>3. \A n \in Miners \ {m} : Same(n)
  BY DEF Same, SetMining, commVars, IInv, Shape
<1>4. OrderInv(m)' /\ PoolInv(m)' /\ CleanInv(m)'
  BY OrderFrame, PoolFrame, CleanFrame DEF IInv, MinerInv, node0Vars, commVars
<1> QED
  BY <1>1, <1>2, <1>3, <1>4, Local DEF MinerInv, node0Vars

\* The thread's new locals, after a step that changes nothing else.
LEMMA NewLocals ==
  ASSUME IInv, NEW m \in Miners, NEW state, SetMining(m, state)
  PROVE  mining'[m] = state
  BY DEF IInv, Shape, SetMining

\* A tip names an index that is taken, or the next one.
LEMMA TipIndex ==
  ASSUME NodeInv, NEW t, IsTip(t)
  PROVE  t.next_index \in Nat /\ t.next_index <= Len(ledger)
<1>1. Len(ledger) \in Nat
  BY SeqFacts DEF NodeInv
<1>2. CASE t = NoTip
  BY <1>1, <1>2 DEF NoTip
<1>3. CASE \E i \in 1..Len(ledger) : t = TipAfter(ledger[i])
  <2>1. PICK i \in 1..Len(ledger) : t = TipAfter(ledger[i])
    BY <1>3
  <2>2. ledger[i].index = i - 1 /\ t.next_index = ledger[i].index + 1
    BY <2>1 DEF NodeInv, TipAfter
  <2> QED
    BY <1>1, <2>2
<1> QED
  BY <1>2, <1>3 DEF IsTip

\* A thread with no copy of anything.
LEMMA NothingCopied ==
  ASSUME IInv, NEW m \in Miners, NEW pc \in {"loop", "idle", "done", "answer"},
         mining'[m] = [pc |-> pc],
         restart_mining'[m] \in BOOLEAN, shutting_down'[m] \in BOOLEAN,
         tip'[m] = tip[m], UNCHANGED ledger
  PROVE  MiningInv(m)'
<1>1. mining'[m].pc = pc
  OBVIOUS
<1>2. IsTip(tip[m])'
  BY DEF IInv, MinerInv, MiningInv, IsTip
<1> QED
  BY <1>1, <1>2 DEF MiningInv, Candidate

LEMMA QueryHeightStep ==
  ASSUME IInv, NEW m \in Miners, QueryHeight(m)
  PROVE  IInv'
<1> USE DEF QueryHeight, node0Vars, commVars
<1>1. MiningInv(m) /\ mining[m].pc = "query_height" /\ NodeInv
  BY DEF IInv, MinerInv
<1>2. CASE SetMining(m, Loop)
  <2>1. MiningInv(m)'
    BY <1>1, <1>2, NewLocals, NothingCopied DEF MiningInv, Loop
  <2> QED
    BY <1>2, <2>1, MiningLocal
<1>3. CASE SetMining(m, [pc |-> "set_tip", tip |-> NoTip])
  <2>1. mining'[m] = [pc |-> "set_tip", tip |-> NoTip]
    BY <1>3, NewLocals
  <2>2. MiningInv(m)'
    BY <1>1, <2>1 DEF MiningInv, Candidate, IsTip
  <2> QED
    BY <1>3, <2>2, MiningLocal
<1>4. CASE /\ handle_query_height # 0
           /\ SetMining(m, [pc |-> "query_block", height |-> handle_query_height])
  <2>1. mining'[m] = [pc |-> "query_block", height |-> Len(ledger)]
    BY <1>4, NewLocals DEF handle_query_height
  <2>2. Len(ledger) \in 1..Len(ledger)
    BY <1>1, <1>4, SeqFacts DEF handle_query_height, NodeInv
  <2>3. MiningInv(m)'
    BY <1>1, <2>1, <2>2 DEF MiningInv, Candidate, IsTip
  <2> QED
    BY <1>4, <2>3, MiningLocal
<1> QED
  BY <1>2, <1>3, <1>4

LEMMA QueryBlockStep ==
  ASSUME IInv, NEW m \in Miners, QueryBlock(m)
  PROVE  IInv'
<1> USE DEF QueryBlock, node0Vars, commVars
<1>1. MiningInv(m) /\ mining[m].pc = "query_block" /\ NodeInv
  BY DEF IInv, MinerInv
<1>2. CASE SetMining(m, Loop)
  <2>1. MiningInv(m)'
    BY <1>1, <1>2, NewLocals, NothingCopied DEF MiningInv, Loop
  <2> QED
    BY <1>2, <2>1, MiningLocal
<1>3. CASE SetMining(m, [pc |-> "set_tip",
                         tip |-> TipAfter(handle_query_block(mining[m].height - 1))])
  <2>1. PICK state : /\ SetMining(m, state)
                     /\ state = [pc |-> "set_tip",
                                 tip |-> TipAfter(handle_query_block(mining[m].height - 1))]
    BY <1>3
  <2>2. PICK h : h = mining[m].height
    OBVIOUS
  <2>3. h \in 1..Len(ledger) /\ (h - 1) + 1 = h
    BY <1>1, <2>2, SeqFacts DEF MiningInv, NodeInv
  <2>4. mining'[m] = [pc |-> "set_tip", tip |-> TipAfter(ledger[h])]
    BY <2>1, <2>2, <2>3, NewLocals DEF handle_query_block
  <2>5. MiningInv(m)'
    BY <1>1, <2>3, <2>4 DEF MiningInv, Candidate, IsTip
  <2> QED
    BY <2>1, <2>5, MiningLocal
<1> QED
  BY <1>2, <1>3

LEMMA CopyTipStep ==
  ASSUME IInv, NEW m \in Miners, CopyTip(m)
  PROVE  IInv'
<1> USE DEF CopyTip, node0Vars, commVars
<1>1. MiningInv(m) /\ CleanInv(m) /\ Shape
  BY DEF IInv, MinerInv
<1>2. CASE shutting_down[m]
  <2>1. MiningInv(m)'
    BY <1>1, <1>2, NewLocals, NothingCopied DEF MiningInv
  <2> QED
    BY <1>2, <2>1, MiningLocal
<1>3. CASE ~shutting_down[m]
  <2>1. /\ mining'[m] = [pc |-> "snapshot", tip |-> tip[m]]
        /\ restart_mining'[m] = FALSE
    BY <1>1, <1>3, NewLocals DEF Shape
  <2>2. MiningInv(m)'
    <3>1. mining'[m].pc = "snapshot" /\ mining'[m].tip = tip[m]
      BY <2>1
    <3>2. IsTip(tip[m])' /\ IsTip(mining[m].tip)'
      BY <1>1, <3>1 DEF MiningInv, IsTip
    <3>3. \A k \in 1..Len(mempool[m]) : \A i \in 1..Len(ledger) :
            Has(ledger[i], mempool[m][k]) => mining'[m].tip.next_index < i
      BY <1>1, <3>1 DEF CleanInv
    <3>4. restart_mining'[m] \in BOOLEAN /\ shutting_down'[m] \in BOOLEAN
      BY <1>1, <2>1 DEF MiningInv
    <3> QED
      BY <3>1, <3>2, <3>3, <3>4 DEF MiningInv, Candidate
  <2>3. Shape'
    BY <1>1, <1>3 DEF Shape, SetMining
  <2>4. OnePlace'
    BY OnePlaceFrame DEF IInv
  <2>5. \A n \in Miners \ {m} : Same(n)
    BY <1>1, <1>3 DEF Same, SetMining, Shape
  <2>6. OrderInv(m)' /\ PoolInv(m)' /\ CleanInv(m)'
    BY OrderFrame, PoolFrame, CleanFrame DEF IInv, MinerInv
  <2> QED
    BY <2>2, <2>3, <2>4, <2>5, <2>6, Local DEF MinerInv
<1> QED
  BY <1>2, <1>3

\* No transaction of m is committed when the tip is overwritten.
LEMMA SetTipStep ==
  ASSUME IInv, NEW m \in Miners, SetTip(m)
  PROVE  IInv'
<1> USE DEF SetTip, node0Vars, commVars
<1>1. MiningInv(m) /\ CleanInv(m) /\ PoolInv(m) /\ Shape
  BY DEF IInv, MinerInv
<1>2. /\ mining[m].pc = "set_tip" /\ tip'[m] = mining[m].tip
      /\ mining'[m] = Loop /\ restart_mining'[m] = TRUE
  BY <1>1, NewLocals DEF Shape
<1>3. mining'[m].pc = "loop" /\ IsTip(tip[m])'
  BY <1>1, <1>2 DEF Loop, MiningInv, IsTip
<1>4. MiningInv(m)'
  BY <1>1, <1>2, <1>3 DEF MiningInv, Candidate
<1>5. \A k \in 1..Len(mempool[m]) : \A i \in 1..Len(ledger) : ~Has(ledger[i], mempool[m][k])
  BY <1>1, <1>2, OwnElements DEF MiningInv, PoolInv
<1>6. Pending(m)' = Pending(m)
  BY DEF Pending
<1>7. CleanInv(m)'
  BY <1>1, <1>5 DEF CleanInv
<1>8. Shape'
  BY <1>1 DEF Shape, SetMining
<1>9. OnePlace'
  BY OnePlaceFrame DEF IInv
<1>10. \A n \in Miners \ {m} : Same(n)
  BY <1>1 DEF Same, SetMining, Shape
<1>11. OrderInv(m)' /\ PoolInv(m)'
  BY OrderFrame, PoolFrame DEF IInv, MinerInv
<1> QED
  BY <1>4, <1>7, <1>8, <1>9, <1>10, <1>11, Local DEF MinerInv

\* The transactions of a snapshot are transactions of the pool.
LEMMA SnapshotFacts ==
  ASSUME NEW S, NEW pool \in Seq(S)
  PROVE  /\ mempool_snapshot(pool) \in Seq(S)
         /\ Len(mempool_snapshot(pool)) <= Len(pool)
         /\ Len(mempool_snapshot(pool)) <= MAX_TRANSACTIONS_PER_BLOCK
         /\ \A k \in 1..Len(mempool_snapshot(pool)) : mempool_snapshot(pool)[k] = pool[k]
  BY MaxTxAssumption DEF mempool_snapshot

\* The tip was copied before the pool: an index that is taken goes with a
\* transaction that is committed.
LEMMA SnapshotStep ==
  ASSUME IInv, NEW m \in Miners, Snapshot(m)
  PROVE  IInv'
<1> USE DEF Snapshot, node0Vars, commVars
<1>1. MiningInv(m) /\ PoolInv(m) /\ NodeInv
  BY DEF IInv, MinerInv
<1>2. CASE SetMining(m, [pc |-> "idle"])
  <2>1. MiningInv(m)'
    BY <1>1, <1>2, NewLocals, NothingCopied DEF MiningInv
  <2> QED
    BY <1>2, <2>1, MiningLocal
<1>3. ASSUME NEW t \in Times, NEW batch, batch = mempool_snapshot(mempool[m]),
             SetMining(m, [pc |-> "mine", block |->
                  [index |-> mining[m].tip.next_index, timestamp |-> t,
                   previous_hash |-> mining[m].tip.previous_hash, nonce |-> 0,
                   merkle_root |-> MerkleRoot(batch), transactions |-> batch]])
      PROVE  IInv'
  <2>1. PICK b : b = [index |-> mining[m].tip.next_index, timestamp |-> t,
                   previous_hash |-> mining[m].tip.previous_hash, nonce |-> 0,
                   merkle_root |-> MerkleRoot(batch), transactions |-> batch]
    OBVIOUS
  <2>2. SetMining(m, [pc |-> "mine", block |-> b])
    BY <1>3, <2>1
  <2>3. mining'[m].pc = "mine" /\ mining'[m].block = b
    BY <2>2, NewLocals
  <2>4. b.index = mining[m].tip.next_index /\ b.transactions = batch
    BY <2>1
  <2>5. /\ batch \in Seq(acked[m]) /\ Len(batch) \in Nat /\ Len(mempool[m]) \in Nat
        /\ \A k \in 1..Len(batch) : k \in 1..Len(mempool[m]) /\ batch[k] = mempool[m][k]
    <3>1. /\ mempool[m] \in Seq(acked[m])
          /\ batch \in Seq(acked[m]) /\ Len(batch) <= Len(mempool[m])
          /\ \A k \in 1..Len(batch) : batch[k] = mempool[m][k]
      BY <1>1, <1>3, SnapshotFacts DEF PoolInv
    <3>2. Len(batch) \in Nat /\ Len(mempool[m]) \in Nat
      BY <3>1
    <3> QED
      BY <3>1, <3>2
  <2>6. b.index \in Nat
    BY <1>1, <2>4, TipIndex DEF MiningInv
  <2>7. \A k, l \in 1..Len(batch) : batch[k] = batch[l] => k = l
    BY <1>1, <2>5 DEF PoolInv
  <2>8. ASSUME NEW i \in 1..Len(ledger), NEW tx \in acked[m], Has(b, tx), Has(ledger[i], tx)
        PROVE  b.index < i
    <3>1. PICK k \in 1..Len(batch) : batch[k] = tx
      BY <2>4, <2>8 DEF Has
    <3>2. k \in 1..Len(mempool[m]) /\ Has(ledger[i], mempool[m][k])
      BY <2>5, <2>8, <3>1
    <3> QED
      BY <1>1, <2>4, <3>2 DEF MiningInv
  <2>9. MiningInv(m)'
    BY <1>1, <2>3, <2>4, <2>5, <2>6, <2>7, <2>8 DEF MiningInv, Candidate, IsTip
  <2> QED
    BY <2>2, <2>9, MiningLocal
<1> QED
  BY <1>2, <1>3

LEMMA WaitingStep ==
  ASSUME IInv, NEW m \in Miners, IdleEnds(m) \/ NotMined(m)
  PROVE  IInv'
<1>1. /\ SetMining(m, Loop)
      /\ UNCHANGED <<node0Vars, commVars, mempool, tip, restart_mining, shutting_down>>
  BY DEF IdleEnds, NotMined
<1>2. MiningInv(m)'
  BY <1>1, NewLocals, NothingCopied DEF Loop, IInv, MinerInv, MiningInv, node0Vars
<1> QED
  BY <1>1, <1>2, MiningLocal

\* The candidate goes on, unchanged.
LEMMA CandidateKept ==
  ASSUME IInv, NEW m \in Miners, NEW pc \in {"propose", "await"}, Candidate(m),
         SetMining(m, [pc |-> pc, block |-> mining[m].block]),
         UNCHANGED <<node0Vars, commVars, mempool, tip, restart_mining, shutting_down>>
  PROVE  IInv'
<1>1. MiningInv(m)
  BY DEF IInv, MinerInv
<1>2. mining'[m].pc = pc /\ mining'[m].block = mining[m].block
  BY NewLocals
<1>3. MiningInv(m)'
  BY <1>1, <1>2 DEF MiningInv, Candidate, IsTip, node0Vars, commVars
<1> QED
  BY <1>3, MiningLocal

LEMMA MinedStep ==
  ASSUME IInv, NEW m \in Miners, Mined(m)
  PROVE  IInv'
  BY CandidateKept DEF Mined, Candidate

LEMMA ProposeStep ==
  ASSUME IInv, NEW m \in Miners, Propose(m)
  PROVE  IInv'
<1>1. CASE SetMining(m, Loop)
  <2>1. MiningInv(m)'
    BY <1>1, NewLocals, NothingCopied DEF Propose, Loop, IInv, MinerInv, MiningInv, node0Vars
  <2> QED
    BY <1>1, <2>1, MiningLocal DEF Propose
<1>2. CASE SetMining(m, [pc |-> "await", block |-> mining[m].block])
  BY <1>2, CandidateKept DEF Propose, Candidate
<1> QED
  BY <1>1, <1>2 DEF Propose

LEMMA TerminateStep ==
  ASSUME IInv, NEW m \in Miners, Terminate(m)
  PROVE  IInv'
<1> USE DEF Terminate, node0Vars, commVars
<1>1. Shape /\ MiningInv(m)
  BY DEF IInv, MinerInv
<1>2. shutting_down'[m] = TRUE
  BY <1>1 DEF Shape
<1>3. MiningInv(m)'
  BY <1>1, <1>2 DEF MiningInv, Candidate, IsTip
<1>4. Shape'
  BY <1>1 DEF Shape
<1>5. OnePlace'
  BY OnePlaceFrame DEF IInv
<1>6. \A n \in Miners \ {m} : Same(n)
  BY <1>1 DEF Same, Shape
<1>7. OrderInv(m)' /\ PoolInv(m)' /\ CleanInv(m)'
  BY OrderFrame, PoolFrame, CleanFrame DEF IInv, MinerInv
<1> QED
  BY <1>3, <1>4, <1>5, <1>6, <1>7, Local DEF MinerInv

-----------------------------------------------------------------------------
(* The commits on their way.                                               *)

\* A commit that waits in the inbox carries a block of the ledger.
LEMMA QueuedBlock ==
  ASSUME NodeInv, NEW m \in Miners, OrderInv(m), NEW k \in Queued(m)
  PROVE  \E i \in 1..Len(ledger) : inbox[m][k].block = ledger[i] /\ inbox[m][k].block.index = i - 1
<1>1. inbox[m][k] \in MessageType /\ inbox[m][k].type = "BLOCK_COMMIT"
  BY DEF Queued, OrderInv
<1>2. PICK i \in 1..Len(ledger) : inbox[m][k].block = ledger[i]
  BY <1>1 DEF MessageType
<1> QED
  BY <1>2 DEF NodeInv

LEMMA PendingIff ==
  ASSUME NEW m \in Miners, NEW j
  PROVE  /\ j \in Pending(m) <=>
              \/ \E k \in Queued(m) : inbox[m][k].block.index = j
              \/ Busy(m) /\ comm[m].block.index = j
              \/ Reaching(m) /\ node0.block.index = j
         /\ (j \in Pending(m) <=>
              \/ \E k \in Queued(m) : inbox[m][k].block.index = j
              \/ Busy(m) /\ comm[m].block.index = j
              \/ Reaching(m) /\ node0.block.index = j)'
  BY DEF Pending, Queued, Busy, Reaching

\* Connections are served in order: the queue moves up by d.
LEMMA OrderShift ==
  ASSUME NodeInv, NEW m \in Miners, OrderInv(m), UNCHANGED <<ledger, node0>>,
         IsSeq(inbox'[m]), \A k \in 1..Len(inbox'[m]) : inbox'[m][k] \in MessageType,
         comm'[m].pc \in {"starting", "poll", "remove", "commit", "closing", "done"},
         NEW d \in Nat,
         \A k \in Queued(m)' : k + d \in Queued(m) /\ inbox'[m][k] = inbox[m][k + d],
         Busy(m)' =>
           /\ ~(m >= MAX_PROBE_PEERS)
           /\ \E i \in 1..Len(ledger) : comm'[m].block = ledger[i]
           /\ \A k \in Queued(m) : k > d => comm'[m].block.index < inbox[m][k].block.index
           /\ Reaching(m) => comm'[m].block.index < node0.block.index
  PROVE  OrderInv(m)'
<1>1. Reaching(m)' <=> Reaching(m)
  BY DEF Reaching
<1>2. Queued(m)' \subseteq Nat /\ Queued(m) \subseteq Nat
  <2>1. Len(inbox[m]) \in Nat /\ Len(inbox'[m]) \in Nat
    BY SeqFacts DEF OrderInv
  <2> QED
    BY <2>1 DEF Queued
<1>3. m >= MAX_PROBE_PEERS => Queued(m)' = {}
  BY DEF OrderInv
<1>4. \A k, l \in Queued(m)' : k < l => inbox'[m][k].block.index < inbox'[m][l].block.index
  <2> SUFFICES ASSUME NEW k \in Queued(m)', NEW l \in Queued(m)', k < l
               PROVE  inbox'[m][k].block.index < inbox'[m][l].block.index
    OBVIOUS
  <2>1. k + d \in Queued(m) /\ l + d \in Queued(m) /\ k + d < l + d
    BY <1>2
  <2> QED
    BY <2>1 DEF OrderInv
<1>5. Busy(m)' => \A k \in Queued(m)' : comm'[m].block.index < inbox'[m][k].block.index
  <2> SUFFICES ASSUME Busy(m)', NEW k \in Queued(m)'
               PROVE  comm'[m].block.index < inbox'[m][k].block.index
    OBVIOUS
  <2>1. k + d \in Queued(m) /\ k + d > d
    <3>1. k >= 1
      BY DEF Queued
    <3> QED
      BY <1>2, <3>1
  <2> QED
    BY <2>1
<1>6. Reaching(m) => \A k \in Queued(m)' : inbox'[m][k].block.index < node0.block.index
  BY DEF OrderInv
<1>7. \A k \in 1..Len(inbox'[m]) : (inbox[m][k] \in MessageType)'
  BY DEF MessageType
<1> QED
  BY <1>1, <1>3, <1>4, <1>5, <1>6, <1>7 DEF OrderInv

\* The first connection of m is served: what it carries may be answered.
LEMMA OnePlaceServed ==
  ASSUME OnePlace, NEW m \in Miners, NEW A, UNCHANGED <<ledger, sent>>,
         Len(inbox[m]) \in Nat, Len(inbox[m]) > 0, Len(inbox'[m]) = Len(inbox[m]) - 1,
         \A k \in 1..Len(inbox'[m]) : inbox'[m][k] = inbox[m][k + 1],
         acked'[m] = acked[m] \cup A, \A tx \in A : tx \in Tx /\ Queues(m, 1, tx),
         \A n \in Miners \ {m} : inbox'[n] = inbox[n] /\ acked'[n] = acked[n]
  PROVE  OnePlace'
<1>1. \A n \in Miners : \A tx \in acked'[n] : tx \in acked[n] \/ (n = m /\ tx \in A)
  OBVIOUS
<1>2. \A tx \in A : /\ tx \in sent
                    /\ \A n \in Miners : tx \notin acked[n]
                    /\ \A n \in Miners : \A l \in 1..Len(inbox[n]) :
                         Queues(n, l, tx) => m = n /\ 1 = l
  BY DEF OnePlace
<1>3. \A n \in Miners : acked'[n] \subseteq sent
  BY <1>1, <1>2 DEF OnePlace
<1>4. ASSUME NEW p \in Miners, NEW n \in Miners, NEW tx \in acked'[p] \cap acked'[n]
      PROVE  p = n
  BY <1>1, <1>2 DEF OnePlace
<1>5. ASSUME NEW n \in Miners, NEW k \in 1..Len(inbox'[n])
      PROVE  \E l \in 1..Len(inbox[n]) :
               /\ inbox'[n][k] = inbox[n][l]
               /\ IF n = m THEN l = k + 1 ELSE l = k
  <2>1. CASE n = m
    <3>1. k + 1 \in 1..Len(inbox[m])
      BY <1>5, <2>1
    <3> QED
      BY <1>5, <2>1, <3>1
  <2>2. CASE n # m
    BY <1>5, <2>2
  <2> QED
    BY <2>1, <2>2
<1>6. ASSUME NEW n \in Miners, NEW k \in 1..Len(inbox'[n]), NEW tx \in Tx, Queues(n, k, tx)'
      PROVE  /\ tx \in sent
             /\ \A p \in Miners : tx \notin acked'[p]
             /\ \A p \in Miners : \A l \in 1..Len(inbox'[p]) :
                  Queues(p, l, tx)' => n = p /\ k = l
  <2>1. PICK k0 \in 1..Len(inbox[n]) : /\ inbox'[n][k] = inbox[n][k0]
                                       /\ IF n = m THEN k0 = k + 1 ELSE k0 = k
    BY <1>5
  <2>2. Queues(n, k0, tx)
    BY <1>6, <2>1 DEF Queues
  <2>3. /\ tx \in sent
        /\ \A p \in Miners : tx \notin acked[p]
        /\ \A p \in Miners : \A l \in 1..Len(inbox[p]) : Queues(p, l, tx) => n = p /\ k0 = l
    BY <2>2 DEF OnePlace
  <2>4. tx \notin A
    <3> SUFFICES ASSUME tx \in A PROVE FALSE
      OBVIOUS
    <3>1. n = m /\ k0 = 1
      BY <1>2, <2>2
    <3>2. k \in Nat /\ k >= 1 /\ k0 = k + 1
      BY <2>1, <3>1
    <3> QED
      BY <3>1, <3>2
  <2>5. ASSUME NEW p \in Miners, NEW l \in 1..Len(inbox'[p]), Queues(p, l, tx)'
        PROVE  n = p /\ k = l
    <3>1. PICK l0 \in 1..Len(inbox[p]) : /\ inbox'[p][l] = inbox[p][l0]
                                         /\ IF p = m THEN l0 = l + 1 ELSE l0 = l
      BY <1>5
    <3>2. Queues(p, l0, tx)
      BY <2>5, <3>1 DEF Queues
    <3>3. n = p /\ k0 = l0
      BY <2>3, <3>2
    <3>4. CASE p = m
      <4>1. k \in Int /\ l \in Int /\ k0 = k + 1 /\ l0 = l + 1
        BY <2>1, <3>1, <3>3, <3>4
      <4>2. k + 1 = l + 1
        BY <3>3, <4>1
      <4>3. k = l
        BY <4>1, <4>2
      <4> QED
        BY <3>3, <4>3
    <3>5. CASE p # m
      BY <2>1, <3>1, <3>3, <3>5
    <3> QED
      BY <3>4, <3>5
  <2> QED
    BY <1>1, <2>3, <2>4, <2>5
<1>7. \A i \in 1..Len(ledger) : \A tx \in Tx \cap ValidTx :
        Has(ledger[i], tx) => \E n \in Miners : tx \in acked'[n]
  BY DEF OnePlace
<1> QED
  BY <1>3, <1>4, <1>6, <1>7 DEF OnePlace

-----------------------------------------------------------------------------
(* The communication thread.                                               *)

\* A connection is added at the end of the queue.
LEMMA QueueGrows ==
  ASSUME Shape, NEW m \in Miners, OrderInv(m), NEW msg,
         inbox' = [inbox EXCEPT ![m] = Append(@, msg)]
  PROVE  \E last :
           /\ Len(inbox[m]) \in Nat /\ last = Len(inbox[m]) + 1 /\ last = Len(inbox'[m])
           /\ IsSeq(inbox'[m]) /\ inbox'[m][last] = msg
           /\ \A k \in 1..Len(inbox'[m]) : k \in 1..Len(inbox[m]) \/ k = last
           /\ \A k \in 1..Len(inbox[m]) : inbox'[m][k] = inbox[m][k]
           /\ Queued(m)' = IF msg.type = "BLOCK_COMMIT" THEN Queued(m) \cup {last}
                                                        ELSE Queued(m)
           /\ \A k \in Queued(m) : inbox'[m][k] = inbox[m][k] /\ k < last
           /\ \A n \in Miners \ {m} : inbox'[n] = inbox[n]
<1>1. IsSeq(inbox[m])
  BY DEF OrderInv
<1>2. inbox'[m] = Append(inbox[m], msg) /\ \A n \in Miners \ {m} : inbox'[n] = inbox[n]
  BY DEF Shape
<1>3. PICK last : last = Len(inbox[m]) + 1
  OBVIOUS
<1>4. /\ IsSeq(inbox'[m]) /\ Len(inbox[m]) \in Nat /\ Len(inbox'[m]) = last
      /\ \A k \in 1..Len(inbox[m]) : inbox'[m][k] = inbox[m][k]
      /\ inbox'[m][last] = msg
  BY <1>1, <1>2, <1>3, SeqFacts, SeqAppend
<1>5. /\ last \in 1..Len(inbox'[m])
      /\ \A k \in 1..Len(inbox'[m]) : k \in 1..Len(inbox[m]) \/ k = last
      /\ \A k \in 1..Len(inbox[m]) : k \in 1..Len(inbox'[m]) /\ k < last
  BY <1>3, <1>4
<1>6. \A k : k \in Queued(m)' <=> k \in Queued(m) \/ (k = last /\ msg.type = "BLOCK_COMMIT")
  BY <1>4, <1>5 DEF Queued
<1>7. Queued(m)' = IF msg.type = "BLOCK_COMMIT" THEN Queued(m) \cup {last} ELSE Queued(m)
  BY <1>6
<1>8. \A k \in Queued(m) : inbox'[m][k] = inbox[m][k] /\ k < last
  BY <1>4, <1>5 DEF Queued
<1> QED
  BY <1>2, <1>3, <1>4, <1>5, <1>7, <1>8

LEMMA SubmitStep ==
  ASSUME IInv, NEW m \in Miners, Submit(m)
  PROVE  IInv'
<1> USE DEF node0Vars
<1>1. Shape /\ NodeInv /\ OnePlace /\ OrderInv(m) /\ CleanInv(m)
  BY DEF IInv, MinerInv
<1>2. PICK tx \in Tx \ sent :
        /\ sent' = sent \cup {tx}
        /\ inbox' = [inbox EXCEPT ![m] = Append(@, [type |-> "TX_SUBMIT", tx |-> tx])]
  BY DEF Submit
<1>3. UNCHANGED <<ledger, node0, comm, mining, mempool, tip, restart_mining,
                  shutting_down, acked>>
  BY DEF Submit
<1>4. PICK msg : msg = [type |-> "TX_SUBMIT", tx |-> tx]
  OBVIOUS
<1>5. msg.type = "TX_SUBMIT" /\ msg.tx = tx /\ msg \in MessageType
  BY <1>4 DEF MessageType
<1>6. inbox' = [inbox EXCEPT ![m] = Append(@, msg)]
  BY <1>2, <1>4
<1>7. PICK last :
        /\ Len(inbox[m]) \in Nat /\ last = Len(inbox[m]) + 1 /\ last = Len(inbox'[m])
        /\ IsSeq(inbox'[m]) /\ inbox'[m][last] = msg
        /\ \A k \in 1..Len(inbox'[m]) : k \in 1..Len(inbox[m]) \/ k = last
        /\ \A k \in 1..Len(inbox[m]) : inbox'[m][k] = inbox[m][k]
        /\ Queued(m)' = IF msg.type = "BLOCK_COMMIT" THEN Queued(m) \cup {last} ELSE Queued(m)
        /\ \A k \in Queued(m) : inbox'[m][k] = inbox[m][k] /\ k < last
        /\ \A n \in Miners \ {m} : inbox'[n] = inbox[n]
  BY <1>1, <1>6, QueueGrows
<1>8. Queued(m)' = Queued(m)
  BY <1>5, <1>7
<1>9. OrderInv(m)'
  <2>1. \A k \in 1..Len(inbox'[m]) : inbox'[m][k] \in MessageType
    BY <1>1, <1>5, <1>7 DEF OrderInv
  <2>2. \A k \in Queued(m)' : k + 0 \in Queued(m) /\ inbox'[m][k] = inbox[m][k + 0]
    <3>1. \A k \in Queued(m) : k + 0 = k
      BY <1>7 DEF Queued
    <3> QED
      BY <1>7, <1>8, <3>1
  <2>3. /\ comm'[m].pc \in {"starting", "poll", "remove", "commit", "closing", "done"}
        /\ Busy(m)' =>
           /\ ~(m >= MAX_PROBE_PEERS)
           /\ \E i \in 1..Len(ledger) : comm'[m].block = ledger[i]
           /\ \A k \in Queued(m) : k > 0 => comm'[m].block.index < inbox[m][k].block.index
           /\ Reaching(m) => comm'[m].block.index < node0.block.index
    BY <1>1, <1>3 DEF OrderInv, Busy
  <2>4. 0 \in Nat
    OBVIOUS
  <2> QED
    BY <1>1, <1>3, <1>7, <2>1, <2>2, <2>3, <2>4, OrderShift
<1>10. CleanInv(m)'
  <2>1. \A j : j \in Pending(m) => j \in Pending(m)'
    <3> TAKE j
    <3>1. (Busy(m)' <=> Busy(m)) /\ (Reaching(m)' <=> Reaching(m))
      BY <1>3 DEF Busy, Reaching
    <3> QED
      BY <1>3, <1>7, <1>8, <3>1, PendingIff
  <2> QED
    BY <1>1, <1>3, <2>1 DEF CleanInv
<1>11. OnePlace'
  <2>1. \A n \in Miners : \A k \in 1..Len(inbox'[n]) :
          \/ k \in 1..Len(inbox[n]) /\ inbox'[n][k] = inbox[n][k]
          \/ n = m /\ k = Len(inbox[m]) + 1 /\ inbox'[n][k] = msg
    BY <1>7
  <2>2. ASSUME NEW n \in Miners, NEW k \in 1..Len(inbox'[n]), NEW u \in Tx, Queues(n, k, u)'
        PROVE  \/ u = tx /\ n = m /\ k = Len(inbox[m]) + 1
               \/ u \in sent /\ k \in 1..Len(inbox[n]) /\ Queues(n, k, u)
    BY <1>1, <1>5, <2>1, <2>2 DEF OnePlace, Queues
  <2>3. ASSUME NEW n \in Miners, NEW k \in 1..Len(inbox'[n]), NEW u \in Tx, Queues(n, k, u)'
        PROVE  /\ u \in sent'
               /\ \A p \in Miners : u \notin acked'[p]
               /\ \A p \in Miners : \A l \in 1..Len(inbox'[p]) :
                    Queues(p, l, u)' => n = p /\ k = l
    <3>1. CASE u = tx
      BY <1>1, <1>2, <1>3, <2>2, <2>3, <3>1 DEF OnePlace
    <3>2. CASE u # tx
      BY <1>1, <1>2, <1>3, <2>2, <2>3, <3>2 DEF OnePlace
    <3> QED
      BY <3>1, <3>2
  <2>4. \A n \in Miners : acked'[n] \subseteq sent'
    BY <1>1, <1>2, <1>3 DEF OnePlace
  <2> QED
    BY <1>1, <1>3, <2>3, <2>4 DEF OnePlace
<1>12. Shape'
  BY <1>1, <1>2, <1>3 DEF Shape
<1>13. \A n \in Miners \ {m} : Same(n)
  BY <1>3, <1>7 DEF Same
<1>14. PoolInv(m)' /\ MiningInv(m)'
  BY <1>3, PoolFrame, MiningFrame DEF IInv, MinerInv
<1> QED
  BY <1>3, <1>9, <1>10, <1>11, <1>12, <1>13, <1>14, Local DEF MinerInv

LEMMA ListenStep ==
  ASSUME IInv, NEW m \in Miners, Listen(m)
  PROVE  IInv'
<1> USE DEF Listen, node0Vars
<1>1. Shape /\ NodeInv /\ OrderInv(m) /\ CleanInv(m) /\ PoolInv(m)
  BY DEF IInv, MinerInv
<1>2. comm'[m].pc \in {"poll", "closing"} /\ ~Busy(m)'
  BY <1>1 DEF SetComm, Shape, Busy, NextPoll, Poll
<1>3. OrderInv(m)'
  BY <1>1, <1>2 DEF OrderInv, Busy, Queued, Reaching, MessageType
<1>4. CleanInv(m)'
  <2>1. acked[m] = {} /\ Len(mempool[m]) = 0
    BY <1>1, OwnElements DEF CleanInv, PoolInv
  <2> QED
    BY <1>2, <2>1 DEF CleanInv, Busy
<1>5. Shape'
  BY <1>1 DEF Shape, SetComm
<1>6. OnePlace'
  BY OnePlaceFrame DEF IInv
<1>7. \A n \in Miners \ {m} : Same(n)
  BY <1>1 DEF Same, SetComm, Shape
<1>8. PoolInv(m)' /\ MiningInv(m)'
  BY PoolFrame, MiningFrame DEF IInv, MinerInv
<1> QED
  BY <1>3, <1>4, <1>5, <1>6, <1>7, <1>8, Local DEF MinerInv

\* The first connection is taken out of the queue.
LEMMA Served ==
  ASSUME Shape, NEW m \in Miners, OrderInv(m), inbox[m] # <<>>,
         inbox' = [inbox EXCEPT ![m] = Tail(@)]
  PROVE  /\ IsSeq(inbox'[m]) /\ Len(inbox[m]) \in Nat /\ Len(inbox[m]) > 0
         /\ Len(inbox'[m]) = Len(inbox[m]) - 1
         /\ \A k \in 1..Len(inbox'[m]) : inbox'[m][k] = inbox[m][k + 1]
         /\ Head(inbox[m]) = inbox[m][1]
         /\ \A n \in Miners \ {m} : inbox'[n] = inbox[n]
         /\ \A k \in 1..Len(inbox'[m]) : inbox'[m][k] \in MessageType
         /\ inbox[m][1] \in MessageType
         /\ \A k \in Queued(m)' : k + 1 \in Queued(m) /\ inbox'[m][k] = inbox[m][k + 1]
         /\ \A k \in Queued(m) :
              k # 1 => k - 1 \in Queued(m)' /\ inbox'[m][k - 1] = inbox[m][k]
<1>1. inbox'[m] = Tail(inbox[m]) /\ \A n \in Miners \ {m} : inbox'[n] = inbox[n]
  BY DEF Shape
<1>2. /\ IsSeq(inbox'[m]) /\ Len(inbox[m]) \in Nat /\ Len(inbox[m]) > 0
      /\ Len(inbox'[m]) = Len(inbox[m]) - 1
      /\ \A k \in 1..Len(inbox'[m]) : inbox'[m][k] = inbox[m][k + 1]
      /\ Head(inbox[m]) = inbox[m][1]
  <2>1. IsSeq(inbox[m])
    BY DEF OrderInv
  <2>2. Len(inbox[m]) \in Nat
    BY <2>1, SeqFacts
  <2>3. PICK s : s = inbox[m]
    OBVIOUS
  <2>4. IsSeq(s) /\ s # <<>>
    BY <2>1, <2>3
  <2>5. /\ IsSeq(Tail(s))
        /\ Len(s) > 0 /\ Len(Tail(s)) = Len(s) - 1
        /\ \A i \in 1..Len(Tail(s)) : Tail(s)[i] = s[i + 1]
        /\ Head(s) = s[1]
    BY ONLY <2>4, SeqTail
  <2> QED
    BY ONLY <1>1, <2>2, <2>3, <2>5
<1>3. 1 \in 1..Len(inbox[m]) /\ \A k \in 1..Len(inbox'[m]) : k + 1 \in 1..Len(inbox[m])
  BY <1>2
<1>4. /\ \A k \in 1..Len(inbox'[m]) : inbox'[m][k] \in MessageType
      /\ inbox[m][1] \in MessageType
  BY <1>2, <1>3 DEF OrderInv
<1>5. \A k \in Queued(m)' : k + 1 \in Queued(m) /\ inbox'[m][k] = inbox[m][k + 1]
  BY <1>2, <1>3 DEF Queued
<1>6. ASSUME NEW k \in Queued(m), k # 1
      PROVE  k - 1 \in Queued(m)' /\ inbox'[m][k - 1] = inbox[m][k]
  <2>1. k \in 1..Len(inbox[m]) /\ inbox[m][k].type = "BLOCK_COMMIT"
    BY DEF Queued
  <2>2. k - 1 \in 1..Len(inbox'[m]) /\ (k - 1) + 1 = k
    BY <1>2, <1>6, <2>1
  <2>3. inbox'[m][k - 1] = inbox[m][k]
    BY <1>2, <2>2
  <2> QED
    BY <2>1, <2>2, <2>3 DEF Queued
<1> QED
  <2>1. \A k \in Queued(m) :
          k # 1 => k - 1 \in Queued(m)' /\ inbox'[m][k - 1] = inbox[m][k]
    BY ONLY <1>6
  <2> QED
    BY <1>1, <1>2, <1>4, <1>5, <2>1

\* What is answered was never answered before, and is not committed yet.
LEMMA TxSubmitStep ==
  ASSUME IInv, NEW m \in Miners, HandleTxSubmit(m)
  PROVE  IInv'
<1> USE DEF node0Vars
<1>1. Shape /\ NodeInv /\ OnePlace /\ OrderInv(m) /\ CleanInv(m) /\ PoolInv(m) /\ MiningInv(m)
  BY DEF IInv, MinerInv
<1>2. PICK tx : tx = Head(inbox[m]).tx
  OBVIOUS
<1> DEFINE Taken == validate_transaction(tx) /\ HasRoom(mempool[m])
<1>3. /\ tx = Head(inbox[m]).tx
      /\ mempool' = IF Taken THEN [mempool EXCEPT ![m] = Append(@, tx)] ELSE mempool
      /\ acked' = IF Taken THEN [acked EXCEPT ![m] = @ \cup {tx}] ELSE acked
  BY <1>2 DEF HandleTxSubmit
<1> HIDE DEF Taken
<1>4. /\ comm[m].pc = "poll" /\ inbox[m] # <<>> /\ Head(inbox[m]).type = "TX_SUBMIT"
      /\ inbox' = [inbox EXCEPT ![m] = Tail(@)]
      /\ SetComm(m, NextPoll(m))
      /\ UNCHANGED <<ledger, node0, sent, mining, tip, restart_mining, shutting_down>>
  BY DEF HandleTxSubmit
<1>5. /\ IsSeq(inbox'[m]) /\ Len(inbox[m]) \in Nat /\ Len(inbox[m]) > 0
      /\ Len(inbox'[m]) = Len(inbox[m]) - 1
      /\ \A k \in 1..Len(inbox'[m]) : inbox'[m][k] = inbox[m][k + 1]
      /\ Head(inbox[m]) = inbox[m][1]
      /\ \A n \in Miners \ {m} : inbox'[n] = inbox[n]
      /\ \A k \in 1..Len(inbox'[m]) : inbox'[m][k] \in MessageType
      /\ inbox[m][1] \in MessageType
      /\ \A k \in Queued(m)' : k + 1 \in Queued(m) /\ inbox'[m][k] = inbox[m][k + 1]
      /\ \A k \in Queued(m) :
           k # 1 => k - 1 \in Queued(m)' /\ inbox'[m][k - 1] = inbox[m][k]
  BY <1>1, <1>4, Served
<1>6. tx \in Tx /\ Queues(m, 1, tx) /\ 1 \in 1..Len(inbox[m]) /\ 1 \notin Queued(m)
  BY <1>3, <1>4, <1>5 DEF MessageType, Queues, Queued
<1>7. /\ \A n \in Miners : tx \notin acked[n]
      /\ tx \in ValidTx => \A i \in 1..Len(ledger) : ~Has(ledger[i], tx)
  BY <1>1, <1>6 DEF OnePlace
<1>8. comm'[m].pc \in {"poll", "closing"} /\ ~Busy(m)' /\ ~Busy(m)
  BY <1>1, <1>4 DEF SetComm, Shape, Busy, NextPoll, Poll
<1>9. OrderInv(m)'
  <2>1. 1 \in Nat /\ comm'[m].pc \in {"starting", "poll", "remove", "commit", "closing", "done"}
    BY <1>8
  <2> QED
    BY <1>1, <1>4, <1>5, <1>8, <2>1, OrderShift
<1>10. \A j : j \in Pending(m) => j \in Pending(m)'
  <2> TAKE j
  <2>1. Reaching(m)' <=> Reaching(m)
    BY <1>4 DEF Reaching
  <2>2. (\E k \in Queued(m) : inbox[m][k].block.index = j) =>
          \E k \in Queued(m)' : inbox'[m][k].block.index = j
    BY <1>5, <1>6
  <2> QED
    BY <1>4, <1>8, <2>1, <2>2, PendingIff
<1>11. Shape'
  BY <1>1, <1>3, <1>4 DEF Shape, SetComm
<1>12. \A n \in Miners \ {m} : Same(n)
  BY <1>1, <1>3, <1>4, <1>5 DEF Same, SetComm, Shape
<1>13. CASE ~Taken
  <2>1. UNCHANGED <<mempool, acked>>
    BY <1>3, <1>13
  <2>2. OnePlace'
    <3>1. PICK A : A = {}
      OBVIOUS
    <3>2. acked'[m] = acked[m] \cup A /\ \A u \in A : u \in Tx /\ Queues(m, 1, u)
      BY <2>1, <3>1
    <3>3. \A n \in Miners \ {m} : inbox'[n] = inbox[n] /\ acked'[n] = acked[n]
      BY <1>12 DEF Same
    <3> QED
      BY <1>1, <1>4, <1>5, <3>2, <3>3, OnePlaceServed
  <2>3. PoolInv(m)' /\ MiningInv(m)'
    BY <1>1, <1>4, <2>1, PoolFrame, MiningFrame
  <2>4. CleanInv(m)'
    BY <1>1, <1>4, <1>8, <1>10, <2>1 DEF CleanInv
  <2> QED
    BY <1>4, <1>9, <1>11, <1>12, <2>2, <2>3, <2>4, Local DEF MinerInv
<1>14. CASE Taken
  <2>1. /\ mempool'[m] = Append(mempool[m], tx) /\ acked'[m] = acked[m] \cup {tx}
        /\ tx \in ValidTx /\ Len(mempool[m]) < MEMPOOL_CAPACITY
    BY <1>1, <1>3, <1>14 DEF Taken, Shape, validate_transaction, HasRoom
  <2>2. OnePlace'
    <3>1. \A u \in {tx} : u \in Tx /\ Queues(m, 1, u)
      BY <1>6
    <3>2. \A n \in Miners \ {m} : inbox'[n] = inbox[n] /\ acked'[n] = acked[n]
      BY <1>12 DEF Same
    <3> QED
      BY <1>1, <1>4, <1>5, <2>1, <3>1, <3>2, OnePlaceServed
  <2>3. /\ mempool[m] \in Seq(acked'[m]) /\ mempool'[m] \in Seq(acked'[m])
        /\ Len(mempool[m]) \in Nat /\ Len(mempool'[m]) = Len(mempool[m]) + 1
        /\ \A k \in 1..Len(mempool[m]) : mempool'[m][k] = mempool[m][k] /\ mempool[m][k] \in acked[m]
        /\ mempool'[m][Len(mempool[m]) + 1] = tx
    BY <1>1, <2>1 DEF PoolInv
  <2>4. \A k \in 1..Len(mempool'[m]) :
          \/ k \in 1..Len(mempool[m]) /\ mempool'[m][k] = mempool[m][k]
          \/ k = Len(mempool'[m]) /\ mempool'[m][k] = tx
    BY <2>3
  <2>5. \A i \in 1..Len(ledger) : ~Has(ledger[i], tx)
    BY <1>7, <2>1
  <2>6. PoolInv(m)'
    <3>1. acked'[m] \subseteq ValidTx \cap Tx
      BY <1>1, <1>6, <2>1 DEF PoolInv
    <3>2. Len(mempool'[m]) <= MEMPOOL_CAPACITY
      BY <2>1, <2>3, CapacityAssumption
    <3>3. \A k, l \in 1..Len(mempool'[m]) : mempool'[m][k] = mempool'[m][l] => k = l
      BY <1>1, <1>7, <2>3, <2>4 DEF PoolInv
    <3>4. ASSUME NEW u \in acked'[m]
          PROVE  \/ \E k \in 1..Len(mempool'[m]) : mempool'[m][k] = u
                 \/ \E i \in 1..Len(ledger) : Has(ledger[i], u)
      <4>1. CASE u = tx
        <5>1. Len(mempool[m]) + 1 \in 1..Len(mempool'[m])
          BY <2>3
        <5> QED
          BY <2>3, <4>1, <5>1
      <4>2. CASE u \in acked[m]
        <5>1. \A k \in 1..Len(mempool[m]) : k \in 1..Len(mempool'[m])
          BY <2>3
        <5> QED
          BY <1>1, <2>3, <4>2, <5>1 DEF PoolInv
      <4> QED
        BY <2>1, <3>4, <4>1, <4>2
    <3>5. \A i, j \in 1..Len(ledger) : \A u \in acked'[m] :
            Has(ledger[i], u) /\ Has(ledger[j], u) => i = j
      BY <1>1, <2>1, <2>5 DEF PoolInv
    <3>6. \A i \in 1..Len(ledger) : \A k, l \in 1..Len(ledger[i].transactions) :
            ledger[i].transactions[k] = ledger[i].transactions[l]
              /\ ledger[i].transactions[k] \in acked'[m] => k = l
      BY <1>1, <2>1, <2>5 DEF PoolInv, Has
    <3> QED
      BY <1>4, <2>3, <3>1, <3>2, <3>3, <3>4, <3>5, <3>6 DEF PoolInv
  <2>7. CleanInv(m)'
    <3>1. ASSUME NEW k \in 1..Len(mempool'[m]), NEW i \in 1..Len(ledger),
                 Has(ledger[i], mempool'[m][k])
          PROVE  /\ tip[m].next_index < i
                 /\ m < MAX_PROBE_PEERS => i - 1 \in Pending(m)'
      <4>1. k \in 1..Len(mempool[m]) /\ Has(ledger[i], mempool[m][k])
        BY <2>4, <2>5, <3>1
      <4> QED
        BY <1>1, <1>4, <1>10, <4>1 DEF CleanInv
    <3> QED
      BY <1>4, <1>8, <3>1 DEF CleanInv
  <2>8. MiningInv(m)'
    <3>1. \A k \in 1..Len(mempool'[m]) : \A i \in 1..Len(ledger) :
            Has(ledger[i], mempool'[m][k]) => k \in 1..Len(mempool[m]) /\ mempool'[m][k] = mempool[m][k]
      BY <2>4, <2>5
    <3>2. \A i \in 1..Len(ledger) : \A u \in acked'[m] : Has(ledger[i], u) => u \in acked[m]
      BY <2>1, <2>5
    <3>3. \A s \in Seq(acked[m]) : s \in Seq(acked'[m])
      BY <2>1
    <3> QED
      BY <1>1, <1>4, <3>1, <3>2, <3>3 DEF MiningInv, Candidate, IsTip
  <2> QED
    BY <1>4, <1>9, <1>11, <1>12, <2>2, <2>6, <2>7, <2>8, Local DEF MinerInv
<1> QED
  BY <1>13, <1>14

LEMMA NextRoundFacts ==
  ASSUME NEW b, NEW pool, NEW i
  PROVE  /\ NextRound(b, pool, i).pc \in {"remove", "commit"}
         /\ NextRound(b, pool, i).block = b
         /\ NextRound(b, pool, i).pc = "remove" =>
              i <= Len(pool) /\ NextRound(b, pool, i).slot = i
         /\ NextRound(b, pool, i).pc = "commit" => ~(i <= Len(pool))
  BY DEF NextRound

LEMMA BlockCommitStep ==
  ASSUME IInv, NEW m \in Miners, HandleBlockCommit(m)
  PROVE  IInv'
<1> USE DEF node0Vars
<1>1. Shape /\ NodeInv /\ OnePlace /\ OrderInv(m) /\ CleanInv(m) /\ PoolInv(m) /\ MiningInv(m)
  BY DEF IInv, MinerInv
<1>2. PICK b : b = Head(inbox[m]).block
  OBVIOUS
<1>3. /\ comm[m].pc = "poll" /\ inbox[m] # <<>> /\ Head(inbox[m]).type = "BLOCK_COMMIT"
      /\ inbox' = [inbox EXCEPT ![m] = Tail(@)]
      /\ SetComm(m, NextRound(b, mempool[m], 1))
      /\ UNCHANGED <<ledger, node0, sent, mining, mempool, tip, restart_mining,
                     shutting_down, acked>>
  BY <1>2 DEF HandleBlockCommit
<1>4. /\ IsSeq(inbox'[m]) /\ Len(inbox[m]) \in Nat /\ Len(inbox[m]) > 0
      /\ Len(inbox'[m]) = Len(inbox[m]) - 1
      /\ \A k \in 1..Len(inbox'[m]) : inbox'[m][k] = inbox[m][k + 1]
      /\ Head(inbox[m]) = inbox[m][1]
      /\ \A n \in Miners \ {m} : inbox'[n] = inbox[n]
      /\ \A k \in 1..Len(inbox'[m]) : inbox'[m][k] \in MessageType
      /\ inbox[m][1] \in MessageType
      /\ \A k \in Queued(m)' : k + 1 \in Queued(m) /\ inbox'[m][k] = inbox[m][k + 1]
      /\ \A k \in Queued(m) :
           k # 1 => k - 1 \in Queued(m)' /\ inbox'[m][k - 1] = inbox[m][k]
  BY <1>1, <1>3, Served
<1>5. 1 \in Queued(m) /\ b = inbox[m][1].block
  BY <1>2, <1>3, <1>4 DEF Queued
<1>6. /\ comm'[m] = NextRound(b, mempool[m], 1)
      /\ \A n \in Miners \ {m} : comm'[n] = comm[n]
  BY <1>1, <1>3 DEF SetComm, Shape
<1>7. /\ comm'[m].pc \in {"remove", "commit"} /\ comm'[m].block = b
      /\ comm'[m].pc = "remove" => 1 <= Len(mempool[m]) /\ comm'[m].slot = 1
      /\ comm'[m].pc = "commit" => ~(1 <= Len(mempool[m]))
      /\ Busy(m)' /\ ~Busy(m)
  BY <1>3, <1>6, NextRoundFacts DEF Busy
<1>8. OrderInv(m)'
  <2>1. 1 \in Nat /\ comm'[m].pc \in {"starting", "poll", "remove", "commit", "closing", "done"}
    BY <1>7
  <2>2. \E i \in 1..Len(ledger) : comm'[m].block = ledger[i]
    BY <1>1, <1>5, <1>7, QueuedBlock
  <2>3. ~(m >= MAX_PROBE_PEERS)
    BY <1>1, <1>5 DEF OrderInv
  <2>4. \A k \in Queued(m) : k > 1 => comm'[m].block.index < inbox[m][k].block.index
    BY <1>1, <1>5, <1>7 DEF OrderInv
  <2>5. Reaching(m) => comm'[m].block.index < node0.block.index
    BY <1>1, <1>5, <1>7 DEF OrderInv
  <2> QED
    BY <1>1, <1>3, <1>4, <2>1, <2>2, <2>3, <2>4, <2>5, OrderShift
<1>9. \A j : j \in Pending(m) => j \in Pending(m)'
  <2> TAKE j
  <2>1. Reaching(m)' <=> Reaching(m)
    BY <1>3 DEF Reaching
  <2>2. (\E k \in Queued(m) : inbox[m][k].block.index = j) =>
          \/ \E k \in Queued(m)' : inbox'[m][k].block.index = j
          \/ Busy(m)' /\ comm'[m].block.index = j
    BY <1>4, <1>5, <1>7
  <2> QED
    BY <1>3, <1>7, <2>1, <2>2, PendingIff
<1>10. CleanInv(m)'
  <2>1. Len(mempool[m]) \in Nat
    BY <1>1, OwnElements DEF PoolInv
  <2>2. /\ comm'[m].pc = "remove" => comm'[m].slot \in 1..Len(mempool[m])
        /\ comm'[m].pc = "remove" =>
             \A k \in 1..(comm'[m].slot - 1) : ~Has(comm'[m].block, mempool[m][k])
        /\ comm'[m].pc = "commit" =>
             \A k \in 1..Len(mempool[m]) : ~Has(comm'[m].block, mempool[m][k])
    BY <1>7, <2>1
  <2> QED
    BY <1>1, <1>3, <1>7, <1>9, <2>2 DEF CleanInv
<1>11. Shape'
  BY <1>1, <1>3 DEF Shape, SetComm
<1>12. \A n \in Miners \ {m} : Same(n)
  BY <1>3, <1>4, <1>6 DEF Same
<1>13. OnePlace'
  <2>1. PICK A : A = {}
    OBVIOUS
  <2>2. acked'[m] = acked[m] \cup A /\ \A u \in A : u \in Tx /\ Queues(m, 1, u)
    BY <1>3, <2>1
  <2>3. \A n \in Miners \ {m} : inbox'[n] = inbox[n] /\ acked'[n] = acked[n]
    BY <1>12 DEF Same
  <2> QED
    BY <1>1, <1>3, <1>4, <2>2, <2>3, OnePlaceServed
<1>14. PoolInv(m)' /\ MiningInv(m)'
  BY <1>1, <1>3, PoolFrame, MiningFrame
<1> QED
  BY <1>3, <1>8, <1>10, <1>11, <1>12, <1>13, <1>14, Local DEF MinerInv

\* A slot gets the last transaction: every other transaction is kept.
LEMMA SwapOutFacts ==
  ASSUME NEW S, NEW pool \in Seq(S), NEW i \in 1..Len(pool)
  PROVE  /\ SwapOut(pool, i) \in Seq(S)
         /\ Len(SwapOut(pool, i)) = Len(pool) - 1
         /\ \A k \in 1..(Len(pool) - 1) :
              SwapOut(pool, i)[k] = IF k = i THEN pool[Len(pool)] ELSE pool[k]
<1>1. Len(pool) \in Nat /\ Len(pool) - 1 \in Nat /\ \A k \in 1..Len(pool) : pool[k] \in S
  BY OwnElements
<1>2. PICK n \in Nat : n = Len(pool) - 1
  BY <1>1
<1>3. SwapOut(pool, i) \in [1..n -> S]
  BY <1>1, <1>2 DEF SwapOut
<1>4. SwapOut(pool, i) \in Seq(S)
  BY <1>2, <1>3, SeqDef
<1>5. Len(SwapOut(pool, i)) = n
  BY <1>3, <1>4, <1>2, LenProperties
<1> QED
  BY <1>1, <1>2, <1>4, <1>5 DEF SwapOut

\* A round of the cleaning takes out only what the block holds, and what it
\* has been past holds nothing of the block.
LEMMA RemoveStep ==
  ASSUME IInv, NEW m \in Miners, mempool_remove_included(m)
  PROVE  IInv'
<1> USE DEF node0Vars
<1>1. Shape /\ NodeInv /\ OnePlace /\ OrderInv(m) /\ CleanInv(m) /\ PoolInv(m) /\ MiningInv(m)
  BY DEF IInv, MinerInv
<1>2. /\ comm[m].pc = "remove"
      /\ UNCHANGED <<ledger, node0, sent, inbox, mining, tip, restart_mining,
                     shutting_down, acked>>
  BY DEF mempool_remove_included
<1>3. PICK b, slot, pool : b = comm[m].block /\ slot = comm[m].slot /\ pool = mempool[m]
  OBVIOUS
<1>4. /\ pool \in Seq(acked[m]) /\ Len(pool) \in Nat /\ slot \in 1..Len(pool)
      /\ \A k \in 1..(slot - 1) : ~Has(b, pool[k])
      /\ \A k \in 1..Len(pool) : pool[k] \in acked[m]
  BY <1>1, <1>2, <1>3, OwnElements DEF PoolInv, CleanInv
<1>5. PICK i0 \in 1..Len(ledger) : b = ledger[i0]
  BY <1>1, <1>2, <1>3 DEF OrderInv, Busy
<1>6. ASSUME NEW i, NEW new, SetComm(m, NextRound(b, new, i)), mempool'[m] = new,
             \A n \in Miners \ {m} : mempool'[n] = mempool[n],
             mempool' = [n \in Miners |-> mempool'[n]],
             new \in Seq(acked[m]), Len(new) \in Nat, Len(new) <= Len(pool),
             \A k, l \in 1..Len(new) : new[k] = new[l] => k = l,
             \A k \in 1..Len(new) : \E l \in 1..Len(pool) : new[k] = pool[l],
             \A l \in 1..Len(pool) :
               (\E k \in 1..Len(new) : new[k] = pool[l]) \/ Has(b, pool[l]),
             i \in Nat, i >= 1, \A k \in 1..(i - 1) : k <= Len(new) => ~Has(b, new[k])
      PROVE  IInv'
  <2>1. comm'[m] = NextRound(b, new, i) /\ \A n \in Miners \ {m} : comm'[n] = comm[n]
    BY <1>1, <1>6 DEF SetComm, Shape
  <2>2. /\ comm'[m].pc \in {"remove", "commit"} /\ comm'[m].block = b
        /\ comm'[m].pc = "remove" => i <= Len(new) /\ comm'[m].slot = i
        /\ comm'[m].pc = "commit" => ~(i <= Len(new))
        /\ Busy(m)' /\ Busy(m)
    BY <1>2, <2>1, NextRoundFacts DEF Busy
  <2>3. OrderInv(m)'
    <3>1. comm'[m].block = comm[m].block
      BY <1>3, <2>2
    <3>2. comm'[m].pc \in {"starting", "poll", "remove", "commit", "closing", "done"}
      BY <2>2
    <3>3. (Reaching(m)' <=> Reaching(m)) /\ Queued(m)' = Queued(m) /\ MessageType' = MessageType
      BY <1>2 DEF Reaching, Queued, MessageType
    <3> QED
      BY <1>1, <1>2, <2>2, <3>1, <3>2, <3>3 DEF OrderInv
  <2>4. PoolInv(m)'
    <3>1. ASSUME NEW tx \in acked[m]
          PROVE  \/ \E k \in 1..Len(new) : new[k] = tx
                 \/ \E j \in 1..Len(ledger) : Has(ledger[j], tx)
      <4>1. CASE \E l \in 1..Len(pool) : pool[l] = tx
        BY <1>5, <1>6, <4>1
      <4> QED
        BY <1>1, <1>3, <4>1 DEF PoolInv
    <3>2. Len(new) <= MEMPOOL_CAPACITY
      BY <1>1, <1>3, <1>4, <1>6, CapacityAssumption DEF PoolInv
    <3> QED
      BY <1>1, <1>2, <1>6, <3>1, <3>2 DEF PoolInv
  <2>5. Pending(m)' = Pending(m)
    <3>1. comm'[m].block = comm[m].block
      BY <1>3, <2>2
    <3> QED
      BY <1>2, <2>2, <3>1 DEF Pending
  <2>6. CleanInv(m)'
    <3>1. ASSUME NEW k \in 1..Len(new), NEW j \in 1..Len(ledger), Has(ledger[j], new[k])
          PROVE  tip[m].next_index < j /\ (m < MAX_PROBE_PEERS => j - 1 \in Pending(m))
      <4>1. PICK l \in 1..Len(pool) : new[k] = pool[l]
        BY <1>6
      <4> QED
        BY <1>1, <1>2, <1>3, <3>1, <4>1 DEF CleanInv
    <3>2. comm'[m].pc = "remove" =>
            /\ comm'[m].slot \in 1..Len(new)
            /\ \A k \in 1..(comm'[m].slot - 1) : ~Has(b, new[k])
      <4> SUFFICES ASSUME comm'[m].pc = "remove"
                   PROVE  i \in 1..Len(new) /\ \A k \in 1..(i - 1) : ~Has(b, new[k])
        BY <2>2
      <4>1. i \in 1..Len(new)
        BY <1>6, <2>2
      <4>2. \A k \in 1..(i - 1) : k <= Len(new)
        BY <1>6, <4>1
      <4> QED
        BY <1>6, <4>1, <4>2
    <3>3. comm'[m].pc = "commit" => \A k \in 1..Len(new) : ~Has(b, new[k])
      <4> SUFFICES ASSUME comm'[m].pc = "commit", NEW k \in 1..Len(new)
                   PROVE  ~Has(b, new[k])
        OBVIOUS
      <4>1. k \in 1..(i - 1) /\ k <= Len(new)
        BY <1>6, <2>2
      <4> QED
        BY <1>6, <4>1
    <3> QED
      BY <1>2, <1>6, <2>2, <2>5, <3>1, <3>2, <3>3 DEF CleanInv
  <2>7. MiningInv(m)'
    <3>1. \A k \in 1..Len(new) : \E l \in 1..Len(mempool[m]) : new[k] = mempool[m][l]
      BY <1>3, <1>6
    <3>2. mining[m].pc = "snapshot" =>
            \A k \in 1..Len(new) : \A j \in 1..Len(ledger) :
              Has(ledger[j], new[k]) => mining[m].tip.next_index < j
      BY <1>1, <3>1 DEF MiningInv
    <3> QED
      BY <1>1, <1>2, <1>6, <3>2 DEF MiningInv, Candidate, IsTip
  <2>8. Shape'
    BY <1>1, <1>2, <1>6 DEF Shape, SetComm
  <2>9. OnePlace'
    BY <1>1, <1>2, OnePlaceFrame
  <2>10. \A n \in Miners \ {m} : Same(n)
    BY <1>2, <1>6, <2>1 DEF Same
  <2> QED
    BY <1>2, <2>3, <2>4, <2>6, <2>7, <2>8, <2>9, <2>10, Local DEF MinerInv
<1>7. Included(m) <=> Has(b, pool[slot])
  BY <1>3 DEF Included, Has
<1>8. CASE Included(m)
  <2>1. PICK new : new = SwapOut(pool, slot)
    OBVIOUS
  <2>2. /\ mempool' = [mempool EXCEPT ![m] = new]
        /\ SetComm(m, NextRound(b, new, slot))
    BY <1>3, <1>8, <2>1 DEF mempool_remove_included
  <2>3. /\ mempool'[m] = new /\ \A n \in Miners \ {m} : mempool'[n] = mempool[n]
        /\ mempool' = [n \in Miners |-> mempool'[n]]
    BY <1>1, <2>2 DEF Shape
  <2>4. /\ new \in Seq(acked[m]) /\ Len(new) = Len(pool) - 1
        /\ \A k \in 1..(Len(pool) - 1) :
             new[k] = IF k = slot THEN pool[Len(pool)] ELSE pool[k]
    BY <1>4, <2>1, SwapOutFacts
  <2>5. Len(new) \in Nat /\ Len(new) <= Len(pool) /\ slot \in Nat /\ slot >= 1
    BY <1>4, <2>4
  <2>6. \A k, l \in 1..Len(pool) : pool[k] = pool[l] => k = l
    BY <1>1, <1>3 DEF PoolInv
  <2>7. \A k, l \in 1..Len(new) : new[k] = new[l] => k = l
    <3> SUFFICES ASSUME NEW k \in 1..Len(new), NEW l \in 1..Len(new), new[k] = new[l]
                 PROVE  k = l
      OBVIOUS
    <3>1. PICK k0, l0 : /\ k0 = IF k = slot THEN Len(pool) ELSE k
                        /\ l0 = IF l = slot THEN Len(pool) ELSE l
      OBVIOUS
    <3>2. k0 \in 1..Len(pool) /\ l0 \in 1..Len(pool)
      BY <1>4, <2>4, <3>1
    <3>3. new[k] = pool[k0] /\ new[l] = pool[l0]
      BY <2>4, <3>1
    <3>4. k0 = l0
      BY <2>6, <3>2, <3>3
    <3>5. k # Len(pool) /\ l # Len(pool)
      BY <1>4, <2>4
    <3> QED
      BY <3>1, <3>4, <3>5
  <2>8. \A k \in 1..Len(new) : \E l \in 1..Len(pool) : new[k] = pool[l]
    <3> TAKE k \in 1..Len(new)
    <3>1. k \in 1..Len(pool) /\ Len(pool) \in 1..Len(pool)
      BY <1>4, <2>4
    <3> QED
      BY <2>4, <3>1
  <2>9. \A l \in 1..Len(pool) : (\E k \in 1..Len(new) : new[k] = pool[l]) \/ Has(b, pool[l])
    <3> TAKE l \in 1..Len(pool)
    <3>1. CASE l = slot
      BY <1>7, <1>8, <3>1
    <3>2. CASE l # slot /\ l = Len(pool)
      <4>1. slot \in 1..Len(new) /\ new[slot] = pool[l]
        BY <1>4, <2>4, <3>2
      <4> QED
        BY <4>1
    <3>3. CASE l # slot /\ l # Len(pool)
      <4>1. l \in 1..Len(new) /\ new[l] = pool[l]
        BY <1>4, <2>4, <3>3
      <4> QED
        BY <4>1
    <3> QED
      BY <3>1, <3>2, <3>3
  <2>10. \A k \in 1..(slot - 1) : k <= Len(new) => ~Has(b, new[k])
    <3> TAKE k \in 1..(slot - 1)
    <3>1. k \in 1..(Len(pool) - 1) /\ k # slot
      BY <1>4
    <3>2. new[k] = pool[k]
      BY <2>4, <3>1
    <3> QED
      BY <1>4, <3>2
  <2> QED
    BY <1>6, <2>2, <2>3, <2>4, <2>5, <2>7, <2>8, <2>9, <2>10
<1>9. CASE ~Included(m)
  <2>1. mempool' = mempool /\ SetComm(m, NextRound(b, pool, slot + 1))
    BY <1>3, <1>9 DEF mempool_remove_included
  <2>2. /\ mempool'[m] = pool /\ \A n \in Miners \ {m} : mempool'[n] = mempool[n]
        /\ mempool' = [n \in Miners |-> mempool'[n]]
    BY <1>1, <1>3, <2>1 DEF Shape
  <2>3. \A k, l \in 1..Len(pool) : pool[k] = pool[l] => k = l
    BY <1>1, <1>3 DEF PoolInv
  <2>4. slot + 1 \in Nat /\ slot + 1 >= 1 /\ Len(pool) <= Len(pool)
    BY <1>4
  <2>5. \A k \in 1..((slot + 1) - 1) : k <= Len(pool) => ~Has(b, pool[k])
    <3> TAKE k \in 1..((slot + 1) - 1)
    <3>1. k \in 1..(slot - 1) \/ k = slot
      BY <1>4
    <3> QED
      BY <1>4, <1>7, <1>9, <3>1
  <2> QED
    BY <1>4, <1>6, <2>1, <2>2, <2>3, <2>4, <2>5
<1> QED
  BY <1>8, <1>9

\* The commits that are still to come are later ones, and the pool holds
\* nothing of this one: the new tip does not pass a pooled transaction.
LEMMA AdvanceTipStep ==
  ASSUME IInv, NEW m \in Miners, AdvanceTip(m)
  PROVE  IInv'
<1> USE DEF node0Vars
<1>1. Shape /\ NodeInv /\ OnePlace /\ OrderInv(m) /\ CleanInv(m) /\ PoolInv(m) /\ MiningInv(m)
  BY DEF IInv, MinerInv
<1>2. /\ comm[m].pc = "commit" /\ SetComm(m, NextPoll(m))
      /\ UNCHANGED <<ledger, node0, sent, inbox, mining, mempool, shutting_down, acked>>
  BY DEF AdvanceTip
<1>3. PICK b : b = comm[m].block
  OBVIOUS
<1>4. IF b.index >= tip[m].next_index
        THEN /\ tip' = [tip EXCEPT ![m] = TipAfter(b)]
             /\ restart_mining' = [restart_mining EXCEPT ![m] = TRUE]
        ELSE UNCHANGED <<tip, restart_mining>>
  BY <1>3 DEF AdvanceTip
<1>5. PICK i0 \in 1..Len(ledger) : b = ledger[i0]
  BY <1>1, <1>2, <1>3 DEF OrderInv, Busy
<1>6. b.index = i0 - 1 /\ Len(ledger) \in Nat
  BY <1>1, <1>5, SeqFacts DEF NodeInv
<1>7. /\ tip'[m] = IF b.index >= tip[m].next_index THEN TipAfter(b) ELSE tip[m]
      /\ restart_mining'[m] \in BOOLEAN
      /\ \A n \in Miners \ {m} : tip'[n] = tip[n] /\ restart_mining'[n] = restart_mining[n]
  BY <1>1, <1>4 DEF Shape, MiningInv
<1>8. comm'[m].pc \in {"poll", "closing"} /\ ~Busy(m)' /\ Busy(m)
  BY <1>1, <1>2 DEF SetComm, Shape, Busy, NextPoll, Poll
<1>9. OrderInv(m)'
  BY <1>1, <1>2, <1>8 DEF OrderInv, Busy, Queued, Reaching, MessageType
<1>10. IsTip(tip[m])'
  <2>1. IsTip(tip[m])
    BY <1>1 DEF MiningInv
  <2> QED
    BY <1>2, <1>5, <1>7, <2>1 DEF IsTip
<1>11. MiningInv(m)'
  BY <1>1, <1>2, <1>7, <1>10 DEF MiningInv, Candidate, IsTip
<1>12. ASSUME NEW k \in 1..Len(mempool[m]), NEW i \in 1..Len(ledger),
              Has(ledger[i], mempool[m][k])
       PROVE  /\ tip'[m].next_index < i
              /\ i - 1 \in Pending(m)'
  <2>1. m \in Nat /\ ~(m >= MAX_PROBE_PEERS)
    BY <1>1, <1>8, MinersAssumption DEF OrderInv, Miners
  <2>2. tip[m].next_index < i /\ i - 1 \in Pending(m)
    BY <1>1, <1>2, <1>12, <2>1, CapacityAssumption DEF CleanInv
  <2>3. i # i0
    BY <1>1, <1>2, <1>3, <1>5, <1>12 DEF CleanInv
  <2>4. b.index # i - 1
    BY <1>6, <2>3
  <2>5. /\ \/ \E l \in Queued(m) : inbox[m][l].block.index = i - 1
           \/ Reaching(m) /\ node0.block.index = i - 1
        /\ Reaching(m)' <=> Reaching(m)
        /\ Queued(m)' = Queued(m)
    BY <1>2, <1>3, <2>2, <2>4, PendingIff DEF Reaching, Queued
  <2>6. b.index < i - 1
    BY <1>1, <1>3, <1>8, <2>5 DEF OrderInv
  <2>7. TipAfter(b).next_index = i0
    BY <1>6 DEF TipAfter
  <2>8. tip'[m].next_index < i
    BY <1>6, <1>7, <2>2, <2>6, <2>7
  <2>9. i - 1 \in Pending(m)'
    BY <1>2, <2>5, PendingIff
  <2> QED
    BY <2>8, <2>9
<1>13. CleanInv(m)'
  BY <1>2, <1>8, <1>12 DEF CleanInv
<1>14. Shape'
  BY <1>1, <1>2, <1>4 DEF Shape, SetComm
<1>15. OnePlace'
  BY <1>1, <1>2, OnePlaceFrame
<1>16. \A n \in Miners \ {m} : Same(n)
  BY <1>1, <1>2, <1>7 DEF Same, SetComm, Shape
<1>17. PoolInv(m)'
  BY <1>1, <1>2, PoolFrame
<1> QED
  BY <1>2, <1>9, <1>11, <1>13, <1>14, <1>15, <1>16, <1>17, Local DEF MinerInv

\* Connections that break give their payloads back.
LEMMA CommExitStep ==
  ASSUME IInv, NEW m \in Miners, CommExit(m)
  PROVE  IInv'
<1> USE DEF node0Vars
<1>1. Shape /\ NodeInv /\ OnePlace /\ OrderInv(m) /\ CleanInv(m) /\ PoolInv(m) /\ MiningInv(m)
  BY DEF IInv, MinerInv
<1>2. /\ SetComm(m, [pc |-> "done"])
      /\ inbox' = [inbox EXCEPT ![m] = <<>>]
      /\ sent' = {tx \in sent : \A k \in 1..Len(inbox[m]) :
                    inbox[m][k].type = "TX_SUBMIT" => inbox[m][k].tx # tx}
      /\ UNCHANGED <<ledger, node0, mining, mempool, tip, restart_mining, shutting_down, acked>>
  BY DEF CommExit
<1>3. /\ comm'[m].pc = "done" /\ inbox'[m] = <<>>
      /\ \A n \in Miners \ {m} : comm'[n] = comm[n] /\ inbox'[n] = inbox[n]
  BY <1>1, <1>2 DEF Shape, SetComm
<1>4. /\ IsSeq(inbox'[m]) /\ Len(inbox'[m]) = 0 /\ 1..Len(inbox'[m]) = {}
      /\ Queued(m)' = {} /\ ~Busy(m)'
  BY <1>3, SeqEmpty DEF Queued, Busy
<1>5. OrderInv(m)'
  BY <1>1, <1>2, <1>3, <1>4 DEF OrderInv
<1>6. CleanInv(m)'
  BY <1>1, <1>2, <1>3 DEF CleanInv
<1>7. OnePlace'
  <2>1. \A n \in Miners : \A k \in 1..Len(inbox'[n]) :
          n # m /\ k \in 1..Len(inbox[n]) /\ inbox'[n][k] = inbox[n][k]
    BY <1>3, <1>4
  <2>2. ASSUME NEW n \in Miners, NEW tx \in acked[n]
        PROVE  tx \in sent'
    <3>1. tx \in sent
      BY <1>1 DEF OnePlace
    <3>2. tx \in Tx
      BY DEF IInv, MinerInv, PoolInv
    <3>3. ASSUME NEW k \in 1..Len(inbox[m]), inbox[m][k].type = "TX_SUBMIT"
          PROVE  inbox[m][k].tx # tx
      BY <1>1, <3>2, <3>3 DEF OnePlace, Queues
    <3> QED
      BY <1>2, <3>1, <3>3
  <2>3. ASSUME NEW n \in Miners, NEW k \in 1..Len(inbox'[n]), NEW tx \in Tx, Queues(n, k, tx)'
        PROVE  /\ tx \in sent'
               /\ \A p \in Miners : tx \notin acked'[p]
               /\ \A p \in Miners : \A l \in 1..Len(inbox'[p]) :
                    Queues(p, l, tx)' => n = p /\ k = l
    <3>1. n # m /\ k \in 1..Len(inbox[n]) /\ Queues(n, k, tx)
      BY <2>1, <2>3 DEF Queues
    <3>2. \A p \in Miners : \A l \in 1..Len(inbox'[p]) :
            Queues(p, l, tx)' => l \in 1..Len(inbox[p]) /\ Queues(p, l, tx)
      BY <2>1 DEF Queues
    <3>3. tx \in sent /\ \A l \in 1..Len(inbox[m]) : ~Queues(m, l, tx)
      BY <1>1, <3>1 DEF OnePlace
    <3>4. tx \in sent'
      BY <1>2, <3>3 DEF Queues
    <3> QED
      BY <1>1, <1>2, <3>1, <3>2, <3>4 DEF OnePlace
  <2> QED
    BY <1>1, <1>2, <2>2, <2>3 DEF OnePlace
<1>8. Shape'
  BY <1>1, <1>2 DEF Shape, SetComm
<1>9. \A n \in Miners \ {m} : Same(n)
  BY <1>2, <1>3 DEF Same
<1>10. PoolInv(m)' /\ MiningInv(m)'
  BY <1>1, <1>2, PoolFrame, MiningFrame
<1> QED
  BY <1>2, <1>5, <1>6, <1>7, <1>8, <1>9, <1>10, Local DEF MinerInv

-----------------------------------------------------------------------------
(* Node 0.                                                                 *)

\* A step of node 0 that m's queue does not feel.
LEMMA NodeFrame ==
  ASSUME NEW m \in Miners, OrderInv(m), CleanInv(m), inbox'[m] = inbox[m],
         comm'[m] = comm[m], acked'[m] = acked[m], mempool'[m] = mempool[m],
         tip'[m] = tip[m], UNCHANGED ledger,
         Reaching(m)' => Reaching(m) /\ node0'.block = node0.block,
         m < MAX_PROBE_PEERS /\ comm[m].pc \in {"poll", "remove", "commit"} =>
           (Reaching(m) => Reaching(m)')
  PROVE  OrderInv(m)' /\ CleanInv(m)'
<1>1. (Busy(m)' <=> Busy(m)) /\ Queued(m)' = Queued(m) /\ MessageType' = MessageType
  BY DEF Busy, Queued, MessageType
<1>2. OrderInv(m)'
  BY <1>1 DEF OrderInv
<1>3. m < MAX_PROBE_PEERS /\ comm[m].pc \in {"poll", "remove", "commit"} =>
        \A j : j \in Pending(m) => j \in Pending(m)'
  BY <1>1, PendingIff
<1>4. CleanInv(m)'
  BY <1>3 DEF CleanInv
<1> QED
  BY <1>2, <1>4

LEMMA NodeStartsStep ==
  ASSUME IInv, NodeStarts
  PROVE  IInv'
<1> USE DEF NodeStarts, commVars
<1>1. Shape /\ NodeInv /\ OnePlace
  BY DEF IInv
<1>2. node0.pc = "starting" /\ node0'.pc = "free"
  BY DEF Free
<1>3. NodeInv'
  BY <1>1, <1>2 DEF NodeInv
<1>4. OnePlace'
  BY <1>1, OnePlaceFrame
<1>5. Shape'
  BY <1>1 DEF Shape
<1>6. ASSUME NEW n \in Miners PROVE MinerInv(n)'
  <2>1. OrderInv(n) /\ PoolInv(n) /\ CleanInv(n) /\ MiningInv(n)
    BY DEF IInv, MinerInv
  <2>2. ~Reaching(n)' /\ ~Reaching(n)
    BY <1>2 DEF Reaching
  <2>3. OrderInv(n)' /\ CleanInv(n)'
    BY <2>1, <2>2, NodeFrame
  <2> QED
    BY <2>1, <2>3, PoolFrame, MiningFrame DEF MinerInv
<1> QED
  BY <1>3, <1>4, <1>5, <1>6 DEF IInv

\* One connection of the broadcast: the queue of one miner grows.
LEMMA BroadcastStep ==
  ASSUME IInv, Broadcast
  PROVE  IInv'
<1>1. Shape /\ NodeInv /\ OnePlace
  BY DEF IInv
<1>2. /\ node0.pc = "broadcast" /\ node0.peer < MAX_PROBE_PEERS
      /\ node0' = [node0 EXCEPT !.peer = @ + 1]
      /\ UNCHANGED <<ledger, sent, comm, mining, mempool, tip, restart_mining,
                     shutting_down, acked>>
  BY DEF Broadcast
<1>3. PICK p : p = node0.peer
  OBVIOUS
<1>4. PICK msg : msg = [type |-> "BLOCK_COMMIT", block |-> node0.block]
  OBVIOUS
<1>5. inbox' = IF p \in Miners /\ Listening(p)
                 THEN [inbox EXCEPT ![p] = Append(@, msg)] ELSE inbox
  BY <1>3, <1>4 DEF Broadcast
<1>6. /\ node0.miner \in Miners /\ p \in 0..MAX_PROBE_PEERS /\ p < MAX_PROBE_PEERS
      /\ Len(ledger) \in Nat /\ Len(ledger) > 0 /\ node0.block = ledger[Len(ledger)]
      /\ node0.block.index = Len(ledger) - 1
  BY <1>1, <1>2, <1>3, SeqFacts DEF NodeInv
<1>7. /\ node0'.pc = "broadcast" /\ node0'.miner = node0.miner
      /\ node0'.block = node0.block /\ node0'.peer = p + 1
  <2>1. node0 = [pc |-> "broadcast", miner |-> node0.miner, block |-> node0.block,
                 peer |-> p]
    BY <1>1, <1>2, <1>3 DEF NodeInv
  <2>2. node0' = [pc |-> "broadcast", miner |-> node0.miner, block |-> node0.block,
                  peer |-> p + 1]
    BY <1>2, <2>1
  <2> QED
    BY <2>2
<1>8. NodeInv'
  <2>1. node0' = [pc |-> "broadcast", miner |-> node0'.miner, block |-> node0'.block,
                  peer |-> node0'.peer]
    <3>1. node0 = [pc |-> "broadcast", miner |-> node0.miner, block |-> node0.block,
                   peer |-> p]
      BY <1>1, <1>2, <1>3 DEF NodeInv
    <3>2. node0' = [pc |-> "broadcast", miner |-> node0.miner, block |-> node0.block,
                    peer |-> p + 1]
      BY <1>2, <3>1
    <3> QED
      BY <1>7, <3>2
  <2>2. p + 1 \in 0..MAX_PROBE_PEERS
    BY <1>6, CapacityAssumption
  <2> QED
    BY <1>1, <1>2, <1>6, <1>7, <2>1, <2>2 DEF NodeInv
<1>9. \A n \in Miners : n \in Nat /\ (Reaching(n) <=> p <= n) /\ (Reaching(n)' <=> p + 1 <= n)
  BY <1>2, <1>3, <1>7, MinersAssumption DEF Reaching, Miners
<1>10. \A n \in Miners \ {p} : inbox'[n] = inbox[n]
  BY <1>1, <1>5 DEF Shape
<1>11. ASSUME NEW n \in Miners, inbox'[n] = inbox[n],
              n = p => comm[n].pc \notin {"poll", "remove", "commit"}
       PROVE  MinerInv(n)'
  <2>1. OrderInv(n) /\ PoolInv(n) /\ CleanInv(n) /\ MiningInv(n)
    BY DEF IInv, MinerInv
  <2>2. Reaching(n)' => Reaching(n) /\ node0'.block = node0.block
    BY <1>6, <1>7, <1>9
  <2>3. comm[n].pc \in {"poll", "remove", "commit"} => (Reaching(n) => Reaching(n)')
    BY <1>6, <1>9, <1>11
  <2>4. OrderInv(n)' /\ CleanInv(n)'
    BY <1>2, <1>11, <2>1, <2>2, <2>3, NodeFrame
  <2> QED
    BY <1>2, <2>1, <2>4, PoolFrame, MiningFrame DEF MinerInv
<1>12. Shape'
  BY <1>1, <1>2, <1>5 DEF Shape
<1>13. CASE ~(p \in Miners /\ Listening(p))
  <2>1. inbox' = inbox
    BY <1>5, <1>13
  <2>2. \A n \in Miners : MinerInv(n)'
    <3> TAKE n \in Miners
    <3>1. n = p => comm[n].pc \notin {"poll", "remove", "commit"}
      BY <1>13 DEF Listening
    <3> QED
      BY <1>11, <2>1, <3>1
  <2>3. OnePlace'
    BY <1>1, <1>2, <2>1, OnePlaceFrame
  <2> QED
    BY <1>8, <1>12, <2>2, <2>3 DEF IInv
<1>14. CASE p \in Miners /\ Listening(p)
  <2>1. OrderInv(p) /\ PoolInv(p) /\ CleanInv(p) /\ MiningInv(p)
    BY <1>14 DEF IInv, MinerInv
  <2>2. inbox' = [inbox EXCEPT ![p] = Append(@, msg)]
    BY <1>5, <1>14
  <2>3. msg.type = "BLOCK_COMMIT" /\ msg.block = node0.block /\ msg \in MessageType
    <3>1. Len(ledger) \in 1..Len(ledger)
      BY <1>6
    <3> QED
      BY <1>4, <1>6, <3>1 DEF MessageType
  <2>4. PICK last :
          /\ Len(inbox[p]) \in Nat /\ last = Len(inbox[p]) + 1 /\ last = Len(inbox'[p])
          /\ IsSeq(inbox'[p]) /\ inbox'[p][last] = msg
          /\ \A k \in 1..Len(inbox'[p]) : k \in 1..Len(inbox[p]) \/ k = last
          /\ \A k \in 1..Len(inbox[p]) : inbox'[p][k] = inbox[p][k]
          /\ Queued(p)' = IF msg.type = "BLOCK_COMMIT" THEN Queued(p) \cup {last} ELSE Queued(p)
          /\ \A k \in Queued(p) : inbox'[p][k] = inbox[p][k] /\ k < last
          /\ \A n \in Miners \ {p} : inbox'[n] = inbox[n]
    BY <1>1, <1>14, <2>1, <2>2, QueueGrows
  <2>5. Queued(p)' = Queued(p) \cup {last}
    BY <2>4, <2>3
  <2>6. Reaching(p) /\ ~Reaching(p)' /\ (Busy(p)' <=> Busy(p))
    BY <1>2, <1>6, <1>9, <1>14 DEF Busy
  <2>7. OrderInv(p)'
    <3>1. \A k \in 1..Len(inbox'[p]) : (inbox[p][k] \in MessageType)'
      BY <1>2, <2>1, <2>4, <2>3 DEF OrderInv, MessageType
    <3>2. \A k, l \in Queued(p)' : k < l => inbox'[p][k].block.index < inbox'[p][l].block.index
      <4> SUFFICES ASSUME NEW k \in Queued(p)', NEW l \in Queued(p)', k < l
                   PROVE  inbox'[p][k].block.index < inbox'[p][l].block.index
        OBVIOUS
      <4>1. k \in Queued(p)
        <5>1. l \in 1..Len(inbox'[p])
          BY DEF Queued
        <5>2. ~(k = last)
          BY <2>4, <5>1
        <5> QED
          BY <2>5, <5>2
      <4>2. CASE l \in Queued(p)
        BY <2>1, <2>4, <4>1, <4>2 DEF OrderInv
      <4>3. CASE l = last
        BY <2>1, <2>4, <2>3, <2>6, <4>1, <4>3 DEF OrderInv
      <4> QED
        BY <2>5, <4>2, <4>3
    <3>3. Busy(p)' => \A k \in Queued(p)' : comm'[p].block.index < inbox'[p][k].block.index
      BY <1>2, <2>1, <2>4, <2>5, <2>3, <2>6 DEF OrderInv
    <3>4. ~(p >= MAX_PROBE_PEERS)
      BY <1>6, CapacityAssumption
    <3> QED
      BY <1>2, <2>1, <2>4, <2>6, <3>1, <3>2, <3>3, <3>4 DEF OrderInv
  <2>8. CleanInv(p)'
    <3>1. \A j : j \in Pending(p) => j \in Pending(p)'
      <4> TAKE j
      <4>1. p \in Miners
        BY <1>14
      <4>2. j \in Pending(p) =>
              \/ \E k \in Queued(p)' : inbox'[p][k].block.index = j
              \/ Busy(p)' /\ comm'[p].block.index = j
        BY <1>2, <2>4, <2>5, <2>3, <2>6, <4>1, PendingIff
      <4> QED
        BY <4>1, <4>2, PendingIff
    <3> QED
      BY <1>2, <2>1, <3>1 DEF CleanInv
  <2>9. MinerInv(p)'
    BY <1>2, <1>14, <2>1, <2>7, <2>8, PoolFrame, MiningFrame DEF MinerInv
  <2>10. \A n \in Miners : MinerInv(n)'
    <3> TAKE n \in Miners
    <3>1. CASE n = p
      BY <2>9, <3>1
    <3>2. CASE n # p
      BY <1>10, <1>11, <3>2
    <3> QED
      BY <3>1, <3>2
  <2>11. OnePlace'
    <3>1. \A n \in Miners : \A k \in 1..Len(inbox'[n]) : \A tx \in Tx :
            Queues(n, k, tx)' => k \in 1..Len(inbox[n]) /\ Queues(n, k, tx)
      BY <1>10, <2>4, <2>3 DEF Queues
    <3> QED
      BY <1>1, <1>2, <3>1 DEF OnePlace
  <2> QED
    BY <1>8, <1>12, <2>10, <2>11 DEF IInv
<1> QED
  BY <1>13, <1>14

\* The lock is released: only miners that no broadcast reaches could notice.
LEMMA BroadcastDoneStep ==
  ASSUME IInv, BroadcastDone
  PROVE  IInv'
<1> USE DEF commVars
<1>1. Shape /\ NodeInv /\ OnePlace
  BY DEF IInv
<1>2. /\ node0.pc = "broadcast" /\ node0.peer = MAX_PROBE_PEERS /\ node0' = Free
      /\ UNCHANGED <<ledger, commVars, mempool, tip, restart_mining, shutting_down>>
  BY DEF BroadcastDone
<1>3. PICK m \in Miners : m = node0.miner
  BY <1>1, <1>2 DEF NodeInv
<1>4. SetMining(m, Loop)
  BY <1>3 DEF BroadcastDone
<1>5. mining'[m] = Loop /\ \A n \in Miners \ {m} : mining'[n] = mining[n]
  BY <1>1, <1>4 DEF SetMining, Shape
<1>6. NodeInv' /\ node0'.pc = "free"
  BY <1>1, <1>2 DEF NodeInv, Free
<1>7. OnePlace'
  BY <1>1, <1>2, OnePlaceFrame
<1>8. Shape'
  BY <1>1, <1>2, <1>4 DEF Shape, SetMining
<1>9. ASSUME NEW n \in Miners PROVE MinerInv(n)'
  <2>1. OrderInv(n) /\ PoolInv(n) /\ CleanInv(n) /\ MiningInv(n)
    BY DEF IInv, MinerInv
  <2>2. ~Reaching(n)' /\ (n < MAX_PROBE_PEERS => ~Reaching(n))
    BY <1>2, <1>6, MinersAssumption, CapacityAssumption DEF Reaching, Miners
  <2>3. OrderInv(n)' /\ CleanInv(n)'
    BY <1>2, <2>1, <2>2, NodeFrame
  <2>4. CASE n = m
    <3>1. MiningInv(n)'
      <4>1. restart_mining'[m] \in BOOLEAN /\ shutting_down'[m] \in BOOLEAN
        BY <1>2, <2>1, <2>4 DEF MiningInv
      <4> QED
        BY <1>2, <1>5, <2>4, <4>1, NothingCopied DEF Loop
    <3> QED
      BY <1>2, <2>1, <2>3, <3>1, PoolFrame DEF MinerInv
  <2>5. CASE n # m
    BY <1>2, <1>5, <2>1, <2>3, <2>5, PoolFrame, MiningFrame DEF MinerInv
  <2> QED
    BY <2>4, <2>5
<1> QED
  BY <1>6, <1>7, <1>8, <1>9 DEF IInv

\* A valid block takes the next index.
LEMMA NextIndex ==
  ASSUME NodeInv, NEW b, ValidNext(ledger, b)
  PROVE  b.index = Len(ledger) /\ Len(b.transactions) \in 1..MAX_TRANSACTIONS_PER_BLOCK
<1>1. Len(b.transactions) \in 1..MAX_TRANSACTIONS_PER_BLOCK
  BY DEF ValidNext, validate_block_structure
<1>2. Len(ledger) \in Nat /\ IsSeq(ledger)
  BY SeqFacts DEF NodeInv
<1>3. CASE ledger = <<>>
  BY <1>1, <1>3, SeqEmpty DEF ValidNext
<1>4. CASE ledger # <<>>
  <2>1. Len(ledger) > 0
    BY <1>2, <1>4, SeqTail
  <2>2. Len(ledger) \in 1..Len(ledger)
    BY <1>2, <2>1
  <2>3. b.index = ledger[Len(ledger)].index + 1
    BY <1>4 DEF ValidNext, validate_block_link
  <2>4. ledger[Len(ledger)].index = Len(ledger) - 1
    BY <2>2 DEF NodeInv
  <2> QED
    BY <1>1, <1>2, <2>3, <2>4
<1> QED
  BY <1>3, <1>4

\* An accepted block: its transactions are the proposer's, and none of them
\* is committed yet, for its index is not taken.
LEMMA ProposalStep ==
  ASSUME IInv, NEW m \in Miners, HandleProposal(m)
  PROVE  IInv'
<1> USE DEF commVars, node0Vars
<1>1. Shape /\ NodeInv /\ OnePlace /\ MiningInv(m) /\ PoolInv(m)
  BY DEF IInv, MinerInv
<1>2. /\ mining[m].pc = "await" /\ node0.pc = "free"
      /\ UNCHANGED <<commVars, mempool, tip, restart_mining, shutting_down>>
  BY DEF HandleProposal
<1>3. PICK b : b = mining[m].block
  OBVIOUS
<1>4. CASE ~ValidNext(ledger, b)
  <2>1. SetMining(m, Loop) /\ UNCHANGED node0Vars
    BY <1>3, <1>4 DEF HandleProposal
  <2>2. MiningInv(m)'
    BY <1>1, <1>2, <2>1, NewLocals, NothingCopied DEF Loop, MiningInv
  <2> QED
    BY <1>2, <2>1, <2>2, MiningLocal
<1>5. CASE ValidNext(ledger, b)
  <2>1. /\ ledger' = Append(ledger, b)
        /\ node0' = [pc |-> "broadcast", miner |-> m, block |-> b, peer |-> 0]
        /\ SetMining(m, [pc |-> "answer"])
    BY <1>3, <1>5 DEF HandleProposal
  <2>2. /\ b.transactions \in Seq(acked[m])
        /\ \A k, l \in 1..Len(b.transactions) : b.transactions[k] = b.transactions[l] => k = l
        /\ \A i \in 1..Len(ledger) : \A tx \in acked[m] :
             Has(b, tx) /\ Has(ledger[i], tx) => b.index < i
    BY <1>1, <1>2, <1>3 DEF MiningInv, Candidate
  <2>3. b.index = Len(ledger) /\ Len(b.transactions) \in 1..MAX_TRANSACTIONS_PER_BLOCK
    BY <1>1, <1>5, NextIndex
  <2>4. IsSeq(ledger) /\ Len(ledger) \in Nat
    BY <1>1, SeqFacts DEF NodeInv
  <2>5. /\ IsSeq(ledger') /\ Len(ledger') = Len(ledger) + 1
        /\ \A i \in 1..Len(ledger) : ledger'[i] = ledger[i]
        /\ ledger'[Len(ledger) + 1] = b
    BY <2>1, <2>4, SeqAppend
  <2>6. PICK last : last = Len(ledger) + 1
    OBVIOUS
  <2>7. /\ last \in 1..Len(ledger') /\ last = Len(ledger') /\ ledger'[last] = b
        /\ \A i \in 1..Len(ledger') : i = last \/ i \in 1..Len(ledger)
        /\ \A i \in 1..Len(ledger) : i \in 1..Len(ledger') /\ i < last
        /\ b.index = last - 1
    BY <2>3, <2>4, <2>5, <2>6
  <2>8. \A tx : Has(b, tx) => tx \in acked[m]
    BY <2>2, OwnElements DEF Has
  <2>9. \A tx : \A i \in 1..Len(ledger) : Has(b, tx) => ~Has(ledger[i], tx)
    <3> SUFFICES ASSUME NEW tx, NEW i \in 1..Len(ledger), Has(b, tx), Has(ledger[i], tx)
                 PROVE  FALSE
      OBVIOUS
    <3>1. Len(ledger) < i
      BY <2>2, <2>3, <2>8
    <3> QED
      BY <2>4, <3>1
  <2>10. node0'.pc = "broadcast" /\ node0'.block = b /\ node0'.peer = 0 /\ node0'.miner = m
    BY <2>1
  <2>11. NodeInv'
    <3>1. \A i \in 1..Len(ledger') :
            /\ ledger'[i].index = i - 1
            /\ Len(ledger'[i].transactions) \in 1..MAX_TRANSACTIONS_PER_BLOCK
      BY <1>1, <2>3, <2>5, <2>7 DEF NodeInv
    <3>2. node0'.peer \in 0..MAX_PROBE_PEERS /\ Len(ledger') > 0
      BY <2>4, <2>5, <2>10, CapacityAssumption
    <3>3. node0' = [pc |-> "broadcast", miner |-> node0'.miner, block |-> node0'.block,
                    peer |-> node0'.peer]
      BY <2>1, <2>10
    <3> QED
      BY <2>5, <2>7, <2>10, <3>1, <3>2, <3>3 DEF NodeInv
  <2>12. OnePlace'
    <3>1. \A i \in 1..Len(ledger') : \A tx \in Tx \cap ValidTx :
            Has(ledger'[i], tx) => \E n \in Miners : tx \in acked[n]
      BY <1>1, <2>5, <2>7, <2>8 DEF OnePlace
    <3> QED
      BY <1>1, <1>2, <3>1 DEF OnePlace, Queues
  <2>13. Shape'
    BY <1>1, <1>2, <2>1 DEF Shape, SetMining
  <2>14. \A t : IsTip(t) => t = NoTip \/ \E i \in 1..Len(ledger') : t = TipAfter(ledger'[i])
    BY <2>5, <2>7 DEF IsTip
  <2>15. mining'[m].pc = "answer" /\ \A n \in Miners \ {m} : mining'[n] = mining[n]
    BY <1>1, <2>1 DEF SetMining, Shape
  <2>16. ASSUME NEW n \in Miners PROVE MinerInv(n)'
    <3>1. OrderInv(n) /\ PoolInv(n) /\ CleanInv(n) /\ MiningInv(n)
      BY DEF IInv, MinerInv
    <3>2. ~Reaching(n) /\ Reaching(n)' /\ (Busy(n)' <=> Busy(n)) /\ Queued(n)' = Queued(n)
      BY <1>2, <2>10, MinersAssumption DEF Reaching, Busy, Queued, Miners
    <3>3. OrderInv(n)'
      <4>1. \A k \in 1..Len(inbox[n]) : (inbox[n][k] \in MessageType)'
        <5> SUFFICES ASSUME NEW k \in 1..Len(inbox[n])
                     PROVE  (inbox[n][k] \in MessageType)'
          OBVIOUS
        <5>1. inbox[n][k] \in MessageType
          BY <3>1 DEF OrderInv
        <5>2. {ledger[i] : i \in 1..Len(ledger)} \subseteq {ledger'[i] : i \in 1..Len(ledger')}
          BY <2>5, <2>7
        <5> QED
          BY <1>2, <5>1, <5>2 DEF MessageType
      <4>2. \A k \in Queued(n) : inbox[n][k].block.index < b.index
        BY <1>1, <2>3, <2>4, <3>1, QueuedBlock
      <4>3. Busy(n) => /\ comm[n].block.index < b.index
                       /\ \E i \in 1..Len(ledger') : comm[n].block = ledger'[i]
        BY <1>1, <2>3, <2>4, <2>5, <2>7, <3>1 DEF OrderInv, NodeInv
      <4> QED
        BY <1>2, <2>10, <3>1, <3>2, <4>1, <4>2, <4>3 DEF OrderInv
    <3>4. \A i \in 1..Len(ledger') : \A tx :
            Has(ledger'[i], tx) => \/ i \in 1..Len(ledger) /\ Has(ledger[i], tx)
                                   \/ i = last /\ Has(b, tx)
      BY <2>5, <2>7
    <3>5. PoolInv(n)'
      <4>1. ASSUME NEW i \in 1..Len(ledger'), NEW j \in 1..Len(ledger'), NEW tx \in acked[n],
                   Has(ledger'[i], tx), Has(ledger'[j], tx)
            PROVE  i = j
        BY <2>9, <3>1, <3>4, <4>1 DEF PoolInv
      <4>2. ASSUME NEW i \in 1..Len(ledger'),
                   NEW k \in 1..Len(ledger'[i].transactions),
                   NEW l \in 1..Len(ledger'[i].transactions),
                   ledger'[i].transactions[k] = ledger'[i].transactions[l],
                   ledger'[i].transactions[k] \in acked[n]
            PROVE  k = l
        <5>1. CASE i = last
          BY <2>2, <2>7, <4>2, <5>1
        <5>2. CASE i \in 1..Len(ledger)
          BY <2>5, <3>1, <4>2, <5>2 DEF PoolInv
        <5> QED
          BY <2>7, <5>1, <5>2
      <4>3. \A tx \in acked[n] :
              \/ \E k \in 1..Len(mempool[n]) : mempool[n][k] = tx
              \/ \E i \in 1..Len(ledger') : Has(ledger'[i], tx)
        BY <2>5, <2>7, <3>1 DEF PoolInv
      <4> QED
        BY <1>2, <3>1, <4>1, <4>2, <4>3 DEF PoolInv
    <3>6. CleanInv(n)'
      <4>1. tip[n].next_index \in Nat /\ tip[n].next_index <= Len(ledger)
        BY <1>1, <3>1, TipIndex DEF MiningInv
      <4>2. \A j : j \in Pending(n) => j \in Pending(n)'
        BY <1>2, <3>2, PendingIff
      <4>3. last - 1 \in Pending(n)'
        BY <2>7, <2>10, <3>2, PendingIff
      <4>4. ASSUME NEW k \in 1..Len(mempool[n]), NEW i \in 1..Len(ledger'),
                   Has(ledger'[i], mempool[n][k])
            PROVE  /\ tip[n].next_index < i
                   /\ n < MAX_PROBE_PEERS /\ comm[n].pc \in {"poll", "remove", "commit"} =>
                        i - 1 \in Pending(n)'
        <5>1. CASE i = last
          BY <2>4, <2>6, <4>1, <4>3, <5>1
        <5>2. CASE i \in 1..Len(ledger) /\ Has(ledger[i], mempool[n][k])
          BY <3>1, <4>2, <5>2 DEF CleanInv
        <5> QED
          BY <3>4, <4>4, <5>1, <5>2
      <4> QED
        BY <1>2, <3>1, <4>4 DEF CleanInv
    <3>7. MiningInv(n)'
      <4>1. CASE n = m
        BY <1>2, <2>14, <2>15, <3>1, <4>1 DEF MiningInv, Candidate, IsTip
      <4>2. CASE n # m
        <5>1. mining'[n] = mining[n] /\ \A tx \in acked[n] : ~Has(b, tx)
          BY <1>1, <2>8, <2>15, <4>2 DEF OnePlace
        <5>2. \A k \in 1..Len(mempool[n]) : mempool[n][k] \in acked[n]
          BY <3>1, OwnElements DEF PoolInv
        <5>3. \A i \in 1..Len(ledger') : \A tx \in acked[n] :
                Has(ledger'[i], tx) => i \in 1..Len(ledger) /\ Has(ledger[i], tx)
          BY <3>4, <5>1
        <5>4. mining[n].pc = "query_block" => mining[n].height \in 1..Len(ledger')
          BY <2>7, <3>1 DEF MiningInv
        <5>5. /\ IsTip(tip[n])'
              /\ mining[n].pc \in {"set_tip", "snapshot"} => IsTip(mining[n].tip)'
          <6>1. /\ IsTip(tip[n])
                /\ mining[n].pc \in {"set_tip", "snapshot"} => IsTip(mining[n].tip)
            BY <3>1 DEF MiningInv
          <6>2. tip'[n] = tip[n] /\ mining'[n].tip = mining[n].tip
            BY <1>2, <5>1
          <6>3. IsTip(tip[n])'
            BY <2>14, <6>1, <6>2 DEF IsTip
          <6>4. IsTip(mining[n].tip) => IsTip(mining[n].tip)'
            BY <2>14, <6>2 DEF IsTip
          <6> QED
            BY <6>1, <6>3, <6>4
        <5>6. mining[n].pc = "snapshot" =>
                \A k \in 1..Len(mempool[n]) : \A i \in 1..Len(ledger') :
                  Has(ledger'[i], mempool[n][k]) => mining[n].tip.next_index < i
          BY <3>1, <5>2, <5>3 DEF MiningInv
        <5>7. mining[n].pc \in {"query_height", "query_block", "set_tip"} =>
                \A i \in 1..Len(ledger') : \A tx \in acked[n] : ~Has(ledger'[i], tx)
          BY <3>1, <5>3 DEF MiningInv
        <5>8. Candidate(n) =>
                \A i \in 1..Len(ledger') : \A tx \in acked[n] :
                  Has(mining[n].block, tx) /\ Has(ledger'[i], tx) => mining[n].block.index < i
          BY <3>1, <5>3 DEF MiningInv
        <5> QED
          BY <1>2, <3>1, <5>1, <5>4, <5>5, <5>6, <5>7, <5>8 DEF MiningInv, Candidate
      <4> QED
        BY <4>1, <4>2
    <3> QED
      BY <3>3, <3>5, <3>6, <3>7 DEF MinerInv
  <2> QED
    BY <2>11, <2>12, <2>13, <2>16 DEF IInv
<1> QED
  BY <1>4, <1>5

-----------------------------------------------------------------------------
(* The invariant.                                                          *)

\* Nobody has answered anything, and the tip is where node 0 starts.
LEMMA StartInv ==
  ASSUME ledger = InitialChain, node0.pc \in {"free", "starting"}, sent = {},
         inbox = [m \in Miners |-> <<>>], mempool = [m \in Miners |-> <<>>],
         acked = [m \in Miners |-> {}],
         restart_mining \in [Miners -> BOOLEAN], shutting_down \in [Miners -> BOOLEAN],
         comm = [m \in Miners |-> comm[m]], mining = [m \in Miners |-> mining[m]],
         tip = [m \in Miners |-> tip[m]],
         \A m \in Miners : /\ comm[m].pc \in {"starting", "poll"}
                           /\ mining[m].pc \in {"query_height", "loop"}
                           /\ IsTip(tip[m])
  PROVE  IInv
<1>1. Shape
  BY DEF Shape
<1>2. NodeInv
  BY ChainAssumption DEF NodeInv, validate_block_structure
<1>3. \A m \in Miners : inbox[m] = <<>> /\ Len(inbox[m]) = 0 /\ mempool[m] = <<>>
                        /\ Len(mempool[m]) = 0 /\ acked[m] = {} /\ IsSeq(inbox[m])
  BY SeqEmpty
<1>4. OnePlace
  BY <1>3, NewPayloads DEF OnePlace
<1>5. ASSUME NEW m \in Miners PROVE MinerInv(m)
  <2>1. inbox[m] = <<>> /\ Len(inbox[m]) = 0 /\ mempool[m] = <<>>
        /\ Len(mempool[m]) = 0 /\ acked[m] = {} /\ IsSeq(inbox[m])
    BY <1>3
  <2>2. Queued(m) = {} /\ ~Busy(m) /\ ~Reaching(m)
    BY <2>1 DEF Queued, Busy, Reaching
  <2>3. OrderInv(m)
    BY <2>1, <2>2 DEF OrderInv
  <2>4. mempool[m] \in Seq(acked[m])
    BY <2>1
  <2>5. PoolInv(m)
    BY <2>1, <2>4, CapacityAssumption DEF PoolInv
  <2>6. CleanInv(m)
    BY <2>1 DEF CleanInv
  <2>7. MiningInv(m)
    BY <2>1 DEF MiningInv, Candidate
  <2> QED
    BY <2>3, <2>5, <2>6, <2>7 DEF MinerInv
<1> QED
  BY <1>1, <1>2, <1>4, <1>5 DEF IInv

LEMMA InitInv == Init => IInv
<1> SUFFICES ASSUME Init PROVE IInv
  OBVIOUS
<1>1. \A m \in Miners : /\ comm[m].pc = "starting" /\ mining[m].pc = "query_height"
                        /\ IsTip(tip[m])
  BY DEF Init, IsTip
<1>2. node0.pc \in {"free", "starting"}
  BY DEF Init, Free
<1> QED
  BY <1>1, <1>2, StartInv DEF Init

LEMMA WarmInitInv == WarmInit => IInv
<1> SUFFICES ASSUME WarmInit PROVE IInv
  OBVIOUS
<1>1. \A m \in Miners : comm[m].pc = "poll" /\ mining[m].pc = "loop"
  BY DEF WarmInit, Poll, Loop
<1>2. InitialChain # <<>> => Len(InitialChain) \in 1..Len(InitialChain)
  <2>1. IsSeq(InitialChain) /\ Len(InitialChain) \in Nat
    BY ChainAssumption, SeqFacts
  <2>2. InitialChain # <<>> => Len(InitialChain) > 0
    BY <2>1, SeqTail
  <2> QED
    BY <2>1, <2>2
<1>3. \A m \in Miners : IsTip(tip[m])
  BY <1>2 DEF WarmInit, IsTip
<1>4. node0.pc = "free"
  BY DEF WarmInit, Free
<1> QED
  BY <1>1, <1>3, <1>4, StartInv DEF WarmInit

LEMMA NextInv == IInv /\ [Next]_vars => IInv'
<1> SUFFICES ASSUME IInv, [Next]_vars PROVE IInv'
  OBVIOUS
<1>1. CASE NodeStep
  BY <1>1, NodeStartsStep, BroadcastStep, BroadcastDoneStep DEF NodeStep
<1>2. ASSUME NEW m \in Miners, CommStep(m) PROVE IInv'
  BY <1>2, ListenStep, TxSubmitStep, BlockCommitStep, RemoveStep, AdvanceTipStep,
     CommExitStep DEF CommStep
<1>3. ASSUME NEW m \in Miners, MiningStep(m) PROVE IInv'
  BY <1>3, QueryHeightStep, QueryBlockStep, SetTipStep, CopyTipStep, SnapshotStep,
     WaitingStep, MinedStep, ProposeStep DEF MiningStep
<1>4. ASSUME NEW m \in Miners, Submit(m) \/ Terminate(m) \/ HandleProposal(m) PROVE IInv'
  BY <1>4, SubmitStep, TerminateStep, ProposalStep
<1>5. CASE UNCHANGED vars
  <2>1. Shape' /\ NodeInv'
    BY <1>5 DEF vars, IInv, Shape, NodeInv
  <2>2. OnePlace'
    BY <1>5, OnePlaceFrame DEF vars, IInv
  <2>3. ASSUME NEW m \in Miners PROVE MinerInv(m)'
    BY <1>5, OrderFrame, PoolFrame, CleanFrame, MiningFrame DEF vars, IInv, MinerInv
  <2> QED
    BY <2>1, <2>2, <2>3 DEF IInv
<1> QED
  BY <1>1, <1>2, <1>3, <1>4, <1>5 DEF Next

-----------------------------------------------------------------------------
(* After the start: the tip and the commits under way are the ledger.      *)

\* A step of one miner's threads touches nothing of another miner.
LEMMA OthersSame ==
  ASSUME Shape, NEW m \in Miners,
         CommStep(m) \/ MiningStep(m) \/ Submit(m) \/ Terminate(m)
  PROVE  UNCHANGED <<ledger, node0>> /\ \A n \in Miners \ {m} : Same(n)
<1> USE DEF Shape, Same, SetComm, SetMining, node0Vars, commVars
<1>1. CASE Submit(m)
  BY <1>1 DEF Submit
<1>2. CASE Terminate(m)
  BY <1>2 DEF Terminate
<1>3. CASE Listen(m) \/ HandleBlockCommit(m) \/ CommExit(m)
  BY <1>3 DEF Listen, HandleBlockCommit, CommExit
<1>4. CASE HandleTxSubmit(m)
  BY <1>4 DEF HandleTxSubmit
<1>5. CASE mempool_remove_included(m)
  BY <1>5 DEF mempool_remove_included
<1>6. CASE AdvanceTip(m)
  BY <1>6 DEF AdvanceTip
<1>7. CASE QueryHeight(m) \/ QueryBlock(m) \/ SetTip(m) \/ CopyTip(m)
  BY <1>7 DEF QueryHeight, QueryBlock, SetTip, CopyTip
<1>8. CASE Snapshot(m) \/ IdleEnds(m) \/ NotMined(m) \/ Mined(m) \/ Propose(m)
  BY <1>8 DEF Snapshot, IdleEnds, NotMined, Mined, Propose
<1> QED
  BY <1>1, <1>2, <1>3, <1>4, <1>5, <1>6, <1>7, <1>8 DEF CommStep, MiningStep

Started(m) ==
  /\ comm[m].pc # "starting"
  /\ mining[m].pc \notin {"query_height", "query_block", "set_tip"}

\* Nobody goes back to the start.
LEMMA StartedStays ==
  ASSUME Shape, NEW m \in Miners, Started(m),
         CommStep(m) \/ MiningStep(m) \/ Submit(m) \/ Terminate(m)
  PROVE  Started(m)'
<1> USE DEF Started, Shape, SetComm, SetMining, node0Vars, commVars
<1>1. CASE Submit(m) \/ Terminate(m)
  BY <1>1 DEF Submit, Terminate
<1>2. CASE Listen(m) \/ HandleTxSubmit(m) \/ AdvanceTip(m)
  BY <1>2 DEF Listen, HandleTxSubmit, AdvanceTip, NextPoll, Poll
<1>3. CASE CommExit(m)
  BY <1>3 DEF CommExit
<1>4. CASE HandleBlockCommit(m)
  BY <1>4 DEF HandleBlockCommit, NextRound
<1>5. CASE mempool_remove_included(m)
  BY <1>5 DEF mempool_remove_included, NextRound
<1>6. CASE QueryHeight(m) \/ QueryBlock(m) \/ SetTip(m)
  BY <1>6 DEF QueryHeight, QueryBlock, SetTip
<1>7. CASE CopyTip(m) \/ IdleEnds(m) \/ NotMined(m) \/ Mined(m) \/ Propose(m)
  BY <1>7 DEF CopyTip, IdleEnds, NotMined, Mined, Propose, Loop
<1>8. CASE Snapshot(m)
  BY <1>8 DEF Snapshot
<1> QED
  BY <1>1, <1>2, <1>3, <1>4, <1>5, <1>6, <1>7, <1>8 DEF CommStep, MiningStep

\* What one miner knows of the ledger is all of it.
Whole(m) ==
  comm[m].pc # "done" => Pending(m) = tip[m].next_index..(Len(ledger) - 1)

\* Nothing is taken from the queue or added to it but payloads.
LEMMA WholeFrame ==
  ASSUME NEW m \in Miners, Whole(m), comm[m].pc = "done" => comm'[m].pc = "done",
         \A j : j \in Pending(m)' <=> j \in Pending(m),
         tip'[m] = tip[m], UNCHANGED ledger
  PROVE  Whole(m)'
<1>1. Pending(m)' = Pending(m)
  OBVIOUS
<1> QED
  BY <1>1 DEF Whole

LEMMA WholeUnfelt ==
  ASSUME NEW m \in Miners, Whole(m), inbox'[m] = inbox[m], comm'[m] = comm[m],
         tip'[m] = tip[m], UNCHANGED <<ledger, node0>>
  PROVE  Whole(m)'
  BY DEF Whole, Pending

\* The commit that is handled is the first that is missing in the tip.
LEMMA WholeAdvance ==
  ASSUME IInv, NEW m \in Miners, Whole(m), AdvanceTip(m)
  PROVE  Whole(m)'
<1>1. Shape /\ NodeInv /\ OrderInv(m) /\ MiningInv(m)
  BY DEF IInv, MinerInv
<1>2. /\ comm[m].pc = "commit" /\ SetComm(m, NextPoll(m))
      /\ UNCHANGED <<ledger, node0, inbox>>
  BY DEF AdvanceTip, node0Vars
<1>3. PICK b : b = comm[m].block
  OBVIOUS
<1>4. PICK i0 \in 1..Len(ledger) : b = ledger[i0]
  BY <1>1, <1>2, <1>3 DEF OrderInv, Busy
<1>5. b.index = i0 - 1 /\ Len(ledger) \in Nat
  BY <1>1, <1>4, SeqFacts DEF NodeInv
<1>6. Busy(m) /\ ~Busy(m)' /\ Queued(m)' = Queued(m) /\ (Reaching(m)' <=> Reaching(m))
  BY <1>1, <1>2 DEF SetComm, Shape, Busy, NextPoll, Poll, Queued, Reaching
<1>7. \A j : j \in Pending(m)' =>
        j \in Pending(m) /\ b.index < j
  BY <1>1, <1>2, <1>3, <1>6, PendingIff DEF OrderInv
<1>8. \A j \in Pending(m) : j = b.index \/ j \in Pending(m)'
  BY <1>2, <1>3, <1>6, PendingIff
<1>9. b.index \in Pending(m)
  BY <1>3, <1>6, PendingIff
<1>10. tip[m].next_index \in Nat
  BY <1>1, TipIndex DEF MiningInv
<1>11. Pending(m) = tip[m].next_index..(Len(ledger) - 1)
  BY <1>2 DEF Whole
<1>12. b.index = tip[m].next_index
  <2>1. tip[m].next_index \in Pending(m) /\ tip[m].next_index <= b.index
    BY <1>5, <1>9, <1>10, <1>11
  <2>2. tip[m].next_index = b.index \/ b.index < tip[m].next_index
    BY <1>7, <1>8, <2>1
  <2> QED
    BY <1>5, <1>10, <2>1, <2>2
<1>13. tip'[m] = TipAfter(b)
  BY <1>1, <1>3, <1>5, <1>12 DEF AdvanceTip, Shape
<1>14. tip'[m].next_index = i0
  BY <1>5, <1>13 DEF TipAfter
<1>15. \A j : j \in Pending(m)' <=> j \in i0..(Len(ledger) - 1)
  <2> TAKE j
  <2>1. ASSUME j \in Pending(m)' PROVE j \in i0..(Len(ledger) - 1)
    BY <1>5, <1>7, <1>10, <1>11, <2>1
  <2>2. ASSUME j \in i0..(Len(ledger) - 1) PROVE j \in Pending(m)'
    BY <1>5, <1>8, <1>10, <1>11, <1>12, <2>2
  <2> QED
    BY <2>1, <2>2
<1>16. Pending(m)' = i0..(Len(ledger) - 1)
  BY <1>15
<1> QED
  BY <1>2, <1>14, <1>16 DEF Whole

\* A connection moves from the queue to the thread that serves it.
LEMMA WholeServed ==
  ASSUME IInv, NEW m \in Miners, Whole(m), HandleTxSubmit(m) \/ HandleBlockCommit(m)
  PROVE  Whole(m)'
<1>1. Shape /\ NodeInv /\ OrderInv(m)
  BY DEF IInv, MinerInv
<1>2. /\ comm[m].pc = "poll" /\ inbox[m] # <<>>
      /\ inbox' = [inbox EXCEPT ![m] = Tail(@)]
      /\ UNCHANGED <<ledger, node0, tip>>
  BY DEF HandleTxSubmit, HandleBlockCommit, node0Vars
<1>3. /\ Len(inbox[m]) \in Nat /\ Len(inbox[m]) > 0 /\ Head(inbox[m]) = inbox[m][1]
      /\ \A k \in Queued(m)' : k + 1 \in Queued(m) /\ inbox'[m][k] = inbox[m][k + 1]
      /\ \A k \in Queued(m) :
           k # 1 => k - 1 \in Queued(m)' /\ inbox'[m][k - 1] = inbox[m][k]
  BY <1>1, <1>2, Served
<1>4. ~Busy(m) /\ (Reaching(m)' <=> Reaching(m))
  BY <1>2 DEF Busy, Reaching
<1>5. CASE HandleTxSubmit(m)
  <2>1. 1 \notin Queued(m)
    BY <1>3, <1>5 DEF HandleTxSubmit, Queued
  <2>2. ~Busy(m)'
    BY <1>1, <1>5 DEF HandleTxSubmit, SetComm, Shape, Busy, NextPoll, Poll
  <2>3. \A j : (\E k \in Queued(m)' : inbox'[m][k].block.index = j) <=>
               (\E k \in Queued(m) : inbox[m][k].block.index = j)
    BY <1>3, <2>1
  <2>4. \A j : j \in Pending(m)' <=> j \in Pending(m)
    BY <1>2, <1>4, <2>2, <2>3, PendingIff
  <2> QED
    BY <1>2, <2>4, WholeFrame
<1>6. CASE HandleBlockCommit(m)
  <2>1. 1 \in Queued(m)
    BY <1>3, <1>6 DEF HandleBlockCommit, Queued
  <2>2. comm'[m] = NextRound(inbox[m][1].block, mempool[m], 1)
    BY <1>1, <1>3, <1>6 DEF HandleBlockCommit, SetComm, Shape
  <2>3. Busy(m)' /\ comm'[m].block = inbox[m][1].block
    BY <2>2, NextRoundFacts DEF Busy
  <2>4. \A j : (\E k \in Queued(m)' : inbox'[m][k].block.index = j) \/ comm'[m].block.index = j
               <=> \E k \in Queued(m) : inbox[m][k].block.index = j
    BY <1>3, <2>1, <2>3
  <2>5. \A j : j \in Pending(m)' <=> j \in Pending(m)
    BY <1>2, <1>4, <2>3, <2>4, PendingIff
  <2> QED
    BY <1>2, <2>5, WholeFrame
<1> QED
  BY <1>5, <1>6

\* The other steps of a miner.
LEMMA WholeLocal ==
  ASSUME IInv, NEW m \in Miners, Started(m), Whole(m),
         CommStep(m) \/ MiningStep(m) \/ Submit(m) \/ Terminate(m)
  PROVE  Whole(m)'
<1> USE DEF node0Vars, commVars
<1>1. Shape /\ NodeInv /\ OrderInv(m)
  BY DEF IInv, MinerInv
<1>2. UNCHANGED <<ledger, node0>>
  BY <1>1, OthersSame
<1>3. CASE Terminate(m)
  BY <1>2, <1>3, WholeUnfelt DEF Terminate
<1>4. CASE MiningStep(m)
  <2>1. ~(QueryHeight(m) \/ QueryBlock(m) \/ SetTip(m))
    BY DEF Started, QueryHeight, QueryBlock, SetTip
  <2>2. UNCHANGED <<inbox, comm, tip>>
    BY <1>4, <2>1 DEF MiningStep, CopyTip, Snapshot, IdleEnds, NotMined, Mined, Propose
  <2> QED
    BY <1>2, <2>2, WholeUnfelt
<1>5. CASE Submit(m)
  <2>1. PICK msg : /\ inbox' = [inbox EXCEPT ![m] = Append(@, msg)]
                   /\ msg.type = "TX_SUBMIT"
    <3>1. PICK tx \in Tx :
            inbox' = [inbox EXCEPT ![m] = Append(@, [type |-> "TX_SUBMIT", tx |-> tx])]
      BY <1>5 DEF Submit
    <3>2. [type |-> "TX_SUBMIT", tx |-> tx].type = "TX_SUBMIT"
      OBVIOUS
    <3> QED
      BY <3>1, <3>2
  <2>2. UNCHANGED <<comm, tip>>
    BY <1>5 DEF Submit
  <2>3. Queued(m)' = Queued(m) /\ \A k \in Queued(m) : inbox'[m][k] = inbox[m][k]
    BY <1>1, <2>1, QueueGrows
  <2>4. (Busy(m)' <=> Busy(m)) /\ (Reaching(m)' <=> Reaching(m))
    BY <1>2, <2>2 DEF Busy, Reaching
  <2>5. \A j : j \in Pending(m)' <=> j \in Pending(m)
    BY <1>2, <2>2, <2>3, <2>4, PendingIff
  <2> QED
    BY <1>2, <2>2, <2>5, WholeFrame
<1>6. CASE mempool_remove_included(m)
  <2>1. /\ comm[m].pc = "remove" /\ UNCHANGED <<inbox, tip>>
        /\ \E pool, i : comm'[m] = NextRound(comm[m].block, pool, i)
    BY <1>1, <1>6 DEF mempool_remove_included, SetComm, Shape
  <2>2. Busy(m) /\ Busy(m)' /\ comm'[m].block = comm[m].block
    BY <2>1, NextRoundFacts DEF Busy
  <2>3. Queued(m)' = Queued(m) /\ (Reaching(m)' <=> Reaching(m))
    BY <1>2, <2>1 DEF Queued, Reaching
  <2>4. \A j : j \in Pending(m)' <=> j \in Pending(m)
    BY <1>2, <2>1, <2>2, <2>3, PendingIff
  <2> QED
    BY <1>2, <2>1, <2>4, WholeFrame
<1>7. CASE CommExit(m)
  <2>1. comm'[m].pc = "done"
    BY <1>1, <1>7 DEF CommExit, SetComm, Shape
  <2> QED
    BY <2>1 DEF Whole
<1>8. ~Listen(m)
  BY DEF Started, Listen
<1> QED
  BY <1>3, <1>4, <1>5, <1>6, <1>7, <1>8, WholeAdvance, WholeServed DEF CommStep

\* The broadcast: what has yet to be sent is sent, miner by miner.
LEMMA WholeBroadcast ==
  ASSUME IInv, NEW m \in Miners, m < MAX_PROBE_PEERS, comm[m].pc # "starting", Whole(m),
         NodeStep
  PROVE  Whole(m)'
<1>1. Shape /\ NodeInv /\ OrderInv(m)
  BY DEF IInv, MinerInv
<1>2. UNCHANGED <<ledger, comm, tip>>
  BY DEF NodeStep, NodeStarts, Broadcast, BroadcastDone, commVars
<1>3. Busy(m)' <=> Busy(m)
  BY <1>2 DEF Busy
<1>4. CASE NodeStarts \/ BroadcastDone
  <2>1. inbox' = inbox /\ node0'.pc = "free"
    BY <1>4 DEF NodeStarts, BroadcastDone, commVars, Free
  <2>2. ~Reaching(m) /\ ~Reaching(m)' /\ Queued(m)' = Queued(m)
    BY <1>4, <2>1, MinersAssumption, CapacityAssumption
       DEF NodeStarts, BroadcastDone, Reaching, Queued, Miners
  <2>3. \A j : j \in Pending(m)' <=> j \in Pending(m)
    BY <1>2, <1>3, <2>1, <2>2, PendingIff
  <2> QED
    BY <1>2, <2>3, WholeFrame
<1>5. CASE Broadcast
  <2>1. PICK p, b : p = node0.peer /\ b = node0.block
    OBVIOUS
  <2>2. /\ node0.pc = "broadcast" /\ p \in Nat /\ node0' = [node0 EXCEPT !.peer = @ + 1]
        /\ node0 = [pc |-> "broadcast", miner |-> node0.miner, block |-> b, peer |-> p]
    BY <1>1, <1>5, <2>1, CapacityAssumption DEF Broadcast, NodeInv
  <2>3. node0' = [pc |-> "broadcast", miner |-> node0.miner, block |-> b, peer |-> p + 1]
    BY <2>1, <2>2
  <2>4. node0'.pc = "broadcast" /\ node0'.block = b /\ node0'.peer = p + 1
    BY <2>3
  <2>5. (Reaching(m) <=> p <= m) /\ (Reaching(m)' <=> p + 1 <= m) /\ m \in Nat
    BY <2>1, <2>2, <2>4, MinersAssumption DEF Reaching, Miners
  <2>6. CASE m # p
    <3>1. inbox'[m] = inbox[m]
      BY <1>1, <1>5, <2>1, <2>6 DEF Broadcast, Shape
    <3>2. (Reaching(m)' <=> Reaching(m)) /\ Queued(m)' = Queued(m)
      BY <2>2, <2>5, <2>6, <3>1 DEF Queued
    <3>3. \A j : j \in Pending(m)' <=> j \in Pending(m)
      BY <1>2, <1>3, <2>1, <2>4, <3>1, <3>2, PendingIff
    <3> QED
      BY <1>2, <3>3, WholeFrame
  <2>7. CASE m = p /\ comm[m].pc # "done"
    <3>1. Listening(m)
      BY <1>1, <2>7 DEF OrderInv, Listening
    <3>2. PICK msg : msg = [type |-> "BLOCK_COMMIT", block |-> b]
      OBVIOUS
    <3>3. inbox' = [inbox EXCEPT ![m] = Append(@, msg)]
      BY <1>5, <2>1, <2>7, <3>1, <3>2 DEF Broadcast
    <3>4. msg.type = "BLOCK_COMMIT" /\ msg.block = b
      BY <3>2
    <3>5. PICK last : /\ Queued(m)' = Queued(m) \cup {last} /\ inbox'[m][last] = msg
                      /\ \A k \in Queued(m) : inbox'[m][k] = inbox[m][k]
      <4>1. PICK last :
              /\ inbox'[m][last] = msg
              /\ Queued(m)' = IF msg.type = "BLOCK_COMMIT" THEN Queued(m) \cup {last}
                                                           ELSE Queued(m)
              /\ \A k \in Queued(m) : inbox'[m][k] = inbox[m][k] /\ k < last
        BY <1>1, <3>3, QueueGrows
      <4> QED
        BY <3>4, <4>1
    <3>6. Reaching(m) /\ ~Reaching(m)'
      BY <2>2, <2>5, <2>7
    <3>7. \A j : (\E k \in Queued(m)' : inbox'[m][k].block.index = j) <=>
                 (\E k \in Queued(m) : inbox[m][k].block.index = j) \/ b.index = j
      BY <3>4, <3>5
    <3>8. \A j : j \in Pending(m)' <=> j \in Pending(m)
      BY <1>2, <1>3, <2>1, <3>6, <3>7, PendingIff
    <3> QED
      BY <1>2, <3>8, WholeFrame
  <2>8. CASE comm[m].pc = "done"
    BY <1>2, <2>8 DEF Whole
  <2> QED
    BY <2>6, <2>7, <2>8
<1> QED
  BY <1>4, <1>5 DEF NodeStep

\* A new block is under way to everybody.
LEMMA WholeProposal ==
  ASSUME IInv, NEW m \in Miners, Whole(m), NEW q \in Miners, HandleProposal(q)
  PROVE  Whole(m)'
<1>1. Shape /\ NodeInv /\ MiningInv(m)
  BY DEF IInv, MinerInv
<1>2. UNCHANGED <<inbox, comm, tip>> /\ node0.pc = "free"
  BY DEF HandleProposal, commVars
<1>3. PICK b : b = mining[q].block
  OBVIOUS
<1>4. CASE ~ValidNext(ledger, b)
  BY <1>2, <1>3, <1>4, WholeUnfelt DEF HandleProposal, node0Vars
<1>5. CASE ValidNext(ledger, b) /\ comm[m].pc # "done"
  <2>1. /\ ledger' = Append(ledger, b)
        /\ node0' = [pc |-> "broadcast", miner |-> q, block |-> b, peer |-> 0]
    BY <1>3, <1>5 DEF HandleProposal
  <2>2. b.index = Len(ledger) /\ IsSeq(ledger)
    BY <1>1, <1>5, NextIndex DEF NodeInv
  <2>3. Len(ledger) \in Nat /\ Len(ledger') = Len(ledger) + 1
    BY <2>1, <2>2, SeqFacts, SeqAppend
  <2>4. ~Reaching(m) /\ Reaching(m)' /\ node0'.block = b
    BY <1>2, <2>1, MinersAssumption DEF Reaching, Miners
  <2>5. (Busy(m)' <=> Busy(m)) /\ Queued(m)' = Queued(m)
    BY <1>2 DEF Busy, Queued
  <2>6. \A j : j \in Pending(m)' <=> j \in Pending(m) \/ j = Len(ledger)
    BY <1>2, <2>2, <2>4, <2>5, PendingIff
  <2>7. tip[m].next_index \in Nat /\ tip[m].next_index <= Len(ledger)
    BY <1>1, TipIndex DEF MiningInv
  <2>8. Pending(m) = tip[m].next_index..(Len(ledger) - 1)
    BY <1>5 DEF Whole
  <2>9. \A j : j \in Pending(m)' <=> j \in tip[m].next_index..(Len(ledger') - 1)
    <3> TAKE j
    <3>1. j \in tip[m].next_index..(Len(ledger') - 1) <=>
            j \in tip[m].next_index..(Len(ledger) - 1) \/ j = Len(ledger)
      BY <2>3, <2>7
    <3> QED
      BY <2>6, <2>8, <3>1
  <2>10. Pending(m)' = tip[m].next_index..(Len(ledger') - 1)
    BY <2>9
  <2> QED
    BY <1>2, <2>10 DEF Whole
<1>6. CASE comm[m].pc = "done"
  BY <1>2, <1>6 DEF Whole
<1> QED
  BY <1>4, <1>5, <1>6

LEMMA WarmForm ==
  WarmInv <=> \A m \in Miners : Started(m) /\ (m < MAX_PROBE_PEERS => Whole(m))
<1>1. \A m \in Miners : m < MAX_PROBE_PEERS <=> m \in Miners \cap 0..(MAX_PROBE_PEERS - 1)
  BY MinersAssumption, CapacityAssumption DEF Miners
<1> QED
  BY <1>1 DEF WarmInv, NoMissedCommit, Started, Whole

LEMMA WarmStart == WarmInit => WarmInv
<1> SUFFICES ASSUME WarmInit, NEW m \in Miners PROVE Started(m) /\ Whole(m)
  BY WarmForm
<1>1. Started(m)
  BY DEF WarmInit, Started, Poll, Loop
<1>2. ledger = InitialChain /\ Len(ledger) \in Nat /\ IsSeq(ledger)
  BY ChainAssumption, SeqFacts DEF WarmInit
<1>3. tip[m].next_index = Len(ledger)
  <2>1. CASE InitialChain = <<>>
    BY <1>2, <2>1, SeqEmpty DEF WarmInit, NoTip
  <2>2. CASE InitialChain # <<>>
    <3>1. Len(InitialChain) \in 1..Len(InitialChain)
      BY <1>2, <2>2, SeqTail
    <3>2. InitialChain[Len(InitialChain)].index = Len(InitialChain) - 1
      BY <3>1, ChainAssumption
    <3>3. tip[m].next_index = InitialChain[Len(InitialChain)].index + 1
      BY <2>2 DEF WarmInit, TipAfter
    <3> QED
      BY <1>2, <3>2, <3>3
  <2> QED
    BY <2>1, <2>2
<1>4. Queued(m) = {} /\ ~Busy(m) /\ ~Reaching(m)
  BY SeqEmpty DEF WarmInit, Queued, Busy, Reaching, Poll, Free
<1>5. \A j : j \in Pending(m) <=> j \in tip[m].next_index..(Len(ledger) - 1)
  <2>1. \A j : j \notin Pending(m)
    BY <1>4, PendingIff
  <2>2. \A j : j \notin tip[m].next_index..(Len(ledger) - 1)
    BY <1>2, <1>3
  <2> QED
    BY <2>1, <2>2
<1>6. Pending(m) = tip[m].next_index..(Len(ledger) - 1)
  BY <1>5
<1> QED
  BY <1>1, <1>6 DEF Whole

LEMMA WarmNext == IInv /\ WarmInv /\ [Next]_vars => WarmInv'
<1> SUFFICES ASSUME IInv, WarmInv, [Next]_vars PROVE WarmInv'
  OBVIOUS
<1>1. Shape /\ \A n \in Miners : Started(n) /\ (n < MAX_PROBE_PEERS => Whole(n))
  BY WarmForm DEF IInv
<1> SUFFICES ASSUME NEW n \in Miners
             PROVE  Started(n)' /\ (n < MAX_PROBE_PEERS => Whole(n)')
  BY WarmForm, MinersAssumption, CapacityAssumption
     DEF WarmInv, NoMissedCommit, Started, Whole, Miners
<1>2. CASE NodeStep
  <2>1. Started(n)'
    BY <1>1, <1>2 DEF NodeStep, NodeStarts, Broadcast, BroadcastDone, Started, SetMining,
       commVars, Loop, Shape
  <2>2. n < MAX_PROBE_PEERS => Whole(n)'
    BY <1>1, <1>2, WholeBroadcast DEF Started
  <2> QED
    BY <2>1, <2>2
<1>3. ASSUME NEW m \in Miners, CommStep(m) \/ MiningStep(m) \/ Submit(m) \/ Terminate(m)
      PROVE  Started(n)' /\ (n < MAX_PROBE_PEERS => Whole(n)')
  <2>1. CASE n = m
    BY <1>1, <1>3, <2>1, StartedStays, WholeLocal
  <2>2. CASE n # m
    <3>1. Same(n) /\ UNCHANGED <<ledger, node0>>
      BY <1>1, <1>3, <2>2, OthersSame
    <3>2. Started(n)'
      BY <1>1, <3>1 DEF Same, Started
    <3>3. n < MAX_PROBE_PEERS => Whole(n)'
      BY <1>1, <3>1, WholeUnfelt DEF Same
    <3> QED
      BY <3>2, <3>3
  <2> QED
    BY <2>1, <2>2
<1>4. ASSUME NEW m \in Miners, HandleProposal(m)
      PROVE  Started(n)' /\ (n < MAX_PROBE_PEERS => Whole(n)')
  <2>1. Started(n)'
    BY <1>1, <1>4 DEF HandleProposal, Started, SetMining, commVars, Loop, Shape
  <2>2. n < MAX_PROBE_PEERS => Whole(n)'
    BY <1>1, <1>4, WholeProposal
  <2> QED
    BY <2>1, <2>2
<1>5. CASE UNCHANGED vars
  <2>1. n < MAX_PROBE_PEERS => Whole(n)'
    BY <1>1, <1>5, WholeUnfelt DEF vars
  <2> QED
    BY <1>1, <1>5, <2>1 DEF vars, Started
<1> QED
  BY <1>2, <1>3, <1>4, <1>5 DEF Next

-----------------------------------------------------------------------------
(* The theorems.                                                           *)

\* The invariant holds in every state, from a cold start ...
THEOREM Invariance == Spec => []IInv
  BY InitInv, NextInv, PTL DEF Spec

\* ... and after a warm one, where moreover the tip of a miner and the commits
\* on their way to it make up the whole ledger.
THEOREM WarmInvariance == WarmSpec => [](IInv /\ WarmInv)
  BY WarmInitInv, WarmStart, NextInv, WarmNext, PTL DEF WarmSpec

\* Messages carry payloads of clients or blocks of the ledger, and no mempool
\* grows beyond its capacity.
THEOREM TypeCorrect == Spec => []TypeOK
<1>1. IInv => TypeOK
  BY DEF IInv, TypeOK, Shape, NodeInv, MinerInv, OrderInv, PoolInv, MiningInv
<1> QED
  BY <1>1, Invariance, PTL

\* What a miner mines on is a block of node 0's chain.
THEOREM TipsAreReal == Spec => []TipIsCommitted
<1>1. IInv => TipIsCommitted
  BY DEF IInv, MinerInv, MiningInv, IsTip, TipIsCommitted
<1> QED
  BY <1>1, Invariance, PTL

\* A transaction that the ledger holds has a place in it.
LEMMA Places ==
  ASSUME NodeInv, NEW tx
  PROVE  /\ \A p \in Committed(tx) :
              /\ p \in (1..Len(ledger)) \X (1..MAX_TRANSACTIONS_PER_BLOCK)
              /\ p[2] \in 1..Len(ledger[p[1]].transactions)
              /\ ledger[p[1]].transactions[p[2]] = tx
              /\ Has(ledger[p[1]], tx)
         /\ \A i \in 1..Len(ledger) : Has(ledger[i], tx) => Committed(tx) # {}
<1>1. ASSUME NEW p \in Committed(tx)
      PROVE  /\ p \in (1..Len(ledger)) \X (1..MAX_TRANSACTIONS_PER_BLOCK)
             /\ p[2] \in 1..Len(ledger[p[1]].transactions)
             /\ ledger[p[1]].transactions[p[2]] = tx
             /\ Has(ledger[p[1]], tx)
  <2>1. /\ p \in (1..Len(ledger)) \X (1..MAX_TRANSACTIONS_PER_BLOCK)
        /\ p[2] <= Len(ledger[p[1]].transactions)
        /\ ledger[p[1]].transactions[p[2]] = tx
    BY <1>1 DEF Committed
  <2>2. p[1] \in 1..Len(ledger) /\ p[2] \in 1..MAX_TRANSACTIONS_PER_BLOCK
    BY <2>1
  <2>3. Len(ledger[p[1]].transactions) \in Nat
    BY <2>2, MaxTxAssumption DEF NodeInv
  <2>4. p[2] \in 1..Len(ledger[p[1]].transactions)
    BY <2>1, <2>2, <2>3
  <2> QED
    BY <2>1, <2>4 DEF Has
<1>2. ASSUME NEW i \in 1..Len(ledger), Has(ledger[i], tx)
      PROVE  Committed(tx) # {}
  <2>1. PICK k \in 1..Len(ledger[i].transactions) : ledger[i].transactions[k] = tx
    BY <1>2 DEF Has
  <2>2. Len(ledger[i].transactions) \in 1..MAX_TRANSACTIONS_PER_BLOCK
    BY DEF NodeInv
  <2>3. k \in 1..MAX_TRANSACTIONS_PER_BLOCK /\ k <= Len(ledger[i].transactions)
    BY <2>2, MaxTxAssumption
  <2>4. <<i, k>> \in Committed(tx)
    BY <2>1, <2>3 DEF Committed
  <2> QED
    BY <2>4
<1> QED
  BY <1>1, <1>2

\* Whatever the threads do to the mempool, a transaction that was answered
\* with OK is still in it or in the ledger.
THEOREM NothingIsLost == Spec => []NoAckedTransactionLost
<1>1. IInv => NoAckedTransactionLost
  BY Places DEF IInv, MinerInv, PoolInv, NoAckedTransactionLost
<1> QED
  BY <1>1, Invariance, PTL

\* Whatever is proposed again, a transaction that was answered with OK is in
\* at most one place of the ledger.
THEOREM NothingTwice == Spec => []CommittedOnce
<1>1. IInv => CommittedOnce
  <2> SUFFICES ASSUME IInv, NEW m \in Miners, NEW tx \in acked[m],
                      NEW p \in Committed(tx), NEW q \in Committed(tx)
               PROVE  p = q
    BY DEF CommittedOnce
  <2>1. NodeInv /\ PoolInv(m)
    BY DEF IInv, MinerInv
  <2>2. /\ p \in (1..Len(ledger)) \X (1..MAX_TRANSACTIONS_PER_BLOCK)
        /\ q \in (1..Len(ledger)) \X (1..MAX_TRANSACTIONS_PER_BLOCK)
        /\ Has(ledger[p[1]], tx) /\ Has(ledger[q[1]], tx)
        /\ p[2] \in 1..Len(ledger[p[1]].transactions)
        /\ q[2] \in 1..Len(ledger[q[1]].transactions)
        /\ ledger[p[1]].transactions[p[2]] = tx /\ ledger[q[1]].transactions[q[2]] = tx
    BY <2>1, Places
  <2>3. p[1] \in 1..Len(ledger) /\ q[1] \in 1..Len(ledger)
    BY <2>2
  <2>4. p[1] = q[1]
    BY <2>1, <2>2, <2>3 DEF PoolInv
  <2>5. p[2] = q[2]
    BY <2>1, <2>2, <2>3, <2>4 DEF PoolInv
  <2> QED
    BY <2>2, <2>4, <2>5
<1> QED
  BY <1>1, Invariance, PTL

\* After the start a miner that broadcasts reach misses no commit.
THEOREM NothingMissed == WarmSpec => []NoMissedCommit
<1>1. WarmInv => NoMissedCommit
  BY DEF WarmInv
<1> QED
  BY <1>1, WarmInvariance, PTL
=============================================================================
