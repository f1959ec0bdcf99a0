--------------------------- MODULE MCReplication ---------------------------
(***************************************************************************)
(* Instances of Replication for TLC.  Hashes are collision-free: a digest  *)
(* is the tuple of everything that goes into it.                           *)
(***************************************************************************)
EXTENDS Replication, TLC

MCBlockHash(b) == <<b.index, b.timestamp, b.previous_hash, b.nonce, b.merkle_root>>
MCMerkleRoot(txs) == <<"merkle", txs>>

MkBlock(i, time, prev, txs) ==
  [index |-> i, timestamp |-> time, previous_hash |-> prev, nonce |-> 0,
   merkle_root |-> MCMerkleRoot(txs), transactions |-> txs]

Genesis == MkBlock(0, 5, <<>>, <<"Genesis block">>)
Rival   == MkBlock(0, 6, <<>>, <<"t2">>)                 \* races with Genesis
Quoted  == MkBlock(0, 5, <<>>, <<"text with a quote">>)  \* no block_to_csv writes it
A1(g) == MkBlock(1, 6, MCBlockHash(g), <<"t1">>)
A2(g) == MkBlock(2, 7, MCBlockHash(A1(g)), <<"t2">>)
A3(g) == MkBlock(3, 7, MCBlockHash(A2(g)), <<"t1", "t2">>)
Older == MkBlock(1, 4, MCBlockHash(Genesis), <<"t1">>)   \* earlier than Genesis
BadTx == MkBlock(1, 7, MCBlockHash(Genesis), <<"free text">>)
BadRoot == [A1(Genesis) EXCEPT !.merkle_root = MCMerkleRoot(<<"t2">>)]

\* From an empty chain: a fork at once, two more blocks on one side, a block
\* no miner can propose with its successor, which follows no other one, and
\* blocks that break the rules.
RaceBlocks ==
  {Genesis, Rival, A1(Genesis), A2(Genesis), Quoted, A1(Quoted), Older, BadTx, BadRoot}
\* One line of valid blocks.
LineBlocks == {Genesis, A1(Genesis), A2(Genesis)}
\* One line, on a block that can be loaded but not written.
QuotedLine == {Quoted, A1(Quoted), A2(Quoted), A3(Quoted)}

WorkerSymmetry == Permutations(Workers)

GenesisOnly == <<Genesis>>
QuotedOnly == <<Quoted>>
NoChain == <<>>
=============================================================================
