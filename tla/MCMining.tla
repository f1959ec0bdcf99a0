------------------------------ MODULE MCMining ------------------------------
(***************************************************************************)
(* Instances of Mining for TLC.  Hashes are collision-free: a digest is    *)
(* the tuple of everything that goes into it.                              *)
(***************************************************************************)
EXTENDS Mining, TLC

MCBlockHash(b) == <<b.index, b.timestamp, b.previous_hash, b.merkle_root>>
MCMerkleRoot(txs) == <<"merkle", txs>>

Genesis == [index |-> 0, timestamp |-> 0, previous_hash |-> <<>>, nonce |-> 0,
            merkle_root |-> MCMerkleRoot(<<"Genesis block">>),
            transactions |-> <<"Genesis block">>]
GenesisOnly == <<Genesis>>
NoChain == <<>>

TxSymmetry == Permutations(ValidTx)
=============================================================================
