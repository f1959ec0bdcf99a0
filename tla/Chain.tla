------------------------------- MODULE Chain -------------------------------
(***************************************************************************)
(* Blocks, chains and the validation rules of common/validation.c.         *)
(*                                                                         *)
(* A block is the record block_t holds once block_from_csv has parsed it:  *)
(* both hashes are then well-formed hexadecimal strings, so the two        *)
(* validate_hash_string calls of validate_block_structure cannot fail and  *)
(* have no counterpart here.  SHA-256 enters through two operators that    *)
(* nothing below looks into.                                               *)
(***************************************************************************)
EXTENDS Naturals, Sequences

CONSTANTS
  ShortTx,                     \* non-empty strings shorter than MAX_TRANSACTION_LENGTH
  ValidTx,                     \* those among them that match the transaction pattern
  MAX_TRANSACTIONS_PER_BLOCK,
  BlockHash(_),                \* calculate_block_hash
  MerkleRoot(_)                \* calculate_merkle_root

ASSUME TxAssumption == ValidTx \subseteq ShortTx
ASSUME MaxTxAssumption == MAX_TRANSACTIONS_PER_BLOCK \in Nat \ {0}

validate_transaction(tx) == tx \in ValidTx

\* The genesis block may carry any short text instead of transactions.
validate_block_structure(b) ==
  /\ Len(b.transactions) \in 1..MAX_TRANSACTIONS_PER_BLOCK
  /\ \A i \in 1..Len(b.transactions) :
       IF b.index = 0 THEN b.transactions[i] \in ShortTx
                      ELSE validate_transaction(b.transactions[i])

validate_block_merkle_root(b) ==
  /\ validate_block_structure(b)
  /\ MerkleRoot(b.transactions) = b.merkle_root

validate_block_link(previous, current) ==
  /\ validate_block_merkle_root(previous)
  /\ validate_block_merkle_root(current)
  /\ current.index = previous.index + 1
  /\ current.timestamp >= previous.timestamp
  /\ current.previous_hash = BlockHash(previous)

validate_blockchain(c) ==
  /\ c # <<>>
  /\ c[1].index = 0
  /\ \A i \in 1..Len(c) : validate_block_merkle_root(c[i])
  /\ \A i \in 2..Len(c) : validate_block_link(c[i - 1], c[i])

-----------------------------------------------------------------------------
(* The acceptance tests of node.c, for a block b arriving at chain c.      *)

\* Mutant: the predecessor is looked up by the block's index, not by the count.
ValidNextByIndex(c, b) ==
  /\ validate_block_merkle_root(b)
  /\ IF c = <<>> THEN b.index = 0
                 ELSE b.index \in 1..Len(c) /\ validate_block_link(c[b.index], b)

\* Mutant: the link to the last block is only an index.
ValidNextUnlinked(c, b) == validate_block_merkle_root(b) /\ b.index = Len(c)

\* A proposal at the coordinator, or the next block in a commit broadcast:
\* the first block of an empty chain must have index 0.
ValidNext(c, b) ==
  /\ validate_block_structure(b)
  /\ validate_block_merkle_root(b)
  /\ IF c = <<>> THEN b.index = 0
                 ELSE validate_block_link(c[Len(c)], b)

\* A line of a sync response: on an empty chain the index is not looked at.
ValidSynced(c, b) ==
  /\ validate_block_structure(b)
  /\ validate_block_merkle_root(b)
  /\ \/ c = <<>>
     \/ validate_block_link(c[Len(c)], b)
=============================================================================
