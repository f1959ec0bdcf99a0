------------------------------- MODULE Merkle -------------------------------
(***************************************************************************)
(* common/crypto.c: the Merkle root of a block's transactions and the hash *)
(* of a block.  SHA-256 is taken to be free of collisions: a digest is the *)
(* data it was computed from.  The digest of a transaction and that of two *)
(* digests differ, which is so for every text but the 128 hexadecimal      *)
(* digits of two digests; a valid transaction contains spaces.             *)
(***************************************************************************)
EXTENDS Naturals, Sequences, FiniteSetsExt, SequencesExt

Sha256Text(text) == <<"text", text>>
Sha256Pair(left, right) == <<"pair", left, right>>
EmptyDigest == Sha256Text(<<>>)

-----------------------------------------------------------------------------
(* calculate_merkle_root.                                                  *)

\* Mutant: an odd level is filled up with its own last digest.
ParentsOfDoubledLast(level) ==
  LET padded == IF Len(level) % 2 = 0 THEN level ELSE Append(level, level[Len(level)])
  IN [k \in 1..(Len(padded) \div 2) |-> Sha256Pair(padded[2 * k - 1], padded[2 * k])]

\* One round of the loop: fill an odd level up with SHA256(""), join pairs.
Parents(level) ==
  LET padded == IF Len(level) % 2 = 0 THEN level ELSE Append(level, EmptyDigest)
  IN [k \in 1..(Len(padded) \div 2) |-> Sha256Pair(padded[2 * k - 1], padded[2 * k])]

Levels(txs) ==
  LET Level[k \in 0..Len(txs)] ==
        IF k = 0 THEN [i \in 1..Len(txs) |-> Sha256Text(txs[i])] ELSE Parents(Level[k - 1])
  IN Level

\* The loop runs at least once, and until one digest is left.
calculate_merkle_root(txs) ==
  LET rounds == Min({k \in 1..Len(txs) : Len(Levels(txs)[k]) = 1})
  IN Levels(txs)[rounds][1]

-----------------------------------------------------------------------------
(* calculate_block_hash.                                                   *)

\* The text after each round of the loop over the transactions.
Joined(txs) ==
  LET Text[k \in 1..Len(txs)] ==
        IF k = 1 THEN txs[1] ELSE Text[k - 1] \o <<":", ":">> \o txs[k]
  IN Text

\* Transactions with "::" between them, as hashed and as written to a line.
Join(txs) == IF txs = <<>> THEN <<>> ELSE Joined(txs)[Len(txs)]

\* The fields have a fixed width, except for the transactions at the end.
build_block_hash_input(b) ==
  <<b.index, b.timestamp, b.previous_hash, b.merkle_root, b.nonce, Join(b.transactions)>>

calculate_block_hash(b) == <<"block", build_block_hash_input(b)>>
=============================================================================
