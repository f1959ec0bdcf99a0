------------------------------ MODULE Verifier ------------------------------
(***************************************************************************)
(* bash/blockchain.sh --verify: the second implementation of the rules,    *)
(* which reads a CSV file field by field and never uses the C code.  The   *)
(* comparison with validate_blockchain is in module Archive.               *)
(***************************************************************************)
EXTENDS Naturals, Sequences, FiniteSetsExt, SequencesExt, Merkle

CONSTANT ValidTx      \* texts that match the transaction pattern

-----------------------------------------------------------------------------
(* Fields and transactions.                                                *)

\* The fields of a line are read with IFS=','.
Comma == ","

\* What read puts into the variable transactions: the text before its first
\* comma.  What follows goes to extra and must be empty; read drops a comma
\* that is all there is.
UpToComma(raw) ==
  LET commas == {i \in 1..Len(raw) : raw[i] = Comma}
  IN IF commas = {} THEN raw ELSE SubSeq(raw, 1, Min(commas) - 1)

NoExtra(raw) == SubSeq(raw, Len(UpToComma(raw)) + 2, Len(raw)) \in {<<>>, <<Comma>>}

Quoted(text) == Len(text) >= 2 /\ text[1] = "\"" /\ text[Len(text)] = "\""
Transactions(line) ==
  LET text == UpToComma(line.transactions) IN SubSeq(text, 2, Len(text) - 1)

\* ${remaining%%::*} and ${remaining#*::}; without a separator, all of it.
Separators(text) == {i \in 1..(Len(text) - 1) : text[i] = ":" /\ text[i + 1] = ":"}
UpToSeparator(text) ==
  IF Separators(text) = {} THEN text ELSE SubSeq(text, 1, Min(Separators(text)) - 1)
AfterSeparator(text) ==
  IF Separators(text) = {} THEN text ELSE SubSeq(text, Min(Separators(text)) + 2, Len(text))

\* The variable remaining in each round of the loop.
Remaining(text) ==
  LET Left[k \in 1..(Len(text) + 1)] ==
        IF k = 1 THEN text ELSE AfterSeparator(Left[k - 1])
  IN Left

split_transactions(text) ==
  LET rounds == Min({k \in 1..(Len(text) + 1) : Separators(Remaining(text)[k]) = {}})
  IN [k \in 1..rounds |-> UpToSeparator(Remaining(text)[k])]

is_valid_transaction(tx) == tx \in ValidTx
is_u64_hex(number) == number.canonical

\* One round of the loop of the script's calculate_merkle_root.
Half(level) ==
  [k \in 1..((Len(level) + 1) \div 2) |->
     Sha256Pair(level[2 * k - 1],
                IF 2 * k <= Len(level) THEN level[2 * k] ELSE Sha256Text(<<>>))]

Halves(txs) ==
  LET Round[k \in 1..Len(txs)] ==
        IF k = 1 THEN Half([i \in 1..Len(txs) |-> Sha256Text(txs[i])]) ELSE Half(Round[k - 1])
  IN Round

\* It leaves at the first level with one entry after the leaves.
merkle_of(txs) ==
  Head(Halves(txs)[Min({k \in 1..Len(txs) : Len(Halves(txs)[k]) = 1})])

\* The fields as they stand in the line.
hash_block_fields(line) ==
  <<"block", <<line.index.value, line.timestamp.value, line.previous_hash,
               line.merkle_root, line.nonce.value, Transactions(line)>>>>

-----------------------------------------------------------------------------
(* verify_blockchain.                                                      *)

\* Mutant: every block is exempt from the transaction pattern.
VerifyAnyText(lines, i) ==
  LET line == lines[i]
      txs == split_transactions(Transactions(line))
  IN /\ NoExtra(line.transactions) /\ Quoted(UpToComma(line.transactions))
     /\ is_u64_hex(line.index) /\ is_u64_hex(line.timestamp) /\ is_u64_hex(line.nonce)
     /\ line.index.value = i - 1
     /\ \A k \in 1..Len(txs) : txs[k] # <<>>
     /\ merkle_of(txs) = line.merkle_root
     /\ i > 1 => line.previous_hash = hash_block_fields(lines[i - 1])

\* One line, after those before it.  The genesis block is exempt from the
\* transaction pattern.  Timestamps are not compared, and there is no limit
\* to the number and the length of transactions.
verify_line(lines, i) ==
  LET line == lines[i]
      txs == split_transactions(Transactions(line))
  IN /\ NoExtra(line.transactions) /\ Quoted(UpToComma(line.transactions))
     /\ is_u64_hex(line.index) /\ is_u64_hex(line.timestamp) /\ is_u64_hex(line.nonce)
     /\ line.index.value = i - 1
     /\ \A k \in 1..Len(txs) : txs[k] # <<>>
     /\ i > 1 => \A k \in 1..Len(txs) : is_valid_transaction(txs[k])
     /\ merkle_of(txs) = line.merkle_root
     /\ i > 1 => line.previous_hash = hash_block_fields(lines[i - 1])

verify_blockchain(file) ==
  /\ file.header /\ file.lines # <<>>
  /\ \A i \in 1..Len(file.lines) : verify_line(file.lines, i)
=============================================================================
