------------------------------ MODULE BlockCsv ------------------------------
(***************************************************************************)
(* The text form of blocks: common/block.c and the CSV files of            *)
(* common/blockchain.c.  A line has six fields.  Of a number the module    *)
(* keeps its value and whether it is written as %016x writes it: strtoull  *)
(* reads more (upper case, a sign, 0x, leading blanks).  Hashes are        *)
(* well-formed.  The last field is text, character by character, because   *)
(* everything depends on where its quotes, commas and colons are.          *)
(***************************************************************************)
EXTENDS Naturals, Sequences, FiniteSetsExt, SequencesExt, Merkle

CONSTANTS
  Char,
  MAX_TRANSACTION_LENGTH,
  MAX_TRANSACTIONS_PER_BLOCK

ASSUME CharAssumption == {":", ",", "\""} \subseteq Char
ASSUME LimitAssumption ==
  MAX_TRANSACTION_LENGTH \in Nat /\ MAX_TRANSACTIONS_PER_BLOCK \in Nat \ {0}

Quote == "\""
Failed == [ok |-> FALSE]

Number(value) == [value |-> value, canonical |-> TRUE]

\* What strstr(text + p, "::") finds: the next separator, or the end.
NextSeparator(text, p) ==
  LET found == {i \in p..(Len(text) - 1) : text[i] = ":" /\ text[i + 1] = ":"}
  IN IF found = {} THEN Len(text) + 1 ELSE Min(found)

\* The test of block_add_transaction.
LegalLength(text) == Len(text) \in 1..(MAX_TRANSACTION_LENGTH - 1)

-----------------------------------------------------------------------------
(* block_from_csv.                                                         *)

\* Mutant: the cursor moves behind the first colon of the separator only.
CursorsAfterOneColon(text) ==
  LET Cursor[k \in 1..(Len(text) + 1)] ==
        IF k = 1 THEN 1 ELSE NextSeparator(text, Cursor[k - 1]) + 1
  IN Cursor

\* transaction_cursor in each round of the loop; a separator takes two
\* characters.
Cursors(text) ==
  LET Cursor[k \in 1..(Len(text) \div 2 + 1)] ==
        IF k = 1 THEN 1 ELSE NextSeparator(text, Cursor[k - 1]) + 2
  IN Cursor

\* The last round is the first one that finds no separator.
Rounds(text) ==
  Min({k \in DOMAIN Cursors(text) : NextSeparator(text, Cursors(text)[k]) = Len(text) + 1})

\* Each round adds the text from the cursor to the next separator.
SplitTransactions ==
  [text \in Seq(Char) |->
     [k \in 1..Rounds(text) |->
        SubSeq(text, Cursors(text)[k], NextSeparator(text, Cursors(text)[k]) - 1)]]

\* The sixth field is the rest of the line: its commas belong to it, and so
\* do quotes other than the first and the last.
block_from_csv(line) ==
  LET raw == line.transactions
      txs == SplitTransactions[SubSeq(raw, 2, Len(raw) - 1)]
  IN IF /\ Len(raw) >= 2 /\ raw[1] = Quote /\ raw[Len(raw)] = Quote
        /\ Len(txs) <= MAX_TRANSACTIONS_PER_BLOCK
        /\ \A k \in 1..Len(txs) : LegalLength(txs[k])
     THEN [ok |-> TRUE,
           block |-> [index |-> line.index.value, timestamp |-> line.timestamp.value,
                      previous_hash |-> line.previous_hash, nonce |-> line.nonce.value,
                      merkle_root |-> line.merkle_root, transactions |-> txs]]
     ELSE Failed

-----------------------------------------------------------------------------
(* block_to_csv.                                                           *)

\* A transaction that would not be read back is refused.
Serialisable(b) ==
  /\ Len(b.transactions) \in 1..MAX_TRANSACTIONS_PER_BLOCK
  /\ \A k \in 1..Len(b.transactions) :
       LET tx == b.transactions[k]
       IN LegalLength(tx) /\ Quote \notin Range(tx) /\ NextSeparator(tx, 1) > Len(tx)

block_to_csv(b) ==
  IF Serialisable(b)
    THEN [ok |-> TRUE,
          line |-> [index |-> Number(b.index), timestamp |-> Number(b.timestamp),
                    previous_hash |-> b.previous_hash, merkle_root |-> b.merkle_root,
                    nonce |-> Number(b.nonce),
                    transactions |-> <<Quote>> \o Join(b.transactions) \o <<Quote>>]]
    ELSE Failed

-----------------------------------------------------------------------------
(* blockchain_load_csv: a file is whether it starts with the header, and   *)
(* the lines after it that are not empty.  One bad line, or none at all,   *)
(* and nothing is loaded.  The blocks are not validated.                   *)
ParsedLines(file) == [i \in 1..Len(file.lines) |-> block_from_csv(file.lines[i])]

blockchain_load_csv(file) ==
  LET parsed == ParsedLines(file)
  IN IF file.header /\ parsed # <<>> /\ \A i \in 1..Len(parsed) : parsed[i].ok
       THEN [ok |-> TRUE, chain |-> [i \in 1..Len(parsed) |-> parsed[i].block]]
       ELSE Failed

\* blockchain_save_csv: the header and one line for each block, up to the
\* first one that cannot be written.
blockchain_save_csv(chain) ==
  LET bad == {i \in 1..Len(chain) : ~Serialisable(chain[i])}
      count == IF bad = {} THEN Len(chain) ELSE Min(bad) - 1
  IN [header |-> TRUE, lines |-> [i \in 1..count |-> block_to_csv(chain[i]).line]]

\* A copy of the block at the end of the array, which grows when it is full.
blockchain_append(chain, block) == Append(chain, block)

\* The first block with an index, or with a hash: 0 if there is none.
blockchain_get_by_index(chain, index) ==
  LET found == {i \in 1..Len(chain) : chain[i].index = index}
  IN IF found = {} THEN 0 ELSE Min(found)

blockchain_get_by_hash(chain, hash) ==
  LET found == {i \in 1..Len(chain) : calculate_block_hash(chain[i]) = hash}
  IN IF found = {} THEN 0 ELSE Min(found)
=============================================================================
