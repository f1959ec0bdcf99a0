----------------------------- MODULE MCArchive -----------------------------
(***************************************************************************)
(* Instances of Archive for TLC.  Characters are colon, comma, quote, one  *)
(* letter, and "t" and "u", which each stand for a valid transaction.      *)
(***************************************************************************)
EXTENDS Archive, TLC

MCChar == {"a", "t", "u", ":", ",", "\""}
MCValidTx == {<<"t">>, <<"u">>}
MCZeroHash == <<"zero">>

Texts(chars, n) == UNION {[1..k -> chars] : k \in 0..n}

\* Lists of up to five transactions: trees of heights 1, 2 and 3.
MCBatches == UNION {[1..k -> MCValidTx] : k \in 1..5}
MCProposed == {<<"\"", "t", ":", ":", "u", "\"">>, <<"t">>}

FirstLine(text) ==
  [index |-> Number(0), timestamp |-> Number(5), previous_hash |-> MCZeroHash,
   merkle_root |-> calculate_merkle_root(SplitTransactions[text]),
   nonce |-> Number(0), transactions |-> <<"\"">> \o text \o <<"\"">>]

NextLine(line, txs) ==
  [index |-> Number(line.index.value + 1), timestamp |-> Number(6),
   previous_hash |-> hash_block_fields(line), merkle_root |-> calculate_merkle_root(txs),
   nonce |-> Number(0), transactions |-> <<"\"">> \o Join(txs) \o <<"\"">>]

File(lines) == [header |-> TRUE, lines |-> lines]

\* One block: genesis texts with all patterns of colons, and of quotes and
\* commas.
GenesisFiles ==
       {File(<<FirstLine(t)>>) : t \in Texts({"a", ":"}, 4)}
  \cup {File(<<FirstLine(t)>>) : t \in Texts({"a", ",", "\""}, 2)}

Genesis == FirstLine(<<"a">>)
Second == NextLine(Genesis, <<<<"t">>, <<"u">>>>)

\* All "t" but perhaps the last.
MostlyT == {txs \in MCBatches : \A i \in 1..(Len(txs) - 1) : txs[i] = <<"t">>}

\* Two blocks, with each number of transactions, and with one thing wrong.
TwoBlockFiles == {File(<<Genesis, NextLine(Genesis, txs)>>) : txs \in MostlyT}

WrongFiles ==
  {File(<<>>), [header |-> FALSE, lines |-> <<Genesis>>],
   File(<<[Genesis EXCEPT !.transactions = <<"a">>]>>),
   File(<<[Genesis EXCEPT !.transactions = <<"\"">>]>>),
   File(<<[Genesis EXCEPT !.nonce.canonical = FALSE]>>),
   File(<<[Genesis EXCEPT !.index = Number(1)]>>),
   File(<<Second>>)}
  \cup {File(<<Genesis, line>>) :
          line \in {[Second EXCEPT !.index = Number(0)],
                    [Second EXCEPT !.index = Number(2)],
                    [Second EXCEPT !.index.canonical = FALSE],
                    [Second EXCEPT !.timestamp = Number(4)],
                    [Second EXCEPT !.previous_hash = MCZeroHash],
                    [Second EXCEPT !.merkle_root = MCZeroHash],
                    NextLine(Genesis, <<<<"a">>>>),
                    NextLine(Genesis, <<<<"t">>, <<"a">>>>)}}

MCNoFile == [header |-> FALSE, lines |-> <<>>, absent |-> TRUE]
MCFiles == {MCNoFile} \cup GenesisFiles \cup TwoBlockFiles \cup WrongFiles
=============================================================================
