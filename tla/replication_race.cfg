SPECIFICATION Spec
CONSTANTS
  ShortTx = {"Genesis block", "text with a quote", "free text", "t1", "t2"}
  ValidTx = {"t1", "t2"}
  QuotedTx = {"text with a quote"}
  MAX_TRANSACTIONS_PER_BLOCK = 2
  BlockHash <- MCBlockHash
  MerkleRoot <- MCMerkleRoot
  N = 2
  M = 2
  Workers = {w1, w2}
  Block <- RaceBlocks
  Malformed = Malformed
  InitialChain <- NoChain
  MAX_PROBE_PEERS = 2
  InboxCap = 3
  MaxSyncBlocks = 3
  LateMiners = {1}
  KillableNodes = {0}
  KillableMiners = {0}
  MaxProposals = 3
  MaxLives = 1
CHECK_DEADLOCK FALSE
INVARIANTS OneWinnerPerIndex MinersHearChainInOrder LedgerValid ReplicaPrefix IndexIsPosition
SYMMETRY WorkerSymmetry
