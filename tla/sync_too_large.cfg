SPECIFICATION FairSpec
CONSTANTS
  ShortTx = {"Genesis block", "text with a quote", "free text", "t1", "t2"}
  ValidTx = {"t1", "t2"}
  QuotedTx = {"text with a quote"}
  MAX_TRANSACTIONS_PER_BLOCK = 2
  BlockHash <- MCBlockHash
  MerkleRoot <- MCMerkleRoot
  N = 2
  M = 1
  Workers = {w1, w2}
  Block <- LineBlocks
  Malformed = Malformed
  InitialChain <- GenesisOnly
  MAX_PROBE_PEERS = 2
  InboxCap = 3
  MaxSyncBlocks = 1
  LateMiners = {}
  KillableNodes = {}
  KillableMiners = {}
  MaxProposals = 3
  MaxLives = 1
CHECK_DEADLOCK FALSE
PROPERTY CommitReachesReplica
