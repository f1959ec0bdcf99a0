SPECIFICATION FairSpec
CONSTANTS
  ShortTx = {"Genesis block", "text with a quote", "free text", "t1", "t2"}
  ValidTx = {"t1", "t2"}
  QuotedTx = {"text with a quote"}
  MAX_TRANSACTIONS_PER_BLOCK = 2
  BlockHash <- MCBlockHash
  MerkleRoot <- MCMerkleRoot
  N = 2
  M = 2
  Workers = {w1, w2}
  Block <- QuotedLine
  Malformed = Malformed
  InitialChain <- QuotedOnly
  MAX_PROBE_PEERS = 2
  InboxCap = 3
  MaxSyncBlocks = 3
  LateMiners = {}
  KillableNodes = {1}
  KillableMiners = {}
  MaxProposals = 3
  MaxLives = 2
CHECK_DEADLOCK FALSE
INVARIANT IInv
PROPERTIES ImplementsLedger ProposalAnswered CommitReachesReplica
