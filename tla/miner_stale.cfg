SPECIFICATION FairSpec
CONSTANTS
  ShortTx = {"Genesis block", "free text", "t1", "t2", "t3"}
  ValidTx = {"t1", "t2", "t3"}
  MAX_TRANSACTIONS_PER_BLOCK = 1
  BlockHash <- MCBlockHash
  MerkleRoot <- MCMerkleRoot
  M = 2
  Tx = {"t1", "t2"}
  InitialChain <- GenesisOnly
  ZeroHash = ZeroHash
  Times = {1}
  MEMPOOL_CAPACITY = 1
  MAX_PROBE_PEERS = 2
  StoppableMiners = {}
CHECK_DEADLOCK FALSE
PROPERTY RejectedMinerResyncs
