SPECIFICATION Spec
CONSTANTS
  Char <- MCChar
  ValidTx <- MCValidTx
  ZeroHash <- MCZeroHash
  Batches <- MCBatches
  Proposed <- MCProposed
  Files <- MCFiles
  NoFile <- MCNoFile
  MAX_TRANSACTION_LENGTH = 3
  MAX_TRANSACTIONS_PER_BLOCK = 5
  HEADER_SIZE = 2
  SOCKET_BUFFER = 2
  MAX_PAYLOAD_SIZE = 3
  Now = 7
  Indices = {0, 1}
  MaxBlocks = 3
  MaxCommands = 1
CHECK_DEADLOCK FALSE
INVARIANTS
  AnswerIsSnapshot
  SavedFileReloads
  VerifierAgrees
  RootBindsTransactions
PROPERTIES
  DeliversAllOrNothing
  CommandEnds
