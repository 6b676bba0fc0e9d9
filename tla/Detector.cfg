INIT MCInit
NEXT MCNext
CONSTANTS
  MaxChunks = 3
  MaxReads = 7
  MaxFaults = 1
  Archives <- MCArchives
  SaltSize = 1
  BlockSize = 2
  BufSize = 4
  MaxChecks = 4
INVARIANTS HashedInOrder IntactAccepted AcceptedIsIntact FilesReported
