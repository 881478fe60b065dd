CONSTANTS
  p1 = p1
  p2 = p2
  s1 = s1
  s2 = s2
  s3 = s3
  None = None
  Procs <- MCProcs2
  Sess <- MCSess1
  Inodes <- MCInodes
  RetryCount = 5
  InitFile <- MCInitFile1
  Deletable <- MCDeletable
SPECIFICATION FaultSpec
INVARIANT TypeOK
PROPERTY AuthorizedReturns
VIEW StateView
