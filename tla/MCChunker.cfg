CONSTANTS
  u1 = u1
  u2 = u2
  c1 = c1
  c2 = c2
  t1 = t1

  NoReply = NoReply
  Empty = Empty
  Users <- MCUsers
  Clients <- MCClients
  Tokens <- MCTokens
  ClientUser <- MCClientUser
  ChunkSize = 2
  ReadSize = 2
  MaxOut = 3
  WordBits = 3
  Backlog = 3
  AuditCanFail = TRUE
  DropCanFail = TRUE
SPECIFICATION Spec
INVARIANT TypeOK
PROPERTY CancelLeavesNoSurvivor
INVARIANT OffsetWithinSpool
INVARIANT DeadOnlyWhenDrained
