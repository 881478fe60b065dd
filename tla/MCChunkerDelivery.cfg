CONSTANTS
  u1 = u1
  u2 = u2
  c1 = c1
  c2 = c2
  t1 = t1

  NoReply = NoReply
  Empty = Empty
  Users <- MCUsers
  Clients <- MCOneClient
  Tokens <- MCTokens
  ClientUser <- MCOneClientUser
  ChunkSize = 2
  ReadSize = 2
  MaxOut = 3
  WordBits = 3
  Backlog = 3
  AuditCanFail = FALSE
  DropCanFail = FALSE
SPECIFICATION Spec
INVARIANT ServedExactlyOnce
