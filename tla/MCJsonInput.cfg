CONSTANTS
  p1 = p1
  s1 = s1
  s2 = s2
  s3 = s3
  u1 = u1
  u2 = u2
  g0 = g0
  g1 = g1
  g2 = g2
  gcfg = gcfg
  p2 = p2
  j1 = j1
  j2 = j2
  j3 = j3
  b1 = b1
  b2 = b2
  XE = XE
  None = None
  Root = root
  Procs <- MCProcs2
  Sess <- MCSess
  Inodes <- MCInodes
  RetryCount = 5
  InitFile <- MCInitFile
  Deletable <- MCNoDeletable
  Users <- MCUsers
  Gids <- MCGids
  RootGid = g0
  CfgGid = gcfg
  PrimaryGid <- MCPrimaryGid
  GroupList <- MCGroupList
  SessUser <- MCSessUser
  SvcSess <- MCSvcSess
  InitGroups <- MCInitGroups
  JInodes <- MCJInodes
  Bodies <- MCBodies
  NServices = 1
  DebugFlags <- MCNoDebug
SPECIFICATION FcgiSpec
INVARIANT ScriptReadsOwnBody
