CONSTANTS
  p1 = p1  p2 = p2  u1 = u1  u2 = u2
  i1 = i1  i2 = i2  i3 = i3  t1 = t1
  NoTag = NoTag  None = None  Empty = Empty
  Procs <- MCProcs
  Users <- MCUsers
  Ids <- MCIds
  Tags <- MCTags
SPECIFICATION Spec
INVARIANT OnlyOwnerActs
SYMMETRY MCSymmetry
INVARIANT ListsOnlyOwn
