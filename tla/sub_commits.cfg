SPECIFICATION Spec
CONSTANTS
  Surfaces = {s1, s2, s3}
  NoSurface = NoSurface
  MaxCommits = 3
SYMMETRY Symmetry
INVARIANTS
  TypeOK
  Acyclic
  ListsHoldChildren
  CommitsAddUp
  FeedbackIsCurrent
PROPERTIES
  SyncFollowsAncestor
  SyncIsAtomic
