CONSTANT
  Frames <- MCFrames
SPECIFICATION Spec
INVARIANTS
  ReadsInBounds
  MetaUsable
  RewriteInBounds
  ChecksumsFresh
CHECK_DEADLOCK FALSE
