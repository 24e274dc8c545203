SPECIFICATION Spec
CONSTANTS
  DbService   = {s1}
  FileService = {f1}
  Digest      = {d1, d2}
  NoDigest    = NoDigest
  Calls       = {"read", "stamp", "submit", "mutate"}
  Faults      = {"backend", "write", "crash"}
  MaxRev      = 4
INVARIANTS
  TypeOK
  MarkerNotBehindFile
  OwnWritesVisible
  StampedMeansPinned
PROPERTY
  NeverShowsOlderLayer
