SPECIFICATION Spec
CONSTANTS
  DbService   = {s1, s2}
  FileService = {f1}
  Digest      = {d1}
  NoDigest    = NoDigest
  Calls       = {"read", "mutate", "restate", "store"}
  Faults      = {"backend", "write", "unlink", "crash"}
  MaxRev      = 3
INVARIANT
  ReadsAreFresh
PROPERTY
  ShowsCommittedLayers
