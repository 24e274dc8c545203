SPECIFICATION Spec
CONSTANTS
  DbService   = {s1}
  FileService = {}
  Digest      = {d1}
  NoDigest    = NoDigest
  Calls       = {"read", "store"}
  Faults      = {}
  MaxRev      = 3
INVARIANT
  OwnWritesVisible
