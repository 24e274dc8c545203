SPECIFICATION Spec
CONSTANTS
  DbService   = {s1}
  FileService = {}
  Digest      = {d1}
  NoDigest    = NoDigest
  Calls       = {"read", "mutate"}
  Faults      = {"backend"}
  MaxRev      = 3
INVARIANT
  CommittedCallsDoNotRaise
