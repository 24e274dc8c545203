SPECIFICATION Spec
CONSTANTS
  Run          = {r1}
  NoRun        = NoRun
  Path         = {p1, p2}
  Config       = Config
  LayerId      = {l1, l2}
  NoLayer      = NoLayer
  Mode         = {"plan", "rehearse", "run"}
  Dialect      = {"postgres"}
  Faults       = {"edit", "raise", "disk", "crash"}
  MaxVersion   = 2
INVARIANTS
  TypeOK
  ReadyMeansMigrated
  ReadyMeansClean
  NothingDroppedSilently
  OneSourcePerLayer
SYMMETRY Symmetry
CHECK_DEADLOCK FALSE
