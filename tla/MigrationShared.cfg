SPECIFICATION AloneSpec
CONSTANTS
  Run          = {r1, r2}
  Survivor     = r1
  NoRun        = NoRun
  Path         = {p1}
  Config       = Config
  LayerId      = {l1}
  NoLayer      = NoLayer
  Mode         = {"run"}
  Dialect      = {"postgres", "sqlite"}
  Faults       = {"edit", "raise", "disk", "crash"}
  MaxVersion   = 1
INVARIANT
  OneLoaderPerTarget
PROPERTY
  AlwaysConcludes
CHECK_DEADLOCK FALSE
