SPECIFICATION Spec
CONSTANTS
  Dashboard = {d1, d2, d3}
  Other     = d3
  SourceOf <- MCSourceOf
  Metrics   = {m1, m2}
  MaxRows   = 3
  MaxTears  = 2
  Fetcher   = {f1, f2}
  Version   = {v1, v2}
  First     = v1
  MaxCalls  = 4
  Sweeper   = {s1, s2}
  Repos     = 2
  Authored  = {w1}
  MaxStarts = 2
  MaxUndone = 1
  Builder   = {b1, b2}
  Records   = 2
  MaxBuilds = 3
  Scanner   = {c1, c2}
  MaxScans  = 3
SYMMETRY Symmetry
INVARIANTS
  SharedFilesTypeOK
  SerialVerifies
  TearCostsOne
  NoIdleRow
  AloneIsComplete
  SettledIsTrue
  ResultsAreWhole
  SweptByAnAuthoredRule
  ReportStaysTrue
  IndexIsOneBuild
  ReportedPinWasUsed
CHECK_DEADLOCK FALSE
