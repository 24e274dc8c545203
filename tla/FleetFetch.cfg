SPECIFICATION Spec
CONSTANTS
  RepoCount     = 3
  ManifestCount = 4
  RootCount     = 2
  Slug         <- MCSlug
  Fleet        <- MCMixed
  Jobs          = 2
  Streak        = 2
  MaxWaits      = 2
  Faults        = {"ban", "transient", "hang", "disk", "kill"}
INVARIANTS
  TypeOK
  CacheIsTrue
  CountersAddUp
  GraphIsTrue
  NoFalseAlarm
PROPERTY
  AlwaysEnds
