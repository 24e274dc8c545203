SPECIFICATION Spec
CONSTANTS
  RepoCount     = 5
  ManifestCount = 4
  RootCount     = 2
  Slug         <- MCSlug
  Fleet        <- MCPlain
  Jobs          = 1
  Streak        = 2
  MaxWaits      = 2
  Faults        = {"ban", "transient"}
INVARIANT
  StopsAfterStreak
