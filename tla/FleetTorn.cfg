SPECIFICATION Spec
CONSTANTS
  RepoCount     = 5
  ManifestCount = 4
  RootCount     = 2
  Slug         <- MCSlug
  Fleet        <- MCPlain
  Jobs          = 2
  Streak        = 2
  MaxWaits      = 2
  Faults        = {"kill"}
INVARIANT
  Resumes
