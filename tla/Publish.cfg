SPECIFICATION PublishSpec
CONSTANTS
  Photo = {p1, p2, p3}
  c1 = c1
  c2 = c2
  Content = {c1, c2}
  RawContent = {}
  User = {u1, u2}
  Publisher = u1
  Private = published
  Published = published
  Visibility = {published}
  f1 = f1
  f2 = f2
  File = {f1, f2}
  ContentOf <- MCContentOf
  travel = travel
  year = year
  Tag = {travel, year}
  Dates = {year}
  Dirs <- MCDirs
  Normal <- MCNormal
  MaxRuns = 2
  None = None
SYMMETRY MCSymmetry
INVARIANT PublishTypeOK NothingLost CleanRunsTagged
CHECK_DEADLOCK FALSE
