SPECIFICATION Spec
CONSTANTS
  Row <- MCRow
  Home <- MCHome
  Parent <- MCParent
  Slug = {s1, s2}
  MaxCrashes = 2
INVARIANT OldDatabasesComeUp
CHECK_DEADLOCK FALSE
