SPECIFICATION FairSpec
CONSTANTS
  Photo = {p1, p2}
  Content = {jpeg, raw}
  RawContent = {raw}
  u1 = u1
  u2 = u2
  d1 = d1
  d2 = d2
  User = {u1, u2}
  Private = private
  Visibility = {private, published}
  Deletion = {d1, d2}
  UserOf <- MCUserOf
  MaxCrashes = 1
  None = None
INVARIANT TypeOK RowHasFile NoUnexplainedFile ReplyIsTrue
PROPERTY OnlyOwnerDeletes ImplementsContract HandlersFinish
CHECK_DEADLOCK FALSE
