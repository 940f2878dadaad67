SPECIFICATION Spec
CONSTANTS
  Photo = {1, 2, 3, 4, 5}
  PageSize = 2
  MaxOffset = 4
  MaxChanges = 2
  None = None
INVARIANT TypeOK WalkFollowsListing LinksKeepDirection PagesPartition
