SPECIFICATION Spec
CONSTANTS
  Lookup = {1, 2, 4}
  CallerOf <- MCCallerOf
  Point <- MCPoint
  Key <- MCKey
  CacheKey <- MCCacheKey
  PlaceOf <- MCPlaceOf
  Place <- MCPlace
  Nowhere = "nowhere"
  Failed = "failed"
  Interval = 2
  MaxTime = 5
  None = None
INVARIANT AnswersTrue NoRepeat NoThreeInInterval
CHECK_DEADLOCK FALSE
