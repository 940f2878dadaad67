SPECIFICATION FairSpec
CONSTANTS
  User = {u1}
  Session = {s1, s2, s3}
  Logout = {l1, l2}
  WebLogout = {l2}
  TTL = 2
  MaxTime = 3
  None = None
INVARIANT TypeOK
PROPERTY SessionEndsRightly LogoutInvalidates NoResurrection ExpiredSessionsGo
CHECK_DEADLOCK FALSE
