SPECIFICATION RegistrationSpec
CONSTANTS
  g1 = g1
  g2 = g2
  g3 = g3
  g4 = g4
  Registration = {g1, g2, g3, g4}
  Username = {"ann", "bob", "cyd"}
  NameOf <- MCNameOf
  Invite = {i1}
  Lifetime = {1}
  MaxTime = 1
  CallsMayFail = TRUE
  Nobody = Nobody
INVARIANT RegistrationTypeOK
PROPERTY UsageIsFinal NoLateAdmission NoLateAdmin
CHECK_DEADLOCK FALSE
