SPECIFICATION Spec
SYMMETRY Alike
CONSTANTS
  r1 = r1  r2 = r2  o1 = o1  o2 = o2  s1 = s1
  Slots = {r1, r2}
  Identities = {o1, o2, s1}
  Owners = {o1, o2}
  Holder = s1
  MemberRoutes = {"role", "activate", "deactivate"}
  Realms = {"members", "staff", "customer"}
  MaxRequests = 4
INVARIANTS TypeOK OwnerStays ActorIsStillOwner PasswordIsKnown SessionEndsWithItsPassword
PROPERTIES SentIsFinal
CHECK_DEADLOCK FALSE
