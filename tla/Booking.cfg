SPECIFICATION FairSpec
CONSTANTS
  r1 = r1  r2 = r2  a1 = a1  a2 = a2  b1 = b1  s1 = s1
  cust = cust  guest = guest  k1 = k1
  Requests = {r1, r2}
  AppointmentIDs = {a1, a2}
  Barbers = {b1}
  Services = {s1}
  Customers = {cust}
  Guests = {guest}
  Admins = {}
  Keys = {k1}
  Starts = {1, 3}
  Shapes <- BothShapes
  Notices <- SomePolicies
  SlotCheckApps = {"booking", "admin"}
  Loads <- AllLoads
INVARIANTS TypeOK NoDoubleBooking EventsTellTheRow OneBookingPerKey AnswerIsOwnBooking NoUniqueKeyRace
PROPERTIES ImplementsCalendar FinishedStaysFinished EveryRequestEnds
CHECK_DEADLOCK FALSE
