SPECIFICATION Spec
SYMMETRY Alike
CONSTANTS
  r1 = r1  r2 = r2  b1 = b1  b2 = b2  p1 = p1  p2 = p2  s1 = s1  i1 = i1  i2 = i2
  Slots = {r1, r2}
  Branches = {p1, p2}
  Barbers = {b1, b2}
  Services = {s1}
  Chair = b1
  Sitter = i1
  Identities = {i1, i2}
  Shapes <- MCShapes
  Intervals <- MCIntervals
  Blocks <- MCBlocks
  Appointments <- MCAppointments
  BookingInterval = 0
  FallbackInterval = 2
  DayEnd = 6
  Now = 0
  Loads = {"access", "links", "schedule"}
  MaxRequests <- MCMaxRequests
  MaxSaves <- MCMaxSaves
INVARIANTS TypeOK AccessIsTheShop HoursAreOneReplacement SlotsAreInOrder AvailabilityIsTheSchedule LastingIsKept
PROPERTIES LinkIsEarned
CHECK_DEADLOCK FALSE
