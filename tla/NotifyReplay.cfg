SPECIFICATION Spec
CONSTANTS
  c1 = c1
  c2 = c2
  w1 = w1
  w2 = w2
  m1 = m1
  m2 = m2
  e1 = e1
  e2 = e2
  o1 = o1
  a1 = a1
  Consumers <- OneConsumer
  Workers <- OneWorker
  Messages <- TwoMessages
  Events <- TwoEvents
  EventOf <- OnePerEvent
  KindOf <- MovedThenConfirmed
  AppointmentOf <- OneAppointment
  Undated <- AllAreDated
  Offsets <- OneOffset
  MaxDeliver = 2
  MaxAttempts = 1
  Limit = 1
  MaxClaims = 1
  MaxFaults = 1
PROPERTY ReplayKeepsReminders
CHECK_DEADLOCK FALSE
