SPECIFICATION FairSpec
CONSTANTS
  c1 = c1
  c2 = c2
  w1 = w1
  w2 = w2
  m1 = m1
  m2 = m2
  e1 = e1
  e2 = e2
  o1 = o1
  a1 = a1
  Consumers <- OneConsumer
  Workers <- TwoWorkers
  Messages <- TwoMessages
  Events <- TwoEvents
  EventOf <- OnePerEvent
  KindOf <- CreatedAndOutdated
  AppointmentOf <- OneAppointment
  Undated <- FirstIsUndated
  Offsets <- NoOffset
  MaxDeliver = 2
  MaxAttempts = 2
  Limit = 2
  MaxClaims = 4
  MaxFaults = 2
INVARIANT TypeOK
PROPERTY OnlyTheHolderFinishes
PROPERTY ImplementsMailing
PROPERTY EveryNoticeSettles
CHECK_DEADLOCK FALSE
