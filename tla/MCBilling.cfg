SPECIFICATION FairSpec
CONSTANTS
  Customers = {c1, c2}
  Writers = {w1, w2}
  MaxInvoices = 3
  MaxMonths = 1
  MaxRetries = 2
  MaxManual = 1
  MaxSessions = 1
  MaxFaults = 1
INVARIANTS TypeOK NumbersSequential BilledOnce
PROPERTIES RecurringBilled PaymentRecorded
CHECK_DEADLOCK FALSE
