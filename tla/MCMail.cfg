SPECIFICATION FairSpec
CONSTANTS
  Workers = {w1, w2}
  MaxMails = 2
  MaxRetries = 2
  MaxFaults = 2
INVARIANTS TypeOK FiledOnce Threaded
PROPERTIES MailFiled
CHECK_DEADLOCK FALSE
