SPECIFICATION FairSpec
CONSTANTS
  MaxJobs = 2
  MaxChanges = 1
INVARIANTS TypeOK SecretContained NoStaleRows
PROPERTIES Settles Reenabled
CHECK_DEADLOCK FALSE
