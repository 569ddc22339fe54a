SPECIFICATION FairSpec
CONSTANTS
  Clients <- MCOne
  Offs <- MCOff
  Watchers <- MCWatch
  Uninstallers <- MCRemove
  LockWait = 1
  RecoveryWait = 2
  MaxInode = 2
INVARIANTS TypeOK OnlyRemovalSplits RuntimeTrusted
PROPERTIES WaitEnds
