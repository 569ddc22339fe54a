SPECIFICATION Spec
CONSTANTS
  Clients <- MCTwo
  Offs <- MCNobody
  Watchers <- MCNobody
  Uninstallers <- MCRemove
  LockWait = 1
  RecoveryWait = 2
  MaxInode = 2
INVARIANTS MutualExclusion
