SPECIFICATION Spec
CONSTANTS
  a1 = a1
  a2 = a2
  i1 = i1
  i2 = i2
  e1 = e1
  Admins = {a1, a2}
  Ids = {i1, i2}
  Settings <- OnOff
  Events = {e1}
  Kinds = {"SYNC_FAILED", "TEST"}
  SyncKinds = {"SYNC_FAILED"}
  Faults = {}
  MaxChanges = 3
CHECK_DEADLOCK FALSE
INVARIANT SendersMatchTable
