SPECIFICATION FairSpec
CONSTANTS
  m1 = m1
  m2 = m2
  m3 = m3
  Nobody = Nobody
  Procs = {m1, m2, m3}
  Dialects = {"sqlite", "postgres"}
CHECK_DEADLOCK FALSE
INVARIANTS TypeOK SchemaIsTrue ServingHasItsSchema
PROPERTIES StartsEnd
