SPECIFICATION Spec
CONSTANTS
  d1 = d1
  d2 = d2
  k1 = k1
  k2 = k2
  r1 = r1
  r2 = r2
  r3 = r3
  p1 = p1
  p2 = p2
  EmptyKey = EmptyKey
  NoPayload = NoPayload
  Devices = {d1, d2}
  Keys = {k1}
  KeyOf <- OneKey
  Vias = {"header"}
  ForeignKeys = FALSE
  MaxPuts = 2
  Payloads = {p1}
  Requests = {r1, r2}
SYMMETRY SymmetricRequests
INVARIANT NoOrphanData
