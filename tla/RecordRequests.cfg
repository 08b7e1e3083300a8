\* Two requests on one of the three tables, holding at most two rows.
CONSTANTS
  Table = {"clients", "users", "customers"}
  Id = {i1, i2}
  Key = {k1, k2}
  Kind = {p1, p2}
  Status = {active, removed}
  Removed = removed
  Active = active
  Req = {r1, r2}
  None = None
SPECIFICATION Spec
SYMMETRY Symmetric
CHECK_DEADLOCK FALSE
INVARIANTS
  TypeOK
  KeysUnique
  AuditedWasCommitted
PROPERTIES
  NoFieldClobbered
