CONSTANTS
  Req = {r1}
  Conn = {c1}
  Tenant = {t1}
  AllTenants = AllTenants
  Unset = Unset
  Plain = Plain
  PoolLimits <- OneConnection
  NoConn = NoConn
SPECIFICATION Spec
INVARIANT ContextIsCleared
