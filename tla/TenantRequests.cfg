CONSTANTS
  Req = {r1, r2}
  Conn = {c1, c2}
  Tenant = {t1}
  AllTenants = AllTenants
  Unset = Unset
  Plain = Plain
  PoolLimits <- SmallPools
  NoConn = NoConn
SPECIFICATION FairSpec
INVARIANTS
  PoolAccounted
  FirstTransactionIsScoped
  OnlyCommitsLeaveContext
PROPERTY EveryRequestEnds
