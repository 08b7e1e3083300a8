CONSTANTS
  User = {admin, user}
  Admin = admin
  Tab = {d1}
  Tenant = {t1, t2}
  NoTenant = NoTenant
  Role = {"super_admin", "agent"}
  NoToken = NoToken
  NoLogin = NoLogin
  MaxLogins = 1
  MaxRefreshes = 1
SPECIFICATION Spec
INVARIANT TenantIsKept
