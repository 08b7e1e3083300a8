CONSTANTS
  User = {admin, user}
  Admin = admin
  Tab = {d1, d2}
  Tenant = {t1}
  NoTenant = NoTenant
  Role = {"super_admin", "agent"}
  NoToken = NoToken
  NoLogin = NoLogin
  MaxLogins = 1
  MaxRefreshes = 1
SPECIFICATION Spec
SYMMETRY Symmetric
INVARIANTS
  TypeOK
  TokenTenantIsOwn
  PairIsOneUser
PROPERTY RevokedStaysRevoked
