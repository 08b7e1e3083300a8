------------------------------ MODULE Accounts ------------------------------
(***************************************************************************)
(* Users, logins and tokens: services/api/src/main.py (login,              *)
(* refresh_token, logout), auth.py, the user routes of routers/admin.py    *)
(* and the token handling of a dashboard tab (apps/client-dashboard/src/   *)
(* lib/api/client.ts and auth.ts).                                         *)
(*                                                                         *)
(* Tokens are signed, not stored: a tab keeps the pair it was given last,  *)
(* and a token ends by expiring.  Of a token the model keeps what routes   *)
(* read: subject (here the address; the row's id once there is a row),     *)
(* role and client_id.  Login is split after its SELECT,                   *)
(* refresh between the tab's request and the answer, since rows and tabs   *)
(* may change in between.  Requests that are refused change nothing but    *)
(* the tab.  The tables behind the user routes are module Records.         *)
(***************************************************************************)
EXTENDS Naturals, FiniteSets

CONSTANTS
  User,       \* e-mail addresses
  Admin,      \* API_ADMIN_EMAIL, one of them
  Tab,
  Tenant,
  NoTenant,   \* tenant_id NULL, or no client_id in the token
  Role,
  NoToken, NoLogin,
  MaxLogins, MaxRefreshes   \* requests of either kind under way at once

UserRow == [status : {"absent", "active", "suspended"}, role : Role,
            tenant : Tenant \union {NoTenant}]
Token == [sub : User, role : Role, tenant : Tenant \union {NoTenant}]

ASSUME AccountsAssumption ==
  /\ Admin \in User
  /\ NoTenant \notin Tenant
  /\ "super_admin" \in Role /\ Role \subseteq {"super_admin", "tenant_admin", "agent"}
ASSUME BoundsAssumption == MaxLogins \in Nat /\ MaxRefreshes \in Nat
ASSUME NullsFresh == NoToken \notin Token /\ NoLogin \notin Token

VARIABLES
  users,     \* admin_users
  access,    \* the access token of each tab, while it is valid
  refresh,   \* its refresh token, while it is valid
  login,     \* a login whose row has been read: what its tokens will say
  asking     \* the refresh token sent to /auth/refresh

vars == <<users, access, refresh, login, asking>>

-----------------------------------------------------------------------------
TypeOK ==
  /\ users \in [User -> UserRow]
  /\ access \in [Tab -> Token \union {NoToken}]
  /\ refresh \in [Tab -> Token \union {NoToken}]
  /\ login \in [Tab -> Token \union {NoLogin}]
  /\ asking \in [Tab -> Token \union {NoToken}]

NoRow == [status |-> "absent", role |-> "super_admin", tenant |-> NoTenant]

\* A new deployment: no row of admin_users yet.
Init ==
  /\ users = [u \in User |-> NoRow]
  /\ access = [d \in Tab |-> NoToken]
  /\ refresh = [d \in Tab |-> NoToken]
  /\ login = [d \in Tab |-> NoLogin]
  /\ asking = [d \in Tab |-> NoToken]

\* create_access_token, create_refresh_token: the latter never has a client_id.
AccessToken(u, role, tenant) == [sub |-> u, role |-> role, tenant |-> tenant]
RefreshToken(u, role) == [sub |-> u, role |-> role, tenant |-> NoTenant]

\* The pair a tab stores (setTokens) and discards (clearTokens).
SetTokens(d, a, f) ==
  /\ access' = [access EXCEPT ![d] = a]
  /\ refresh' = [refresh EXCEPT ![d] = f]

ClearTokens(d) == SetTokens(d, NoToken, NoToken)

-----------------------------------------------------------------------------
(* POST /auth/login                                                        *)

\* What the row that was read entitles its user to: an active row to its role;
\* no row at all, for the break-glass address alone, to super_admin.
Entitled(u) == users[u].status = "active" \/ (users[u].status = "absent" /\ u = Admin)

Pending(what, none) == Cardinality({d \in Tab : what[d] # none})

\* Mutant: the status of the row is not looked at.
LoginReadsAnyStatus(d, u) ==
  /\ login[d] = NoLogin /\ Pending(login, NoLogin) < MaxLogins
  /\ users[u].status # "absent" \/ u = Admin
  /\ login' = [login EXCEPT ![d] = AccessToken(u, users[u].role, users[u].tenant)]
  /\ UNCHANGED <<users, access, refresh, asking>>

LoginReads(d, u) ==
  /\ login[d] = NoLogin /\ Pending(login, NoLogin) < MaxLogins
  /\ Entitled(u)
  /\ login' = [login EXCEPT ![d] = AccessToken(u, users[u].role, users[u].tenant)]
  /\ UNCHANGED <<users, access, refresh, asking>>

LoginAnswers(d) ==
  /\ login[d] # NoLogin
  /\ SetTokens(d, login[d], RefreshToken(login[d].sub, login[d].role))
  /\ login' = [login EXCEPT ![d] = NoLogin]
  /\ UNCHANGED <<users, asking>>

\* 401: suspended, or an unknown address.
LoginDenied(u) == ~Entitled(u) /\ UNCHANGED vars

\* 401: wrong password or no password_hash; or the answer is lost.
LoginRefused(d) ==
  /\ login[d] # NoLogin
  /\ login' = [login EXCEPT ![d] = NoLogin]
  /\ UNCHANGED <<users, access, refresh, asking>>

-----------------------------------------------------------------------------
(* POST /auth/refresh, sent by the tab when a request was answered 401:    *)
(* a token has expired, or a login made with the same client was refused.  *)

RefreshSends(d) ==
  /\ refresh[d] # NoToken
  /\ asking[d] = NoToken /\ Pending(asking, NoToken) < MaxRefreshes
  /\ asking' = [asking EXCEPT ![d] = refresh[d]]
  /\ UNCHANGED <<users, access, refresh, login>>

\* Mutant: the role is not passed on and create_access_token's default applies.
RefreshLosesRole(d) ==
  /\ asking[d] # NoToken
  /\ SetTokens(d, AccessToken(asking[d].sub, "user", NoTenant), asking[d])
  /\ asking' = [asking EXCEPT ![d] = NoToken]
  /\ UNCHANGED <<users, login>>

\* Mutant: the refresh token is not replaced together with the access token.
RefreshAccessOnly(d) ==
  /\ asking[d] # NoToken
  /\ access' = [access EXCEPT ![d] = AccessToken(asking[d].sub, asking[d].role, NoTenant)]
  /\ asking' = [asking EXCEPT ![d] = NoToken]
  /\ UNCHANGED <<users, refresh, login>>

\* Mutant: the tenant is taken over from the token the tab had before.
RefreshTabTenant(d) ==
  /\ asking[d] # NoToken
  /\ LET tenant == IF access[d] = NoToken THEN NoTenant ELSE access[d].tenant
     IN SetTokens(d, AccessToken(asking[d].sub, asking[d].role, tenant), asking[d])
  /\ asking' = [asking EXCEPT ![d] = NoToken]
  /\ UNCHANGED <<users, login>>

\* refresh_token copies sub and role; it reads no row and knows no client_id.
RefreshAnswers(d) ==
  /\ asking[d] # NoToken
  /\ SetTokens(d, AccessToken(asking[d].sub, asking[d].role, NoTenant),
                  RefreshToken(asking[d].sub, asking[d].role))
  /\ asking' = [asking EXCEPT ![d] = NoToken]
  /\ UNCHANGED <<users, login>>

\* 401 or no answer: the tab logs out.
RefreshFails(d) ==
  /\ asking[d] # NoToken
  /\ ClearTokens(d)
  /\ asking' = [asking EXCEPT ![d] = NoToken]
  /\ UNCHANGED <<users, login>>

-----------------------------------------------------------------------------
\* Stateless: the tab discards its tokens, and only the tab.
Logout(d) ==
  /\ access[d] # NoToken
  /\ ClearTokens(d)
  /\ UNCHANGED <<users, login, asking>>

\* get_current_user and decode_refresh_token refuse a token after exp.
AccessExpires(d) ==
  /\ access[d] # NoToken
  /\ access' = [access EXCEPT ![d] = NoToken]
  /\ UNCHANGED <<users, refresh, login, asking>>

RefreshExpires(d) ==
  /\ refresh[d] # NoToken
  /\ refresh' = [refresh EXCEPT ![d] = NoToken]
  /\ UNCHANGED <<users, access, login, asking>>

-----------------------------------------------------------------------------
(* The user routes, for a tab whose token says super_admin.                *)

IsSuperAdmin(d) == access[d] # NoToken /\ access[d].role = "super_admin"

CreateUser(d, u, role, tenant) ==
  /\ IsSuperAdmin(d)
  /\ users[u].status = "absent"
  /\ users' = [users EXCEPT ![u] = [status |-> "active", role |-> role, tenant |-> tenant]]
  /\ UNCHANGED <<access, refresh, login, asking>>

\* UserUpdate has no tenant_id: a user's tenant never changes.
UpdateUser(d, u, role, status) ==
  /\ IsSuperAdmin(d)
  /\ users[u].status # "absent"
  /\ users' = [users EXCEPT ![u] = [@ EXCEPT !.role = role, !.status = status]]
  /\ UNCHANGED <<access, refresh, login, asking>>

DeleteUser(d, u) == UpdateUser(d, u, users[u].role, "suspended")

-----------------------------------------------------------------------------
Next ==
  \E d \in Tab :
    \/ LoginAnswers(d) \/ LoginRefused(d)
    \/ RefreshSends(d) \/ RefreshAnswers(d) \/ RefreshFails(d)
    \/ Logout(d) \/ AccessExpires(d) \/ RefreshExpires(d)
    \/ \E u \in User :
         \/ LoginReads(d, u) \/ LoginDenied(u)
         \/ \E role \in Role, tenant \in Tenant \union {NoTenant} : CreateUser(d, u, role, tenant)
         \/ \E role \in Role, status \in {"active", "suspended"} : UpdateUser(d, u, role, status)
         \/ DeleteUser(d, u)

Spec == Init /\ [][Next]_vars

-----------------------------------------------------------------------------
(* Properties.                                                             *)

\* What carries user u with a role: tokens in tabs and in flight, and logins
\* that have read a row.
Names(t, u, role) == t.sub = u /\ t.role = role

Carries(u, role) ==
  \E d \in Tab :
    \/ access[d] # NoToken /\ Names(access[d], u, role)
    \/ refresh[d] # NoToken /\ Names(refresh[d], u, role)
    \/ asking[d] # NoToken /\ Names(asking[d], u, role)
    \/ login[d] # NoLogin /\ Names(login[d], u, role)

\* A token names its user's own tenant or none, whatever was refreshed, created
\* or updated since, and however a late refresh meets another user's login.
TokenTenantIsOwn ==
  \A d \in Tab :
    access[d] # NoToken => access[d].tenant \in {users[access[d].sub].tenant, NoTenant}

\* A tab never mixes users: its two tokens are of one user with one role, also
\* when a refresh is answered after the tab has logged in as somebody else.
PairIsOneUser ==
  \A d \in Tab :
    access[d] # NoToken /\ refresh[d] # NoToken =>
      access[d].sub = refresh[d].sub /\ access[d].role = refresh[d].role

\* Suspension, demotion and the end of the break-glass login take effect at the
\* latest when the last token expires: once no token or login carries a user in
\* a role the row does not entitle it to, none does until the row changes.
RevokedStaysRevoked ==
  [][\A u \in User, role \in Role :
       LET grants == Entitled(u) /\ users[u].role = role
       IN ~Carries(u, role) /\ ~grants => ~Carries(u, role)']_vars

\* "Every route after login uses the resulting JWT's tenant_id": the access
\* token of a user created through the API names that user's tenant.
TenantIsKept ==
  \A d \in Tab :
    access[d] # NoToken /\ access[d].sub # Admin =>
      access[d].tenant = users[access[d].sub].tenant

=============================================================================
