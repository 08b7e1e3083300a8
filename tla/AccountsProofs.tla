--------------------------- MODULE AccountsProofs ---------------------------
(***************************************************************************)
(* Proofs about Accounts, for any users, tabs, tenants and roles and any   *)
(* number of logins and refreshes under way.                               *)
(***************************************************************************)
EXTENDS Accounts, TLAPS

\* What TokenTenantIsOwn needs to be inductive: logins that have read a row obey
\* it too, and an absent row has no tenant yet, so that creating it contradicts
\* no token of the break-glass login.
LoginTenantIsOwn ==
  \A d \in Tab :
    login[d] # NoLogin => login[d].tenant \in {users[login[d].sub].tenant, NoTenant}

AbsentHasNoTenant ==
  \A u \in User : users[u].status = "absent" => users[u].tenant = NoTenant

TokenInv ==
  TypeOK /\ TokenTenantIsOwn /\ LoginTenantIsOwn /\ AbsentHasNoTenant /\ PairIsOneUser

-----------------------------------------------------------------------------
\* A tab's pair after setTokens keeps its type.
LEMMA SetTokensTyped ==
  ASSUME TypeOK, NEW d \in Tab,
         NEW a \in Token \union {NoToken}, NEW f \in Token \union {NoToken}, SetTokens(d, a, f)
  PROVE  /\ access' \in [Tab -> Token \union {NoToken}]
         /\ refresh' \in [Tab -> Token \union {NoToken}]
BY DEF TypeOK, SetTokens

\* create_access_token and create_refresh_token make tokens.
LEMMA TokensTyped ==
  ASSUME NEW u \in User, NEW role \in Role, NEW tenant \in Tenant \union {NoTenant}
  PROVE  /\ AccessToken(u, role, tenant) \in Token
         /\ RefreshToken(u, role) \in Token
BY DEF AccessToken, RefreshToken, Token

\* The rows before any was created.
LEMMA InitTyped == Init => TypeOK
BY AccountsAssumption DEF Init, TypeOK, NoRow, UserRow

\* Every step keeps the types.
LEMMA TypeStep == TypeOK /\ [Next]_vars => TypeOK'
<1> SUFFICES ASSUME TypeOK, [Next]_vars PROVE TypeOK'
  OBVIOUS
<1> USE NullsFresh
<1>1. ASSUME NEW d \in Tab, LoginAnswers(d) PROVE TypeOK'
  <2>1. login[d] \in Token
    BY <1>1 DEF LoginAnswers, TypeOK
  <2>2. RefreshToken(login[d].sub, login[d].role) \in Token
    BY <2>1, TokensTyped DEF Token, RefreshToken
  <2>3. /\ access' \in [Tab -> Token \union {NoToken}]
        /\ refresh' \in [Tab -> Token \union {NoToken}]
    BY <1>1, <2>1, <2>2, SetTokensTyped DEF LoginAnswers
  <2> QED
    BY <1>1, <2>3 DEF LoginAnswers, TypeOK
<1>2. ASSUME NEW d \in Tab, LoginRefused(d) PROVE TypeOK'
  BY <1>2 DEF LoginRefused, TypeOK
<1>3. ASSUME NEW d \in Tab, RefreshSends(d) PROVE TypeOK'
  BY <1>3 DEF RefreshSends, TypeOK
<1>4. ASSUME NEW d \in Tab, RefreshAnswers(d) PROVE TypeOK'
  <2>1. asking[d] \in Token
    BY <1>4 DEF RefreshAnswers, TypeOK
  <2>2. /\ AccessToken(asking[d].sub, asking[d].role, NoTenant) \in Token
        /\ RefreshToken(asking[d].sub, asking[d].role) \in Token
    BY <2>1 DEF Token, AccessToken, RefreshToken
  <2>3. /\ access' \in [Tab -> Token \union {NoToken}]
        /\ refresh' \in [Tab -> Token \union {NoToken}]
    BY <1>4, <2>2, SetTokensTyped DEF RefreshAnswers
  <2> QED
    BY <1>4, <2>3 DEF RefreshAnswers, TypeOK
<1>5. ASSUME NEW d \in Tab, RefreshFails(d) \/ Logout(d) PROVE TypeOK'
  BY <1>5 DEF RefreshFails, Logout, ClearTokens, SetTokens, TypeOK
<1>6. ASSUME NEW d \in Tab, AccessExpires(d) \/ RefreshExpires(d) PROVE TypeOK'
  BY <1>6 DEF AccessExpires, RefreshExpires, TypeOK
<1>7. ASSUME NEW d \in Tab, NEW u \in User, LoginReads(d, u) PROVE TypeOK'
  <2>1. AccessToken(u, users[u].role, users[u].tenant) \in Token
    BY TokensTyped DEF TypeOK, UserRow
  <2> QED
    BY <1>7, <2>1 DEF LoginReads, TypeOK
<1>8. ASSUME NEW u \in User, LoginDenied(u) PROVE TypeOK'
  BY <1>8 DEF LoginDenied, vars, TypeOK
<1>9. ASSUME NEW d \in Tab, NEW u \in User, NEW role \in Role,
             NEW tenant \in Tenant \union {NoTenant}, CreateUser(d, u, role, tenant)
      PROVE  TypeOK'
  BY <1>9 DEF CreateUser, TypeOK, UserRow
<1>10. ASSUME NEW d \in Tab, NEW u \in User, NEW role \in Role,
              NEW status \in {"active", "suspended"}, UpdateUser(d, u, role, status)
       PROVE  TypeOK'
  BY <1>10 DEF UpdateUser, TypeOK, UserRow
<1>11. ASSUME NEW d \in Tab, NEW u \in User, DeleteUser(d, u) PROVE TypeOK'
  <2>1. users[u].role \in Role
    BY DEF TypeOK, UserRow
  <2> QED
    BY <1>10, <1>11, <2>1 DEF DeleteUser
<1>12. CASE UNCHANGED vars
  BY <1>12 DEF vars, TypeOK
<1> QED
  BY <1>1, <1>2, <1>3, <1>4, <1>5, <1>6, <1>7, <1>8, <1>9, <1>10, <1>11, <1>12 DEF Next

\* Users, tabs and tokens keep their types.
THEOREM AccountsTyped == Spec => []TypeOK
<1>1. Init => TypeOK
  BY InitTyped
<1>2. TypeOK /\ [Next]_vars => TypeOK'
  BY TypeStep
<1> QED
  BY <1>1, <1>2, PTL DEF Spec

-----------------------------------------------------------------------------
\* A user's tenant, once its row exists, is never changed: update_user and
\* delete_user leave it alone.
TenantsGrow ==
  \A u \in User : users'[u].tenant = users[u].tenant \/ users[u].status = "absent"

\* Steps that leave the rows alone.
LEMMA TenantStep ==
  ASSUME TokenInv, TypeOK', UNCHANGED users,
         \A d \in Tab : access'[d] # NoToken =>
           access'[d].tenant \in {users[access'[d].sub].tenant, NoTenant},
         \A d \in Tab : login'[d] # NoLogin =>
           login'[d].tenant \in {users[login'[d].sub].tenant, NoTenant},
         PairIsOneUser'
  PROVE  TokenInv'
BY DEF TokenInv, TokenTenantIsOwn, LoginTenantIsOwn, AbsentHasNoTenant

\* Steps that leave tabs and logins alone.
LEMMA RowStep ==
  ASSUME TokenInv, TypeOK', UNCHANGED <<access, refresh, login>>,
         TenantsGrow, AbsentHasNoTenant'
  PROVE  TokenInv'
<1>1. TokenTenantIsOwn'
  <2> SUFFICES ASSUME NEW d \in Tab, access[d] # NoToken
               PROVE  access[d].tenant \in {users'[access[d].sub].tenant, NoTenant}
    BY DEF TokenTenantIsOwn
  <2>1. access[d].sub \in User
    BY DEF TokenInv, TypeOK, Token
  <2> QED
    BY <2>1 DEF TokenInv, TokenTenantIsOwn, TenantsGrow, AbsentHasNoTenant
<1>2. LoginTenantIsOwn'
  <2> SUFFICES ASSUME NEW d \in Tab, login[d] # NoLogin
               PROVE  login[d].tenant \in {users'[login[d].sub].tenant, NoTenant}
    BY DEF LoginTenantIsOwn
  <2>1. login[d].sub \in User
    BY DEF TokenInv, TypeOK, Token
  <2> QED
    BY <2>1 DEF TokenInv, LoginTenantIsOwn, TenantsGrow, AbsentHasNoTenant
<1>3. PairIsOneUser'
  BY DEF TokenInv, PairIsOneUser
<1> QED
  BY <1>1, <1>2, <1>3 DEF TokenInv

\* Every step keeps the invariant.
LEMMA TokenStep == TokenInv /\ [Next]_vars => TokenInv'
<1> SUFFICES ASSUME TokenInv, [Next]_vars PROVE TokenInv'
  OBVIOUS
<1> USE NullsFresh
<1>t. TypeOK /\ TypeOK'
  BY TypeStep DEF TokenInv
<1>1. ASSUME NEW d \in Tab, LoginAnswers(d) PROVE TokenInv'
  <2>1. /\ access' = [access EXCEPT ![d] = login[d]]
        /\ refresh' = [refresh EXCEPT ![d] = RefreshToken(login[d].sub, login[d].role)]
        /\ login' = [login EXCEPT ![d] = NoLogin]
        /\ login[d] # NoLogin /\ UNCHANGED users
    BY <1>1 DEF LoginAnswers, SetTokens
  <2>2. PairIsOneUser'
    BY <1>t, <2>1 DEF TokenInv, PairIsOneUser, RefreshToken, TypeOK
  <2> QED
    BY <1>t, <2>1, <2>2, TenantStep DEF TokenInv, TokenTenantIsOwn, LoginTenantIsOwn, TypeOK
<1>2. ASSUME NEW d \in Tab, LoginRefused(d) PROVE TokenInv'
  BY <1>2, <1>t, TenantStep
     DEF LoginRefused, TokenInv, TokenTenantIsOwn, LoginTenantIsOwn, PairIsOneUser, TypeOK
<1>3. ASSUME NEW d \in Tab, RefreshSends(d) PROVE TokenInv'
  BY <1>3, <1>t, TenantStep
     DEF RefreshSends, TokenInv, TokenTenantIsOwn, LoginTenantIsOwn, PairIsOneUser
<1>4. ASSUME NEW d \in Tab, RefreshAnswers(d) PROVE TokenInv'
  <2> DEFINE a == AccessToken(asking[d].sub, asking[d].role, NoTenant)
  <2> DEFINE f == RefreshToken(asking[d].sub, asking[d].role)
  <2>1. /\ access' = [access EXCEPT ![d] = a]
        /\ refresh' = [refresh EXCEPT ![d] = f]
        /\ UNCHANGED <<login, users>>
    BY <1>4 DEF RefreshAnswers, SetTokens
  <2>2. a.tenant = NoTenant /\ a.sub = f.sub /\ a.role = f.role
    BY DEF AccessToken, RefreshToken
  <2> HIDE DEF a, f
  <2>3. PairIsOneUser'
    BY <1>t, <2>1, <2>2 DEF TokenInv, PairIsOneUser, TypeOK
  <2> QED
    BY <1>t, <2>1, <2>2, <2>3, TenantStep
       DEF TokenInv, TokenTenantIsOwn, LoginTenantIsOwn, TypeOK
<1>5. ASSUME NEW d \in Tab, RefreshFails(d) \/ Logout(d) PROVE TokenInv'
  <2>1. /\ access' = [access EXCEPT ![d] = NoToken]
        /\ refresh' = [refresh EXCEPT ![d] = NoToken]
        /\ UNCHANGED <<login, users>>
    BY <1>5 DEF RefreshFails, Logout, ClearTokens, SetTokens
  <2> QED
    BY <1>t, <2>1, TenantStep
       DEF TokenInv, TokenTenantIsOwn, LoginTenantIsOwn, PairIsOneUser, TypeOK
<1>6. ASSUME NEW d \in Tab, AccessExpires(d) \/ RefreshExpires(d) PROVE TokenInv'
  <2>1. CASE AccessExpires(d)
    BY <1>t, <2>1, TenantStep DEF AccessExpires,
       TokenInv, TokenTenantIsOwn, LoginTenantIsOwn, PairIsOneUser, TypeOK
  <2>2. CASE RefreshExpires(d)
    BY <1>t, <2>2, TenantStep DEF RefreshExpires,
       TokenInv, TokenTenantIsOwn, LoginTenantIsOwn, PairIsOneUser, TypeOK
  <2> QED
    BY <1>6, <2>1, <2>2
<1>7. ASSUME NEW d \in Tab, NEW u \in User, LoginReads(d, u) PROVE TokenInv'
  <2> DEFINE a == AccessToken(u, users[u].role, users[u].tenant)
  <2>1. /\ login' = [login EXCEPT ![d] = a]
        /\ UNCHANGED <<users, access, refresh>>
    BY <1>7 DEF LoginReads
  <2>2. a.sub = u /\ a.tenant = users[u].tenant
    BY DEF AccessToken
  <2> HIDE DEF a
  <2>3. PairIsOneUser'
    BY <2>1 DEF TokenInv, PairIsOneUser
  <2> QED
    BY <1>t, <2>1, <2>2, <2>3, TenantStep
       DEF TokenInv, TokenTenantIsOwn, LoginTenantIsOwn, TypeOK
<1>8. ASSUME NEW u \in User, LoginDenied(u) PROVE TokenInv'
  BY <1>8, <1>t, TenantStep
     DEF LoginDenied, vars, TokenInv, TokenTenantIsOwn, LoginTenantIsOwn, PairIsOneUser
<1>9. ASSUME NEW d \in Tab, NEW u \in User, NEW role \in Role,
             NEW tenant \in Tenant \union {NoTenant}, CreateUser(d, u, role, tenant)
      PROVE  TokenInv'
  <2>1. TenantsGrow /\ AbsentHasNoTenant'
    BY <1>9, <1>t DEF CreateUser, TenantsGrow, AbsentHasNoTenant, TokenInv, TypeOK
  <2> QED
    BY <1>9, <1>t, <2>1, RowStep DEF CreateUser
<1>10. ASSUME NEW d \in Tab, NEW u \in User, NEW role \in Role,
              NEW status \in {"active", "suspended"}, UpdateUser(d, u, role, status)
       PROVE  TokenInv'
  <2>1. \A v \in User : users'[v].tenant = users[v].tenant
    BY <1>10, <1>t DEF UpdateUser, TypeOK, UserRow
  <2>2. \A v \in User : users'[v].status = "absent" => users[v].status = "absent"
    BY <1>10, <1>t DEF UpdateUser, TypeOK, UserRow
  <2>3. TenantsGrow /\ AbsentHasNoTenant'
    BY <2>1, <2>2 DEF TenantsGrow, AbsentHasNoTenant, TokenInv
  <2> QED
    BY <1>10, <1>t, <2>3, RowStep DEF UpdateUser
<1>11. ASSUME NEW d \in Tab, NEW u \in User, DeleteUser(d, u) PROVE TokenInv'
  <2>1. users[u].role \in Role
    BY <1>t DEF TypeOK, UserRow
  <2> QED
    BY <1>10, <1>11, <2>1 DEF DeleteUser
<1>12. CASE UNCHANGED vars
  BY <1>12, <1>t, TenantStep
     DEF vars, TokenInv, TokenTenantIsOwn, LoginTenantIsOwn, PairIsOneUser
<1> QED
  BY <1>1, <1>2, <1>3, <1>4, <1>5, <1>6, <1>7, <1>8, <1>9, <1>10, <1>11, <1>12 DEF Next

\* The invariant holds in every state.
LEMMA TokenInvariant == Spec => []TokenInv
<1>1. Init => TokenInv
  <2> SUFFICES ASSUME Init PROVE TokenInv
    OBVIOUS
  <2>1. TokenTenantIsOwn /\ LoginTenantIsOwn /\ PairIsOneUser
    BY DEF Init, TokenTenantIsOwn, LoginTenantIsOwn, PairIsOneUser
  <2>2. AbsentHasNoTenant
    BY DEF Init, NoRow, AbsentHasNoTenant
  <2> QED
    BY <2>1, <2>2, InitTyped DEF TokenInv
<1>2. TokenInv /\ [Next]_vars => TokenInv'
  BY TokenStep
<1> QED
  BY <1>1, <1>2, PTL DEF Spec

\* A token names its user's own tenant or none: no order of logins, refreshes,
\* creations and updates gives a tab another tenant's token.
THEOREM TokensNameOwnTenant == Spec => []TokenTenantIsOwn
<1>1. TokenInv => TokenTenantIsOwn
  BY DEF TokenInv
<1> QED
  BY <1>1, TokenInvariant, PTL

\* The two tokens of a tab are of one user in one role, however late a refresh
\* is answered.
THEOREM TabsNeverMixUsers == Spec => []PairIsOneUser
<1>1. TokenInv => PairIsOneUser
  BY DEF TokenInv
<1> QED
  BY <1>1, TokenInvariant, PTL

-----------------------------------------------------------------------------
\* Where a token or a login comes from: each one after a step repeats the user
\* and role of one before it, except what LoginReads takes from a row that
\* entitles its user.
LEMMA CarriedFrom ==
  ASSUME TypeOK, [Next]_vars, NEW u \in User, NEW role \in Role, Carries(u, role)'
  PROVE  Carries(u, role) \/ (Entitled(u) /\ users[u].role = role)
<1> DEFINE At(e) == \/ access[e] # NoToken /\ Names(access[e], u, role)
                    \/ refresh[e] # NoToken /\ Names(refresh[e], u, role)
                    \/ asking[e] # NoToken /\ Names(asking[e], u, role)
                    \/ login[e] # NoLogin /\ Names(login[e], u, role)
<1> DEFINE Grants == Entitled(u) /\ users[u].role = role
<1>a. PICK e \in Tab : \/ access'[e] # NoToken /\ Names(access'[e], u, role)
                       \/ refresh'[e] # NoToken /\ Names(refresh'[e], u, role)
                       \/ asking'[e] # NoToken /\ Names(asking'[e], u, role)
                       \/ login'[e] # NoLogin /\ Names(login'[e], u, role)
  BY DEF Carries, Names
<1> SUFFICES At(e) \/ Grants
  BY DEF Carries
<1>1. ASSUME NEW d \in Tab, LoginAnswers(d) PROVE At(e)
  <2>1. /\ access' = [access EXCEPT ![d] = login[d]]
        /\ refresh' = [refresh EXCEPT ![d] = RefreshToken(login[d].sub, login[d].role)]
        /\ login' = [login EXCEPT ![d] = NoLogin]
        /\ login[d] # NoLogin /\ UNCHANGED asking
    BY <1>1 DEF LoginAnswers, SetTokens
  <2>2. CASE e = d
    BY <1>a, <2>1, <2>2 DEF RefreshToken, TypeOK, Names
  <2>3. CASE e # d
    BY <1>a, <2>1, <2>3 DEF TypeOK
  <2> QED
    BY <2>2, <2>3
<1>2. ASSUME NEW d \in Tab, LoginRefused(d) PROVE At(e)
  <2>1. /\ login' = [login EXCEPT ![d] = NoLogin]
        /\ UNCHANGED <<access, refresh, asking>>
    BY <1>2 DEF LoginRefused
  <2> QED
    BY <1>a, <2>1 DEF TypeOK
<1>3. ASSUME NEW d \in Tab, RefreshSends(d) PROVE At(e)
  <2>1. /\ refresh[d] # NoToken
        /\ asking' = [asking EXCEPT ![d] = refresh[d]]
        /\ UNCHANGED <<access, refresh, login>>
    BY <1>3 DEF RefreshSends
  <2> QED
    BY <1>a, <2>1 DEF TypeOK
<1>4. ASSUME NEW d \in Tab, RefreshAnswers(d) PROVE At(e)
  <2>1. /\ access' = [access EXCEPT
                       ![d] = AccessToken(asking[d].sub, asking[d].role, NoTenant)]
        /\ refresh' = [refresh EXCEPT ![d] = RefreshToken(asking[d].sub, asking[d].role)]
        /\ asking' = [asking EXCEPT ![d] = NoToken]
        /\ asking[d] # NoToken /\ UNCHANGED login
    BY <1>4 DEF RefreshAnswers, SetTokens
  <2>2. CASE e = d
    BY <1>a, <2>1, <2>2 DEF AccessToken, RefreshToken, TypeOK, Names
  <2>3. CASE e # d
    BY <1>a, <2>1, <2>3 DEF TypeOK
  <2> QED
    BY <2>2, <2>3
<1>5. ASSUME NEW d \in Tab, RefreshFails(d) \/ Logout(d) PROVE At(e)
  <2>1. /\ access' = [access EXCEPT ![d] = NoToken]
        /\ refresh' = [refresh EXCEPT ![d] = NoToken]
        /\ asking' = asking \/ asking' = [asking EXCEPT ![d] = NoToken]
        /\ UNCHANGED login
    BY <1>5 DEF RefreshFails, Logout, ClearTokens, SetTokens
  <2> QED
    BY <1>a, <2>1 DEF TypeOK
<1>6. ASSUME NEW d \in Tab, AccessExpires(d) \/ RefreshExpires(d) PROVE At(e)
  <2>1. /\ access' = access \/ access' = [access EXCEPT ![d] = NoToken]
        /\ refresh' = refresh \/ refresh' = [refresh EXCEPT ![d] = NoToken]
        /\ UNCHANGED <<asking, login>>
    BY <1>6 DEF AccessExpires, RefreshExpires
  <2> QED
    BY <1>a, <2>1 DEF TypeOK
<1>7. ASSUME NEW d \in Tab, NEW v \in User, LoginReads(d, v) PROVE At(e) \/ Grants
  <2>1. /\ login' = [login EXCEPT ![d] = AccessToken(v, users[v].role, users[v].tenant)]
        /\ Entitled(v) /\ UNCHANGED <<access, refresh, asking>>
    BY <1>7 DEF LoginReads
  <2>2. CASE e = d
    <3>1. Names(AccessToken(v, users[v].role, users[v].tenant), u, role) => Grants
      BY <2>1 DEF AccessToken, Names
    <3> QED
      BY <1>a, <2>1, <2>2, <3>1 DEF TypeOK
  <2>3. CASE e # d
    BY <1>a, <2>1, <2>3 DEF TypeOK
  <2> QED
    BY <2>2, <2>3
<1>8. ASSUME UNCHANGED <<access, refresh, login, asking>> PROVE At(e)
  BY <1>8, <1>a
<1>9. ASSUME NEW d \in Tab, NEW v \in User,
             \/ LoginDenied(v)
             \/ \E r \in Role, t \in Tenant \union {NoTenant} : CreateUser(d, v, r, t)
             \/ \E r \in Role, st \in {"active", "suspended"} : UpdateUser(d, v, r, st)
             \/ DeleteUser(d, v)
      PROVE  At(e)
  <2>1. UNCHANGED <<access, refresh, login, asking>>
    BY <1>9 DEF LoginDenied, vars, CreateUser, UpdateUser, DeleteUser
  <2> QED
    BY <1>8, <2>1
<1>10. CASE UNCHANGED vars
  BY <1>8, <1>10 DEF vars
<1> HIDE DEF At, Grants
<1> QED
  BY <1>1, <1>2, <1>3, <1>4, <1>5, <1>6, <1>7, <1>9, <1>10 DEF Next

\* A role that was revoked, and that no token or login carries any more, stays
\* revoked until the row grants it again: refresh_token, which reads no row, and
\* a login that read one long ago bring nothing back.
THEOREM RevokedRolesStayRevoked == Spec => RevokedStaysRevoked
<1>1. TypeOK /\ [Next]_vars =>
        [\A u \in User, role \in Role :
           LET grants == Entitled(u) /\ users[u].role = role
           IN ~Carries(u, role) /\ ~grants => ~Carries(u, role)']_vars
  BY CarriedFrom
<1> QED
  BY <1>1, AccountsTyped, PTL DEF Spec, RevokedStaysRevoked

=============================================================================
