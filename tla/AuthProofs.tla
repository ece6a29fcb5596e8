-------------------------------- MODULE AuthProofs --------------------------------
(***************************************************************************)
(* For any set of users and any lifetimes of the tokens: what the admin    *)
(* gate trusts was true of the user table not longer ago than the lifetime *)
(* of an access token.                                                     *)
(***************************************************************************)
EXTENDS Auth, TLAPS

\* A token issued now says what its owner's row says from now on.
Fresh(t) ==
  t.type = "access" =>
    /\ t.exp = now + AccessTtl
    /\ accounts'[t.sub].is_active
    /\ accounts'[t.sub].role = t.role

\* A user row is written at the present time or not at all.
Touched(u) == accounts'[u] = accounts[u] \/ accounts'[u].updated_at = now

\* The empty user table and no tokens.
LEMMA InitAuth == Init => AuthInvariant
BY AuthAssumption DEF Init, AuthInvariant, NoAccount, Account, UserRoles

\* While the clock stands still, touched rows and fresh tokens do no harm.
LEMMA CallKeeps ==
  ASSUME AuthInvariant,
         now' = now,
         accounts' \in [Users -> Account],
         \A u \in Users : Touched(u),
         tokens' \subseteq Token,
         \A t \in tokens' : t \in tokens \/ Fresh(t)
  PROVE  AuthInvariant'
<1>1. \A u \in Users : accounts'[u].updated_at <= now'
  BY DEF AuthInvariant, Touched
<1>2. ASSUME NEW t \in tokens', t.type = "access"
      PROVE  /\ t.exp <= now' + AccessTtl
             /\ ~(accounts'[t.sub].is_active /\ accounts'[t.sub].role = t.role) =>
                  t.exp <= accounts'[t.sub].updated_at + AccessTtl
  <2>1. t.sub \in Users /\ t.exp \in Nat /\ now \in Nat
    BY DEF AuthInvariant, Token
  <2>2. CASE t \in tokens
    <3>1. t.exp <= now + AccessTtl
      BY <1>2, <2>2 DEF AuthInvariant
    <3>2. CASE accounts'[t.sub] = accounts[t.sub]
      BY <1>2, <2>2, <3>1, <3>2 DEF AuthInvariant
    <3>3. CASE accounts'[t.sub].updated_at = now
      BY <3>1, <3>3
    <3> QED
      BY <2>1, <3>2, <3>3 DEF Touched
  <2>3. CASE Fresh(t)
    BY <1>2, <2>1, <2>3, AuthAssumption DEF Fresh
  <2> QED
    BY <2>2, <2>3
<1> QED
  BY <1>1, <1>2 DEF AuthInvariant

\* The pair a call returns is well typed, and its access token is fresh when
\* the row agrees with the claims.
LEMMA IssuedAreFresh ==
  ASSUME AuthInvariant, NEW u \in Users, NEW role \in UserRoles, Issue(u, role),
         accounts'[u].is_active, accounts'[u].role = role
  PROVE  /\ tokens' \subseteq Token
         /\ \A t \in tokens' : t \in tokens \/ Fresh(t)
<1>1. tokens' = tokens \cup {CreateAccessToken(u, role), CreateRefreshToken(u, role)}
  BY DEF Issue
<1>2. /\ CreateAccessToken(u, role) \in Token
      /\ CreateRefreshToken(u, role) \in Token
  BY AuthAssumption
  DEF AuthInvariant, Token, TokenTypes, CreateAccessToken, CreateRefreshToken
<1>3. Fresh(CreateAccessToken(u, role))
  BY DEF Fresh, CreateAccessToken
<1>4. Fresh(CreateRefreshToken(u, role))
  BY DEF Fresh, CreateRefreshToken
<1> QED
  BY <1>1, <1>2, <1>3, <1>4 DEF AuthInvariant

\* The routes that need no admin.
LEMMA AuthStepKeeps == AuthInvariant /\ AuthStep => AuthInvariant'
<1> SUFFICES ASSUME AuthInvariant, AuthStep PROVE AuthInvariant'
  OBVIOUS
<1>1. ASSUME NEW u \in Users, NEW role \in UserRoles, Register(u, role)
      PROVE  AuthInvariant'
  <2>1. accounts' = [accounts EXCEPT ![u] =
          [exists |-> TRUE, role |-> role, is_active |-> TRUE, updated_at |-> now]]
    BY <1>1 DEF Register
  <2>2. accounts' \in [Users -> Account]
    BY <2>1 DEF AuthInvariant, Account
  <2>3. \A v \in Users : Touched(v)
    BY <2>1 DEF AuthInvariant, Touched
  <2>4. accounts'[u].is_active /\ accounts'[u].role = role
    BY <2>1 DEF AuthInvariant
  <2>5. Issue(u, role) /\ now' = now
    BY <1>1 DEF Register
  <2> QED
    BY <2>2, <2>3, <2>4, <2>5, IssuedAreFresh, CallKeeps
<1>2. ASSUME NEW u \in Users, Login(u)
      PROVE  AuthInvariant'
  <2>1. accounts[u].role \in UserRoles
    BY DEF AuthInvariant, Account
  <2>2. accounts' = accounts /\ now' = now /\ Issue(u, accounts[u].role)
    BY <1>2 DEF Login
  <2>3. accounts'[u].is_active
    BY <1>2, <2>2 DEF Login, ActiveUser
  <2>4. /\ tokens' \subseteq Token
        /\ \A t \in tokens' : t \in tokens \/ Fresh(t)
    BY <2>1, <2>2, <2>3, IssuedAreFresh
  <2>5. accounts' \in [Users -> Account] /\ \A v \in Users : Touched(v)
    BY <2>2 DEF AuthInvariant, Touched
  <2> QED
    BY <2>2, <2>4, <2>5, CallKeeps
<1>3. ASSUME NEW t \in tokens, Refresh(t)
      PROVE  AuthInvariant'
  <2>1. t.sub \in Users /\ accounts[t.sub].role \in UserRoles
    BY DEF AuthInvariant, Account, Token
  <2>2. accounts' = accounts /\ now' = now /\ Issue(t.sub, accounts[t.sub].role)
    BY <1>3 DEF Refresh, RefreshedRole
  <2>3. accounts'[t.sub].is_active
    BY <1>3, <2>2 DEF Refresh, ActiveUser
  <2>4. /\ tokens' \subseteq Token
        /\ \A s \in tokens' : s \in tokens \/ Fresh(s)
    BY <2>1, <2>2, <2>3, IssuedAreFresh
  <2>5. accounts' \in [Users -> Account] /\ \A v \in Users : Touched(v)
    BY <2>2 DEF AuthInvariant, Touched
  <2> QED
    BY <2>2, <2>4, <2>5, CallKeeps
<1> QED
  BY <1>1, <1>2, <1>3 DEF AuthStep

\* An update writes the row now, or leaves it as it was.
LEMMA UpdatedRow ==
  ASSUME AuthInvariant, NEW u \in Users, NEW new \in Account,
         accounts' = [accounts EXCEPT ![u] = Updated(@, new)]
  PROVE  accounts' \in [Users -> Account] /\ \A v \in Users : Touched(v)
<1>1. Updated(accounts[u], new) = accounts[u]
        \/ (/\ Updated(accounts[u], new) \in Account
            /\ Updated(accounts[u], new).updated_at = now)
  BY DEF Updated, Account, AuthInvariant
<1>2. accounts[u] \in Account
  BY DEF AuthInvariant
<1>3. accounts' \in [Users -> Account]
  BY <1>1, <1>2 DEF AuthInvariant
<1>4. \A v \in Users : Touched(v)
  BY <1>1 DEF AuthInvariant, Touched
<1> QED
  BY <1>3, <1>4

\* The user administration.
LEMMA AdminStepKeeps == AuthInvariant /\ AdminStep => AuthInvariant'
<1> SUFFICES ASSUME AuthInvariant, AdminStep PROVE AuthInvariant'
  OBVIOUS
<1>1. ASSUME NEW u \in Users, NEW role \in UserRoles, CreateUser(u, role)
      PROVE  now' = now /\ tokens' = tokens
             /\ accounts' \in [Users -> Account] /\ \A v \in Users : Touched(v)
  <2>1. accounts' = [accounts EXCEPT ![u] =
          [exists |-> TRUE, role |-> role, is_active |-> TRUE, updated_at |-> now]]
    BY <1>1 DEF CreateUser
  <2>2. accounts' \in [Users -> Account]
    BY <2>1 DEF AuthInvariant, Account
  <2>3. \A v \in Users : Touched(v)
    BY <2>1 DEF AuthInvariant, Touched
  <2> QED
    BY <1>1, <2>2, <2>3 DEF CreateUser
<1>2. ASSUME NEW u \in Users, NEW role \in UserRoles, ChangeRole(u, role)
      PROVE  now' = now /\ tokens' = tokens
             /\ accounts' \in [Users -> Account] /\ \A v \in Users : Touched(v)
  <2>1. [accounts[u] EXCEPT !.role = role] \in Account
    BY DEF AuthInvariant, Account
  <2>2. accounts' = [accounts EXCEPT ![u] =
          Updated(@, [accounts[u] EXCEPT !.role = role])]
    BY <1>2 DEF ChangeRole, AuthInvariant
  <2> QED
    BY <1>2, <2>1, <2>2, UpdatedRow DEF ChangeRole
<1>3. ASSUME NEW u \in Users, Deactivate(u)
      PROVE  now' = now /\ tokens' = tokens
             /\ accounts' \in [Users -> Account] /\ \A v \in Users : Touched(v)
  <2>1. [accounts[u] EXCEPT !.is_active = FALSE] \in Account
    BY DEF AuthInvariant, Account
  <2>2. accounts' = [accounts EXCEPT ![u] =
          Updated(@, [accounts[u] EXCEPT !.is_active = FALSE])]
    BY <1>3 DEF Deactivate, AuthInvariant
  <2> QED
    BY <1>3, <2>1, <2>2, UpdatedRow DEF Deactivate
<1>4. ASSUME NEW u \in Users, Activate(u)
      PROVE  now' = now /\ tokens' = tokens
             /\ accounts' \in [Users -> Account] /\ \A v \in Users : Touched(v)
  <2>1. [accounts[u] EXCEPT !.is_active = TRUE] \in Account
    BY DEF AuthInvariant, Account
  <2>2. accounts' = [accounts EXCEPT ![u] =
          Updated(@, [accounts[u] EXCEPT !.is_active = TRUE])]
    BY <1>4 DEF Activate, AuthInvariant
  <2> QED
    BY <1>4, <2>1, <2>2, UpdatedRow DEF Activate
<1>5. now' = now /\ tokens' = tokens
      /\ accounts' \in [Users -> Account] /\ \A v \in Users : Touched(v)
  BY <1>1, <1>2, <1>3, <1>4 DEF AdminStep
<1>6. tokens' \subseteq Token
  BY <1>5 DEF AuthInvariant
<1> QED
  BY <1>5, <1>6, CallKeeps

\* A tick widens every bound and drops expired tokens.
LEMMA TickKeeps == AuthInvariant /\ Tick => AuthInvariant'
<1> SUFFICES ASSUME AuthInvariant, Tick PROVE AuthInvariant'
  OBVIOUS
<1>1. now' = now + 1 /\ now \in Nat /\ accounts' = accounts
  BY DEF Tick, AuthInvariant
<1>2. tokens' \subseteq tokens
  BY DEF Tick
<1>3. \A u \in Users : accounts[u].updated_at \in Nat /\ accounts[u].updated_at <= now
  BY DEF AuthInvariant, Account
<1>4. \A u \in Users : accounts'[u].updated_at <= now'
  BY <1>1, <1>3
<1>5. ASSUME NEW t \in tokens', t.type = "access"
      PROVE  /\ t.exp <= now' + AccessTtl
             /\ ~(accounts'[t.sub].is_active /\ accounts'[t.sub].role = t.role) =>
                  t.exp <= accounts'[t.sub].updated_at + AccessTtl
  <2>1. t.exp \in Nat /\ t.exp <= now + AccessTtl
    BY <1>2, <1>5 DEF AuthInvariant, Token
  <2>2. t.exp <= now' + AccessTtl
    BY <1>1, <2>1, AuthAssumption
  <2> QED
    BY <1>1, <1>2, <1>5, <2>2 DEF AuthInvariant
<1> QED
  BY <1>1, <1>2, <1>4, <1>5 DEF AuthInvariant

-----------------------------------------------------------------------------
\* Every reachable state: a token that disagrees with its owner's row is
\* older than the row's last change.
THEOREM TokensAgeOut == Spec => []AuthInvariant
<1>1. AuthInvariant /\ UNCHANGED vars => AuthInvariant'
  BY DEF AuthInvariant, vars
<1>2. AuthInvariant /\ [Next]_vars => AuthInvariant'
  BY <1>1, AuthStepKeeps, AdminStepKeeps, TickKeeps DEF Next
<1> QED
  BY InitAuth, <1>2, PTL DEF Spec

\* The gate never trusts a role that was lost an access token's lifetime ago.
THEOREM AuthorityAgesOut == Spec => []AuthorityIsRecent
<1>1. AuthInvariant => AuthorityIsRecent
  <2> SUFFICES ASSUME AuthInvariant, NEW t \in tokens, Admits(t),
                      ~(accounts[t.sub].is_active /\ accounts[t.sub].role = "it_admin")
               PROVE  now < accounts[t.sub].updated_at + AccessTtl
    BY DEF AuthorityIsRecent
  <2>1. t.type = "access" /\ now < t.exp /\ t.role = "it_admin"
    BY DEF Admits, Decodes
  <2>2. t.exp <= accounts[t.sub].updated_at + AccessTtl
    BY <2>1 DEF AuthInvariant
  <2>3. /\ now \in Nat
        /\ t.exp \in Nat
        /\ accounts[t.sub].updated_at \in Nat
    BY DEF AuthInvariant, Token, Account
  <2> QED
    BY <2>1, <2>2, <2>3, AuthAssumption
<1> QED
  BY <1>1, TokensAgeOut, PTL
=============================================================================
