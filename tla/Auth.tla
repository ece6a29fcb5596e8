----------------------------------- MODULE Auth -----------------------------------
(***************************************************************************)
(* Who is let into the API and for how long: app/services/auth_service.py, *)
(* app/core/security.py, the gate require_it_admin and the account side of *)
(* app/services/user_service.py.  A token carries the role of its owner at *)
(* the time it was issued and is never looked up again; only refresh and   *)
(* /auth/me read the user row.  Time is a clock that ticks in units of     *)
(* which AccessTtl and RefreshTtl make the two token lifetimes.            *)
(***************************************************************************)
EXTENDS Naturals, FiniteSets

CONSTANTS
  Users,       \* user ids, told apart by their unique email
  AccessTtl,   \* JWT_ACCESS_TOKEN_EXPIRE_MINUTES
  RefreshTtl,  \* JWT_REFRESH_TOKEN_EXPIRE_MINUTES
  MaxTime,     \* bound: the clock stops here
  MaxTokens    \* bound: tokens that are valid at the same time

ASSUME AuthAssumption ==
  /\ AccessTtl \in Nat
  /\ RefreshTtl \in Nat
  /\ MaxTime \in Nat
  /\ MaxTokens \in Nat

VARIABLES
  now,       \* the clock
  accounts,  \* table user: role, is_active, updated_at
  tokens     \* the tokens in clients' hands that have not expired

vars == <<now, accounts, tokens>>

UserRoles == {"employee", "manager", "it_admin"}

TokenTypes == {"access", "refresh"}

Account ==
  [exists : BOOLEAN, role : UserRoles, is_active : BOOLEAN, updated_at : Nat]

NoAccount ==
  [exists |-> FALSE, role |-> "employee", is_active |-> FALSE, updated_at |-> 0]

Token == [sub : Users, type : TokenTypes, role : UserRoles, exp : Nat]

-----------------------------------------------------------------------------
(* Tokens.                                                                 *)

\* create_access_token, create_refresh_token.
CreateAccessToken(u, role) ==
  [sub |-> u, type |-> "access", role |-> role, exp |-> now + AccessTtl]

CreateRefreshToken(u, role) ==
  [sub |-> u, type |-> "refresh", role |-> role, exp |-> now + RefreshTtl]

\* The TokenResult every successful call of AuthService returns.
Issue(u, role) ==
  LET issued == {CreateAccessToken(u, role), CreateRefreshToken(u, role)} IN
  /\ Cardinality(tokens \cup issued) <= MaxTokens
  /\ tokens' = tokens \cup issued

\* decode_token: signed, not expired, of the expected type.
Decodes(t, type) == t.type = type /\ now < t.exp

\* require_it_admin on top of get_current_user: the claims decide alone.
Admits(t) == Decodes(t, "access") /\ t.role = "it_admin"

\* _get_active_user taking any user that exists.
HasAccount(u) == accounts[u].exists

\* _get_active_user.
ActiveUser(u) == accounts[u].exists /\ accounts[u].is_active

-----------------------------------------------------------------------------
(* app/services/auth_service.py.                                           *)

Register(u, role) ==
  /\ ~accounts[u].exists
  /\ accounts' = [accounts EXCEPT ![u] =
       [exists |-> TRUE, role |-> role, is_active |-> TRUE, updated_at |-> now]]
  /\ Issue(u, role)
  /\ UNCHANGED now

\* authenticate, with the right password.
Login(u) ==
  /\ ActiveUser(u)
  /\ Issue(u, accounts[u].role)
  /\ UNCHANGED <<now, accounts>>

\* refresh copying the claims of the old token instead of the row's.
ClaimedRole(t) == t.role

\* refresh reads the row for the new claims.
RefreshedRole(t) == accounts[t.sub].role

Refresh(t) ==
  /\ Decodes(t, "refresh")
  /\ ActiveUser(t.sub)
  /\ Issue(t.sub, RefreshedRole(t))
  /\ UNCHANGED <<now, accounts>>

-----------------------------------------------------------------------------
(* app/services/user_service.py behind the gate.  An update that changes   *)
(* no column writes nothing, updated_at included.                          *)

Updated(account, new) ==
  IF new = account THEN account ELSE [new EXCEPT !.updated_at = now]

CreateUser(u, role) ==
  /\ ~accounts[u].exists
  /\ accounts' = [accounts EXCEPT ![u] =
       [exists |-> TRUE, role |-> role, is_active |-> TRUE, updated_at |-> now]]
  /\ UNCHANGED <<now, tokens>>

ChangeRole(u, role) ==
  /\ accounts[u].exists
  /\ accounts' = [accounts EXCEPT ![u] = Updated(@, [@ EXCEPT !.role = role])]
  /\ UNCHANGED <<now, tokens>>

\* Refused while the user has a device or an open request, which is not kept
\* here (UserService, HasActiveDevicesOrRequests): any time may be such a time.
Deactivate(u) ==
  /\ accounts[u].exists
  /\ accounts' = [accounts EXCEPT ![u] = Updated(@, [@ EXCEPT !.is_active = FALSE])]
  /\ UNCHANGED <<now, tokens>>

Activate(u) ==
  /\ accounts[u].exists
  /\ accounts' = [accounts EXCEPT ![u] = Updated(@, [@ EXCEPT !.is_active = TRUE])]
  /\ UNCHANGED <<now, tokens>>

-----------------------------------------------------------------------------
(* Time passes; a token that has expired decodes never again.              *)

Tick ==
  /\ now < MaxTime
  /\ now' = now + 1
  /\ tokens' = {t \in tokens : now' < t.exp}
  /\ UNCHANGED accounts

Init ==
  /\ now = 0
  /\ accounts = [u \in Users |-> NoAccount]
  /\ tokens = {}

\* The calls that need no admin: the routes of routers/auth.py.
AuthStep ==
  \/ \E u \in Users, role \in UserRoles : Register(u, role)
  \/ \E u \in Users : Login(u)
  \/ \E t \in tokens : Refresh(t)

\* The routes of routers/users.py, all behind require_it_admin.
AdminStep ==
  /\ \E t \in tokens : Admits(t)
  /\ \E u \in Users :
       \/ \E role \in UserRoles : CreateUser(u, role) \/ ChangeRole(u, role)
       \/ Deactivate(u)
       \/ Activate(u)

Next == AuthStep \/ AdminStep \/ Tick

Spec == Init /\ [][Next]_vars

-----------------------------------------------------------------------------
\* The tokens in circulation are rows of their types, none outlives its
\* lifetime counted from now, and a token that no longer says what the row
\* says was issued before the row's last change.  Inductive.
AuthInvariant ==
  /\ now \in Nat
  /\ accounts \in [Users -> Account]
  /\ tokens \subseteq Token
  /\ \A u \in Users : accounts[u].updated_at <= now
  /\ \A t \in tokens :
       t.type = "access" =>
         /\ t.exp <= now + AccessTtl
         /\ ~(accounts[t.sub].is_active /\ accounts[t.sub].role = t.role) =>
              t.exp <= accounts[t.sub].updated_at + AccessTtl

\* Whoever the admin gate lets in is an active IT admin by the user table, or
\* was one less than an access token's lifetime before the row last changed:
\* no chain of refreshes, role changes and reactivations carries a lost role
\* further than the access token that was out when it was lost.
AuthorityIsRecent ==
  \A t \in tokens :
    Admits(t) =>
      \/ accounts[t.sub].is_active /\ accounts[t.sub].role = "it_admin"
      \/ now < accounts[t.sub].updated_at + AccessTtl
=============================================================================
