------------------------------ MODULE Sessions ------------------------------
(***************************************************************************)
(* Tenants, users, memberships and login sessions: core/auth/              *)
(* auth.service.ts with modules/users and modules/tenants.  A handler      *)
(* gives up control at every await and uses no transaction, so each query  *)
(* is an action of its own; work[w] is a request and at is the query it is *)
(* about to send.  Queries whose result nothing depends on (the time of    *)
(* the last login, the user a refresh reads for its email) are left out.   *)
(*                                                                         *)
(* A request has the tenant context its header or subdomain names.  It      *)
(* matters where the tables it reads are scoped (UserTenant, Role); Prisma  *)
(* sends a query when it is awaited, and so unscoped(db => query) returns   *)
(* one that runs in the context after all.                                  *)
(*                                                                         *)
(* A tenant is identified by its slug and a user by its email, both unique *)
(* columns; a role by its tenant and name.  A token is a refresh token     *)
(* together with the payload of the access token issued with it.           *)
(***************************************************************************)
EXTENDS Api, Naturals, FiniteSets

CONSTANTS
  Users,        \* emails
  Tenants,      \* slugs
  RoleNames,    \* the roles ensureSystemRoles upserts, in its order
  RoleSets,     \* the sets of role ids an administrator may assign
  TokenIds,     \* refresh tokens the server may issue (bound)
  Workers,      \* requests handled at the same time (bound)
  Budgets,      \* how many requests of each kind a history has (bounds)
  CallRoutes,   \* guarded routes that are called
  MaxFaults     \* how many failures happen (bound)

Ops == {"register", "newTenant", "invite", "setRoles", "login", "refresh",
        "logout", "expire", "call"}

RoleIds == Tenants \X {RoleNames[i] : i \in DOMAIN RoleNames}

Nullable(S) == S \union {None}

Contexts == Nullable(Tenants \union {Nowhere})

Members == [user : Users, tenant : Tenants, owner : BOOLEAN,
            roles : SUBSET RoleIds]

Tokens == [user : Users, tenant : Nullable(Tenants), perms : SUBSET Grants,
           root : TokenIds,    \* the token the login issued
           revoked : BOOLEAN, expired : BOOLEAN,
           known : BOOLEAN]    \* did the client receive it?

ASSUME SessionsAssumption ==
  /\ None \notin Users \union Tenants \union TokenIds \union Tokens
                  \union Members
  /\ Nowhere \notin Nullable(Tenants)
  /\ RoleNames \in Seq(DOMAIN SystemRoles)
  /\ RoleSets \subseteq SUBSET RoleIds
  /\ Budgets \subseteq [Ops -> Nat]
  /\ CallRoutes \subseteq [public : BOOLEAN, needs : SUBSET Seq(STRING)]
  /\ MaxFaults \in Nat

VARIABLES
  tenants,     \* rows of Tenant
  users,       \* rows of User
  members,     \* rows of UserTenant
  roles,       \* rows of Role
  tokens,      \* rows of RefreshToken, with the payload issued along
  work,        \* per worker: the request it handles
  budget,      \* the requests still to come, by kind
  overlapped,  \* logins with a token two exchanges read before its revocation
  closed,      \* logins ended by a logout
  refused,     \* what calls the permission guard refused asked for and held
  faults       \* how many failures happened

accounts == <<tenants, users, members, roles>>
ghosts   == <<overlapped, closed, refused>>
vars     == <<accounts, tokens, work, budget, ghosts, faults>>

Awaits == {"idle", "findUser", "findTenant", "createTenant", "createUser",
           "createOwner", "newTenant", "upsertRole", "upsertUser",
           "upsertMember", "findAccount", "memberships", "findToken",
           "revoke", "resolve", "issue"}

Jobs == [at : Awaits, user : Nullable(Users), tenant : Nullable(Tenants),
         roles : SUBSET RoleIds,        \* to be assigned
         upserted : 0..Len(RoleNames),
         member : Nullable(Members),    \* the membership read
         perms : SUBSET Grants,         \* resolved from it
         token : Nullable(TokenIds)]    \* the token presented

Idle == [at |-> "idle", user |-> None, tenant |-> None, roles |-> {},
         upserted |-> 0, member |-> None, perms |-> {}, token |-> None]

Init ==
  /\ tenants = {} /\ users = {} /\ members = {} /\ roles = {}
  /\ tokens = [k \in TokenIds |-> None]
  /\ work = [w \in Workers |-> Idle]
  /\ budget \in Budgets
  /\ overlapped = {} /\ closed = {} /\ refused = {}
  /\ faults = 0

-----------------------------------------------------------------------------
Spend(op) == budget[op] > 0 /\ budget' = [budget EXCEPT ![op] = @ - 1]

\* A request arrives and is about to send its first query.
Begin(w, op, job) ==
  /\ work[w] = Idle
  /\ Spend(op)
  /\ work' = [work EXCEPT ![w] = job]
  /\ UNCHANGED <<accounts, tokens, ghosts, faults>>

At(w, await) == work[w].at = await

Goto(w, await) == work' = [work EXCEPT ![w].at = await]

\* The request is answered, or refused.
Finish(w) == work' = [work EXCEPT ![w] = Idle]

\* What a request leaves alone that writes no token.
Sideways == UNCHANGED <<tokens, budget, ghosts, faults>>

-----------------------------------------------------------------------------
(* register(email, tenantSlug): the tenant is created unless it exists,    *)
(* the user becomes an owner of it.                                        *)

Register(w) == \E u \in Users, t \in Tenants :
  Begin(w, "register", [Idle EXCEPT !.at = "findUser", !.user = u,
                                    !.tenant = t])

FindUser(w) ==
  /\ At(w, "findUser")
  /\ IF work[w].user \in users THEN Finish(w) ELSE Goto(w, "findTenant")
  /\ UNCHANGED accounts /\ Sideways

FindTenant(w) ==
  /\ At(w, "findTenant")
  /\ Goto(w, IF work[w].tenant \in tenants THEN "createUser"
                                           ELSE "createTenant")
  /\ UNCHANGED accounts /\ Sideways

\* Each insert is refused when the unique column is taken by now.
CreateTenant(w) ==
  /\ At(w, "createTenant")
  /\ IF work[w].tenant \in tenants THEN Finish(w) ELSE Goto(w, "createUser")
  /\ tenants' = tenants \union {work[w].tenant}
  /\ UNCHANGED <<users, members, roles>> /\ Sideways

\* Mutant of CreateUser: it is the last insert.
CreateUserOnly(w) ==
  /\ At(w, "createUser")
  /\ Finish(w)
  /\ users' = users \union {work[w].user}
  /\ UNCHANGED <<tenants, members, roles>> /\ Sideways

CreateUser(w) ==
  /\ At(w, "createUser")
  /\ IF work[w].user \in users THEN Finish(w) ELSE Goto(w, "createOwner")
  /\ users' = users \union {work[w].user}
  /\ UNCHANGED <<tenants, members, roles>> /\ Sideways

MemberOf(u, t) == {m \in members : m.user = u /\ m.tenant = t}

CreateOwner(w) ==
  LET u == work[w].user
      t == work[w].tenant
  IN /\ At(w, "createOwner")
     /\ Finish(w)
     /\ members' = IF MemberOf(u, t) # {} THEN members ELSE members \union
          {[user |-> u, tenant |-> t, owner |-> TRUE, roles |-> {}]}
     /\ UNCHANGED <<tenants, users, roles>> /\ Sideways

-----------------------------------------------------------------------------
(* Administration: TenantsService.create, UsersService.invite, setRoles.   *)

NewTenant(w) == \E t \in Tenants :
  Begin(w, "newTenant", [Idle EXCEPT !.at = "newTenant", !.tenant = t])

InsertTenant(w) ==
  /\ At(w, "newTenant")
  /\ IF work[w].tenant \in tenants \/ RoleNames = <<>> THEN Finish(w)
                                                       ELSE Goto(w, "upsertRole")
  /\ tenants' = tenants \union {work[w].tenant}
  /\ UNCHANGED <<users, members, roles>> /\ Sideways

\* ensureSystemRoles: one upsert after the other.  In a context the first is
\* refused, as Prisma takes no unique key that the middleware put under AND.
UpsertRole(w) ==
  LET n == work[w].upserted + 1
  IN /\ At(w, "upsertRole")
     /\ \/ /\ roles' = roles \union {<<work[w].tenant, RoleNames[n]>>}
           /\ IF n = Len(RoleNames) THEN Finish(w)
                                    ELSE work' = [work EXCEPT ![w].upserted = n]
        \/ n = 1 /\ Finish(w) /\ UNCHANGED roles
     /\ UNCHANGED <<tenants, users, members>> /\ Sideways

Invite(w) == \E u \in Users, t \in tenants, rs \in RoleSets :
  Begin(w, "invite", [Idle EXCEPT !.at = "upsertUser", !.user = u,
                                  !.tenant = t, !.roles = rs])

UpsertUser(w) ==
  /\ At(w, "upsertUser")
  /\ users' = users \union {work[w].user}
  /\ Goto(w, "upsertMember")
  /\ UNCHANGED <<tenants, members, roles>> /\ Sideways

\* The membership of u in t with other roles; an owner stays one.
WithRoles(u, t, rs) ==
  (members \ MemberOf(u, t)) \union
    {[user |-> u, tenant |-> t, roles |-> rs,
      owner |-> \E m \in MemberOf(u, t) : m.owner]}

UpsertMember(w) ==
  /\ At(w, "upsertMember")
  /\ members' = WithRoles(work[w].user, work[w].tenant, work[w].roles)
  /\ Finish(w)
  /\ UNCHANGED <<tenants, users, roles>> /\ Sideways

\* One query, refused when there is no such membership, and in a context.
SetRoles == \E m \in members, rs \in RoleSets :
  /\ Spend("setRoles")
  /\ members' = WithRoles(m.user, m.tenant, rs)
  /\ UNCHANGED <<tenants, users, roles, tokens, work, ghosts, faults>>

-----------------------------------------------------------------------------
(* login(email, password, tenantSlug?) and refresh(refreshToken).          *)

\* The password is right: with a wrong one nothing changes.
Login(w) == \E u \in Users, t \in Nullable(Tenants) :
  Begin(w, "login", [Idle EXCEPT !.at = "findAccount", !.user = u,
                                 !.tenant = t])

FindAccount(w) ==
  /\ At(w, "findAccount")
  /\ IF work[w].user \in users THEN Goto(w, "memberships") ELSE Finish(w)
  /\ UNCHANGED accounts /\ Sideways

\* A client presents any refresh token it ever received.
Refresh(w) == \E k \in TokenIds :
  /\ tokens[k] # None /\ tokens[k].known
  /\ Begin(w, "refresh", [Idle EXCEPT !.at = "findToken", !.token = k,
                                      !.user = tokens[k].user])

\* Mutant of Usable: revokedAt is not looked at.
UsableUntilExpiry(k) == ~tokens[k].expired

Usable(k) == ~tokens[k].revoked /\ ~tokens[k].expired

FindToken(w) ==
  LET k == work[w].token
  IN /\ At(w, "findToken")
     /\ \/ ~Usable(k) /\ Finish(w) /\ UNCHANGED overlapped
        \/ /\ Usable(k)
           /\ Goto(w, "revoke")
           /\ overlapped' = IF \E v \in Workers \ {w} :
                                 At(v, "revoke") /\ work[v].token = k
                            THEN overlapped \union {tokens[k].root}
                            ELSE overlapped
     /\ UNCHANGED <<accounts, tokens, budget, closed, refused, faults>>

\* Mutant of Revoke: the presented token stays as it is.
RevokeNothing(w) ==
  /\ At(w, "revoke")
  /\ Goto(w, "memberships")
  /\ UNCHANGED accounts /\ Sideways

\* The update looks at the id only, not at revokedAt.
Revoke(w) ==
  /\ At(w, "revoke")
  /\ tokens' = [tokens EXCEPT ![work[w].token].revoked = TRUE]
  /\ Goto(w, "memberships")
  /\ UNCHANGED <<accounts, budget, ghosts, faults>>

\* The memberships of u that a query in context x finds.
Listed(u, x) == {m \in members : m.user = u /\ (x = None \/ m.tenant = x)}

\* login takes the membership of the slug, if one was sent and it is listed,
\* and the first one the database lists otherwise; refresh, which knows no
\* slug, always the first.
Choices(w, x) ==
  LET ms == Listed(work[w].user, x)
      wanted == {m \in ms : m.tenant = work[w].tenant}
  IN IF wanted # {} THEN wanted ELSE ms

\* The membership m is read, or none.  The permissions of an owner are known,
\* those of others are looked up.
Act(w, m, await, perms) ==
  work' = [work EXCEPT ![w].member = m, ![w].at = await, ![w].perms = perms]

\* Without a membership a login is refused, and a refresh goes on.
ReadMemberships(w) ==
  /\ At(w, "memberships")
  /\ \E x \in Contexts :
       \/ \E m \in Choices(w, x) :
            Act(w, m, IF m.owner \/ m.roles = {} THEN "issue" ELSE "resolve",
                IF m.owner THEN {Superuser} ELSE {})
       \/ /\ Choices(w, x) = {}
          /\ IF work[w].token = None THEN Finish(w)
                                     ELSE Act(w, None, "issue", {})
  /\ UNCHANGED accounts /\ Sideways

\* Mutant of Resolved: findMany by id alone.
ResolvedAnywhere(m) ==
  UNION {SystemRoles[r[2]] : r \in {q \in roles : q \in m.roles}}

\* Mutant of Resolved: the rows themselves, not what they grant.
ResolvedRows(m) == {q \in roles : q \in m.roles /\ q[1] = m.tenant}

\* resolvePermissionsForRoles: of the ids listed, those of the tenant's rows.
Resolved(m) ==
  UNION {SystemRoles[r[2]] : r \in {q \in roles : /\ q \in m.roles
                                                  /\ q[1] = m.tenant}}

Resolve(w) ==
  /\ At(w, "resolve")
  /\ work' = [work EXCEPT ![w].at = "issue",
                          ![w].perms = Resolved(work[w].member)]
  /\ UNCHANGED accounts /\ Sideways

Fresh == {k \in TokenIds : tokens[k] = None}

\* issueTokens inserts the new token k; the client gets it, or does not.
Insert(w, k, heard) ==
  LET j == work[w]
  IN tokens' = [tokens EXCEPT ![k] =
       [user |-> j.user,
        tenant |-> IF j.member = None THEN None ELSE j.member.tenant,
        perms |-> j.perms,
        root |-> IF j.token = None THEN k ELSE tokens[j.token].root,
        revoked |-> FALSE, expired |-> FALSE, known |-> heard]]

FreshToken == CHOOSE k \in Fresh : TRUE

Issue(w) ==
  /\ At(w, "issue")
  /\ Fresh # {}
  /\ Insert(w, FreshToken, TRUE)
  /\ Finish(w)
  /\ UNCHANGED <<accounts, budget, ghosts, faults>>

-----------------------------------------------------------------------------
(* logout(refreshToken), expiry, and calls of other routes.                *)

SameLogin(k, r) == tokens[k] # None /\ tokens[k].root = r

Live(r) == {k \in TokenIds : SameLogin(k, r) /\ ~tokens[k].revoked}

\* The refreshes of login r that found their token good.
Exchanging(r) ==
  {w \in Workers : /\ work[w].token # None /\ ~At(w, "findToken")
                   /\ SameLogin(work[w].token, r)}

\* One updateMany.  The login is closed for good if the token was its last
\* and no exchange is under way.
Logout == \E k \in TokenIds :
  /\ tokens[k] # None /\ tokens[k].known
  /\ Spend("logout")
  /\ tokens' = [tokens EXCEPT ![k].revoked = TRUE]
  /\ closed' = IF /\ Live(tokens[k].root) = {k}
                  /\ Exchanging(tokens[k].root) = {}
               THEN closed \union {tokens[k].root} ELSE closed
  /\ UNCHANGED <<accounts, work, overlapped, refused, faults>>

Expire == \E k \in TokenIds :
  /\ tokens[k] # None /\ ~tokens[k].expired
  /\ Spend("expire")
  /\ tokens' = [tokens EXCEPT ![k].expired = TRUE]
  /\ UNCHANGED <<accounts, work, ghosts, faults>>

\* A guarded route is called with an access token.  Only what the permission
\* guard refuses is kept.
Call == \E k \in TokenIds, route \in CallRoutes :
  /\ tokens[k] # None /\ tokens[k].known
  /\ Spend("call")
  /\ Answer(route, tokens[k]) = "forbidden"
  /\ refused' = refused \union {[needs |-> route.needs,
                                 held |-> tokens[k].perms]}
  /\ UNCHANGED <<accounts, tokens, work, overlapped, closed, faults>>

-----------------------------------------------------------------------------
Fault == faults < MaxFaults /\ faults' = faults + 1

\* A query fails and the request with it.
Fail(w) ==
  /\ Fault
  /\ work[w] # Idle
  /\ Finish(w)
  /\ UNCHANGED <<accounts, tokens, budget, ghosts>>

\* The new tokens are stored and the answer is lost.
IssueUnheard(w) ==
  /\ Fault
  /\ At(w, "issue")
  /\ Fresh # {}
  /\ Insert(w, FreshToken, FALSE)
  /\ Finish(w)
  /\ UNCHANGED <<accounts, budget, ghosts>>

Crash ==
  /\ Fault
  /\ \E w \in Workers : work[w] # Idle
  /\ work' = [w \in Workers |-> Idle]
  /\ UNCHANGED <<accounts, tokens, budget, ghosts>>

Arrive(w) == Register(w) \/ NewTenant(w) \/ Invite(w) \/ Login(w) \/ Refresh(w)

Step(w) ==
  \/ FindUser(w) \/ FindTenant(w) \/ CreateTenant(w) \/ CreateUser(w)
  \/ CreateOwner(w) \/ InsertTenant(w) \/ UpsertRole(w) \/ UpsertUser(w)
  \/ UpsertMember(w) \/ FindAccount(w) \/ FindToken(w) \/ Revoke(w)
  \/ ReadMemberships(w) \/ Resolve(w) \/ Issue(w)

Next ==
  \/ \E w \in Workers : Arrive(w) \/ Step(w) \/ Fail(w) \/ IssueUnheard(w)
  \/ SetRoles \/ Logout \/ Expire \/ Call \/ Crash

Spec == Init /\ [][Next]_vars

-----------------------------------------------------------------------------
\* Types of all variables; a request that has a token has one that exists,
\* and so has each token the one its login issued.
SessionsTypeOK ==
  /\ tenants \subseteq Tenants /\ users \subseteq Users
  /\ members \subseteq Members /\ roles \subseteq RoleIds
  /\ tokens \in [TokenIds -> Nullable(Tokens)]
  /\ work \in [Workers -> Jobs]
  /\ budget \in [Ops -> Nat]
  /\ overlapped \subseteq TokenIds /\ closed \subseteq TokenIds
  /\ refused \subseteq [needs : SUBSET Seq(STRING), held : SUBSET Grants]
  /\ faults \in Nat
  /\ \A w \in Workers : work[w].token # None => tokens[work[w].token] # None
  /\ \A k \in TokenIds : tokens[k] # None =>
       /\ tokens[tokens[k].root] # None
       /\ tokens[tokens[k].root].user = tokens[k].user

\* Refresh tokens rotate and are used once (auth.service.ts:6): as long as no
\* two exchanges read the same token before either revokes it, a login never
\* has two tokens that work, nor one while an exchange is still to issue the
\* next, whatever fails, is lost or is presented again.
OneLivePerLogin ==
  \A r \in TokenIds \ overlapped :
    /\ \A k, l \in Live(r) : k = l
    /\ \A w \in Exchanging(r) : Live(r) # {} =>
         At(w, "revoke") /\ work[w].token \in Live(r)

\* A logout with the last token of a login, while no exchange of it is under
\* way, ends the login: no token of it works again, and no exchange that could
\* issue one gets past its look-up, unless two exchanges overlapped before.
LoggedOutStaysOut ==
  \A r \in closed \ overlapped : Live(r) = {} /\ Exchanging(r) = {}

\* Registration and invitation write user and membership one by one.  As long
\* as nothing fails, every user has a membership or will get it from a request
\* under way, so that no email is taken by someone who can neither log in nor
\* register, however registrations and invitations of an email interleave.
UsersCanLogIn ==
  faults = 0 => \A u \in users :
    \/ \E m \in members : m.user = u
    \/ \E w \in Workers : /\ work[w].user = u
                          /\ work[w].at \in {"createOwner", "upsertMember"}

\* The tenant and the permissions of an access token move together, also when
\* a refresh moves a session to the tenant of its request, or to the first the
\* database lists.  The token is of a tenant its user is a member of and has
\* the wildcard of an owner, or what role rows of that tenant grant, even if
\* the membership lists ids of other tenants' roles, or roles that came to be
\* later; or it is of no tenant, grants nothing, and comes from a refresh.
PermissionsAreOfTheTenant ==
  \A k \in TokenIds : tokens[k] # None =>
    \/ /\ tokens[k].tenant = None /\ tokens[k].perms = {}
       /\ tokens[k].root # k
    \/ \E m \in MemberOf(tokens[k].user, tokens[k].tenant) :
         \/ m.owner
         \/ \A p \in tokens[k].perms :
              \E r \in roles : r[1] = m.tenant /\ p \in SystemRoles[r[2]]

\* The permission guard validates what a route asks for against the payload of
\* the token (permissions.guard.ts:2-3): what it refuses, the token lacks.
PermissionDecides ==
  \A c \in refused : \E required \in c.needs : ~Check(c.held, required)

=============================================================================
