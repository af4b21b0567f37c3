--------------------------- MODULE SessionsProofs ---------------------------
(* Theorems about tenants, users and login sessions, for every value of the *)
(* constants: any number of users, tenants, tokens, concurrent requests and *)
(* failures.                                                                *)
EXTENDS Sessions, TLAPS

-----------------------------------------------------------------------------
(* The invariant about the requests under way.                             *)

UserAwaits == Awaits \ {"idle", "newTenant", "upsertRole"}

TenantAwaits == {"findUser", "findTenant", "createTenant", "createUser",
                 "createOwner", "newTenant", "upsertRole", "upsertUser",
                 "upsertMember"}

ExchangeAwaits == {"findToken", "revoke", "memberships", "resolve", "issue"}

\* What a request knows at the query it is about to send.
Equipped(j) ==
  /\ j \in Jobs
  /\ j.at \in UserAwaits => j.user \in Users
  /\ j.at \in TenantAwaits => j.tenant \in Tenants
  /\ j.at = "upsertRole" => j.upserted < Len(RoleNames)
  /\ j.at # "upsertRole" => j.upserted = 0
  /\ j.at \in {"findToken", "revoke"} => j.token # None

\* A token under exchange is of the user the request acts for.
Presented(j) ==
  j.token # None => /\ j.at \in ExchangeAwaits
                    /\ tokens[j.token] # None
                    /\ tokens[j.token].user = j.user

RequestsOK == \A w \in Workers : Equipped(work[w]) /\ Presented(work[w])

TypesInv == SessionsTypeOK /\ RequestsOK

-----------------------------------------------------------------------------
(* Facts about the constants and the operators.                            *)

LEMMA RoleTypes ==
  /\ Superuser \in Grants
  /\ \A r \in RoleIds : /\ r[1] \in Tenants /\ r[2] \in DOMAIN SystemRoles
                        /\ SystemRoles[r[2]] \subseteq Grants
  /\ \A t \in Tenants, n \in 1..Len(RoleNames) : <<t, RoleNames[n]>> \in RoleIds
<1>1. Superuser \in Grants
  <2>1. "Owner" \in DOMAIN SystemRoles /\ SystemRoles["Owner"] = {Superuser}
    BY DEF SystemRoles
  <2> QED
    BY <2>1 DEF Grants
<1>2. RoleNames \in Seq(DOMAIN SystemRoles)
  BY SessionsAssumption
<1>3. \A n \in 1..Len(RoleNames) : RoleNames[n] \in DOMAIN SystemRoles
  BY <1>2
<1>4. DOMAIN RoleNames = 1..Len(RoleNames)
  BY <1>2
<1>5. \A r \in RoleIds : r[1] \in Tenants /\ r[2] \in DOMAIN SystemRoles
  BY <1>3, <1>4 DEF RoleIds
<1>6. \A n \in DOMAIN SystemRoles : SystemRoles[n] \subseteq Grants
  BY DEF Grants
<1>7. \A t \in Tenants, n \in 1..Len(RoleNames) : <<t, RoleNames[n]>> \in RoleIds
  BY <1>4 DEF RoleIds
<1> QED
  BY <1>1, <1>5, <1>6, <1>7

LEMMA NoneTypes ==
  /\ None \notin Users /\ None \notin Tenants /\ None \notin TokenIds
  /\ None \notin Tokens /\ None \notin Members
BY SessionsAssumption

LEMMA IdleOK == Equipped(Idle) /\ Presented(Idle) /\ Idle.token = None
BY NoneTypes DEF Equipped, Presented, Idle, Jobs, Awaits, Nullable, UserAwaits,
                 TenantAwaits, ExchangeAwaits

(* No token is ever lost or given to somebody else.                        *)
TokensGrow ==
  \A k \in TokenIds : tokens[k] # None =>
    /\ tokens'[k] # None
    /\ tokens'[k].user = tokens[k].user /\ tokens'[k].root = tokens[k].root
    /\ tokens'[k].tenant = tokens[k].tenant /\ tokens'[k].perms = tokens[k].perms

-----------------------------------------------------------------------------
(* A request stays equipped, whatever query comes next.                    *)

\* The handler of w goes on as j.
Becomes(w, j) ==
  work' = [work EXCEPT ![w] = j] /\ Equipped(j) /\ Presented(j)

(* A request goes on with what it needs.                                   *)
LEMMA RequestsKept ==
  ASSUME RequestsOK, TokensGrow, NEW w \in Workers, NEW j,
         Becomes(w, j), work \in [Workers -> Jobs]
  PROVE  RequestsOK' /\ work' \in [Workers -> Jobs]
<1>1. j \in Jobs /\ Equipped(j) /\ Presented(j) /\ work' = [work EXCEPT ![w] = j]
  BY DEF Becomes, Equipped
<1>2. ASSUME NEW v \in Workers, v # w
      PROVE  Equipped(work'[v]) /\ Presented(work[v])'
  <2>1. work'[v] = work[v] /\ work[v].token \in Nullable(TokenIds)
    BY <1>1, <1>2 DEF Jobs
  <2> QED
    BY <2>1 DEF RequestsOK, TokensGrow, Presented, Nullable
<1>3. work'[w] = j
  BY <1>1
<1>4. Equipped(work'[w]) /\ Presented(work[w])'
  BY <1>1, <1>3 DEF Presented, TokensGrow, Jobs, Nullable
<1> QED
  BY <1>1, <1>2, <1>4 DEF RequestsOK, Equipped

LEMMA GotoOK ==
  ASSUME NEW w \in Workers, Equipped(work[w]), Presented(work[w]),
         NEW await \in Awaits \ {"upsertRole"}, Goto(w, await),
         await \in UserAwaits => work[w].at \in UserAwaits,
         await \in TenantAwaits => work[w].at \in TenantAwaits,
         work[w].at # "upsertRole",
         await \in {"findToken", "revoke"} => work[w].token # None,
         work[w].at \in ExchangeAwaits => await \in ExchangeAwaits
  PROVE  \E j : Becomes(w, j)
<1> DEFINE j == [work[w] EXCEPT !.at = await]
<1>1. j \in Jobs /\ j.at = await /\ j.user = work[w].user
      /\ j.tenant = work[w].tenant /\ j.upserted = work[w].upserted
      /\ j.token = work[w].token
  BY DEF Equipped, Jobs
<1>2. work' = [work EXCEPT ![w] = j]
  BY DEF Goto
<1> HIDE DEF j
<1>3. Equipped(j)
  BY <1>1 DEF Equipped
<1>4. Presented(j)
  BY <1>1 DEF Presented
<1> QED
  BY <1>2, <1>3, <1>4 DEF Becomes

LEMMA FinishOK ==
  ASSUME NEW w \in Workers, Finish(w)
  PROVE  \E j : Becomes(w, j)
BY IdleOK DEF Finish, Becomes

(* A request that arrives has what its first query needs.                  *)
LEMMA RequestOK ==
  ASSUME NEW j \in Jobs, j.at \in Awaits \ {"upsertRole"}, j.upserted = 0,
         j.at \in UserAwaits => j.user \in Users,
         j.at \in TenantAwaits => j.tenant \in Tenants,
         j.at \in {"findToken", "revoke"} => j.token # None,
         j.token # None => /\ j.at \in ExchangeAwaits
                           /\ tokens[j.token] # None
                           /\ tokens[j.token].user = j.user
  PROVE  Equipped(j) /\ Presented(j)
BY DEF Equipped, Presented

(* The requests that arrive.                                               *)
LEMMA ArriveOK ==
  ASSUME TypesInv, NEW w \in Workers, Arrive(w)
  PROVE  /\ \E j : Becomes(w, j)
         /\ UNCHANGED <<accounts, tokens, ghosts, faults>>
         /\ work[w] = Idle /\ work'[w].at \notin ExchangeAwaits \ {"findToken"}
<1>0. work \in [Workers -> Jobs]
  BY DEF TypesInv, SessionsTypeOK
<1>1. ASSUME NEW op, NEW j, Begin(w, op, j), Equipped(j), Presented(j),
             j.at \notin ExchangeAwaits \ {"findToken"}
      PROVE  /\ \E i : Becomes(w, i)
             /\ UNCHANGED <<accounts, tokens, ghosts, faults>>
             /\ work[w] = Idle /\ work'[w].at \notin ExchangeAwaits \ {"findToken"}
  BY <1>0, <1>1 DEF Begin, Becomes
<1>2. CASE Register(w)
  <2>1. PICK u \in Users, t \in Tenants :
          Begin(w, "register", [Idle EXCEPT !.at = "findUser", !.user = u, !.tenant = t])
    BY <1>2 DEF Register
  <2> DEFINE j == [Idle EXCEPT !.at = "findUser", !.user = u, !.tenant = t]
  <2>2. /\ j.at = "findUser" /\ j.user = u /\ j.tenant = t
        /\ j.upserted = 0 /\ j.token = None
    BY DEF Idle
  <2>3. j \in Jobs
    BY IdleOK DEF Equipped, Jobs, Awaits, Nullable
  <2> HIDE DEF j
  <2>4. Equipped(j) /\ Presented(j)
    BY <2>1, <2>2, <2>3, RequestOK
       DEF Awaits, UserAwaits, TenantAwaits, ExchangeAwaits
  <2> QED
    BY <2>1, <2>2, <2>4, <1>1 DEF ExchangeAwaits, j
<1>3. CASE NewTenant(w)
  <2>1. PICK t \in Tenants :
          Begin(w, "newTenant", [Idle EXCEPT !.at = "newTenant", !.tenant = t])
    BY <1>3 DEF NewTenant
  <2> DEFINE j == [Idle EXCEPT !.at = "newTenant", !.tenant = t]
  <2>2. /\ j.at = "newTenant" /\ j.user = None /\ j.tenant = t
        /\ j.upserted = 0 /\ j.token = None
    BY DEF Idle
  <2>3. j \in Jobs
    BY IdleOK DEF Equipped, Jobs, Awaits, Nullable
  <2> HIDE DEF j
  <2>4. Equipped(j) /\ Presented(j)
    BY <2>1, <2>2, <2>3, RequestOK
       DEF Awaits, UserAwaits, TenantAwaits, ExchangeAwaits
  <2> QED
    BY <2>1, <2>2, <2>4, <1>1 DEF ExchangeAwaits, j
<1>4. CASE Invite(w)
  <2>1. PICK u \in Users, t \in tenants, rs \in RoleSets :
          Begin(w, "invite", [Idle EXCEPT !.at = "upsertUser", !.user = u,
                                  !.tenant = t, !.roles = rs])
    BY <1>4 DEF Invite
  <2> DEFINE j == [Idle EXCEPT !.at = "upsertUser", !.user = u,
                                  !.tenant = t, !.roles = rs]
  <2>5. t \in Tenants /\ rs \subseteq RoleIds
    BY SessionsAssumption DEF TypesInv, SessionsTypeOK
  <2>2. /\ j.at = "upsertUser" /\ j.user = u /\ j.tenant = t
        /\ j.upserted = 0 /\ j.token = None
    BY DEF Idle
  <2>3. j \in Jobs
    BY <2>5, IdleOK DEF Equipped, Jobs, Awaits, Nullable
  <2> HIDE DEF j
  <2>4. Equipped(j) /\ Presented(j)
    BY <2>5, <2>1, <2>2, <2>3, RequestOK
       DEF Awaits, UserAwaits, TenantAwaits, ExchangeAwaits
  <2> QED
    BY <2>1, <2>2, <2>4, <1>1 DEF ExchangeAwaits, j
<1>5. CASE Login(w)
  <2>1. PICK u \in Users, t \in Nullable(Tenants) :
          Begin(w, "login", [Idle EXCEPT !.at = "findAccount", !.user = u, !.tenant = t])
    BY <1>5 DEF Login
  <2> DEFINE j == [Idle EXCEPT !.at = "findAccount", !.user = u, !.tenant = t]
  <2>2. /\ j.at = "findAccount" /\ j.user = u /\ j.tenant = t
        /\ j.upserted = 0 /\ j.token = None
    BY DEF Idle
  <2>3. j \in Jobs
    BY IdleOK DEF Equipped, Jobs, Awaits, Nullable
  <2> HIDE DEF j
  <2>4. Equipped(j) /\ Presented(j)
    BY <2>1, <2>2, <2>3, RequestOK
       DEF Awaits, UserAwaits, TenantAwaits, ExchangeAwaits
  <2> QED
    BY <2>1, <2>2, <2>4, <1>1 DEF ExchangeAwaits, j
<1>6. CASE Refresh(w)
  <2>1. PICK k \in TokenIds :
          /\ tokens[k] # None
          /\ Begin(w, "refresh", [Idle EXCEPT !.at = "findToken", !.token = k,
                                   !.user = tokens[k].user])
    BY <1>6 DEF Refresh
  <2> DEFINE j == [Idle EXCEPT !.at = "findToken", !.token = k,
                                   !.user = tokens[k].user]
  <2>5. tokens[k].user \in Users
    BY <2>1 DEF TypesInv, SessionsTypeOK, Nullable, Tokens
  <2>2. /\ j.at = "findToken" /\ j.user = tokens[k].user /\ j.tenant = None
        /\ j.upserted = 0 /\ j.token = k
    BY DEF Idle
  <2>3. j \in Jobs
    BY <2>5, IdleOK DEF Equipped, Jobs, Awaits, Nullable
  <2> HIDE DEF j
  <2>4. Equipped(j) /\ Presented(j)
    BY <2>5, <2>1, <2>2, <2>3, RequestOK, NoneTypes
       DEF Awaits, UserAwaits, TenantAwaits, ExchangeAwaits
  <2> QED
    BY <2>1, <2>2, <2>4, <1>1 DEF ExchangeAwaits, j
<1> QED
  BY <1>2, <1>3, <1>4, <1>5, <1>6 DEF Arrive

(* The queries about tenants, users and members: no token is involved.     *)
Registers(w) ==
  \/ FindUser(w) \/ FindTenant(w) \/ CreateTenant(w) \/ CreateUser(w)
  \/ CreateOwner(w) \/ InsertTenant(w) \/ UpsertRole(w) \/ UpsertUser(w)
  \/ UpsertMember(w)

LEMMA NextRoleOK ==
  ASSUME NEW w \in Workers, Equipped(work[w]), Presented(work[w]),
         At(w, "upsertRole"), work[w].upserted + 1 # Len(RoleNames),
         work' = [work EXCEPT ![w].upserted = work[w].upserted + 1]
  PROVE  \E j : Becomes(w, j)
<1> DEFINE n == work[w].upserted + 1
           j == [work[w] EXCEPT !.upserted = n]
<1>1. work[w] \in Jobs /\ work[w].at = "upsertRole" /\ work[w].token = None
  BY DEF Equipped, Presented, At, ExchangeAwaits
<1>2. Len(RoleNames) \in Nat /\ work[w].upserted \in 0..Len(RoleNames)
  BY <1>1, SessionsAssumption DEF Jobs
<1>3. n \in 0..Len(RoleNames) /\ n < Len(RoleNames)
  BY <1>1, <1>2 DEF Equipped
<1> HIDE DEF n
<1>4. j \in Jobs /\ j.at = "upsertRole" /\ j.upserted = n /\ j.token = None
      /\ j.tenant = work[w].tenant
  BY <1>1, <1>3 DEF Jobs
<1>5. work' = [work EXCEPT ![w] = j]
  BY DEF n
<1> HIDE DEF j
<1>6. Equipped(j) /\ Presented(j)
  BY <1>1, <1>3, <1>4 DEF Equipped, Presented, UserAwaits, TenantAwaits
<1> QED
  BY <1>5, <1>6 DEF Becomes

LEMMA FirstRoleOK ==
  ASSUME NEW w \in Workers, Equipped(work[w]), Presented(work[w]),
         At(w, "newTenant"), RoleNames # <<>>, Goto(w, "upsertRole")
  PROVE  \E j : Becomes(w, j)
<1> DEFINE j == [work[w] EXCEPT !.at = "upsertRole"]
<1>1. work[w] \in Jobs /\ work[w].at = "newTenant" /\ work[w].token = None
      /\ work[w].upserted = 0 /\ work[w].tenant \in Tenants
  BY DEF Equipped, Presented, At, ExchangeAwaits, TenantAwaits
<1>2. 0 < Len(RoleNames)
  <2>1. RoleNames \in Seq(DOMAIN SystemRoles)
    BY SessionsAssumption
  <2> QED
    BY <2>1
<1>3. j \in Jobs /\ j.at = "upsertRole" /\ j.upserted = 0 /\ j.token = None
      /\ j.tenant = work[w].tenant
  BY <1>1 DEF Jobs, Awaits
<1>4. work' = [work EXCEPT ![w] = j]
  BY DEF Goto
<1> HIDE DEF j
<1>5. Equipped(j) /\ Presented(j)
  BY <1>1, <1>2, <1>3 DEF Equipped, Presented, UserAwaits, TenantAwaits
<1> QED
  BY <1>4, <1>5 DEF Becomes

LEMMA RegistersOK ==
  ASSUME TypesInv, NEW w \in Workers, Registers(w)
  PROVE  /\ \E j : Becomes(w, j)
         /\ Sideways
         /\ work[w].at \notin ExchangeAwaits /\ work'[w].at \notin ExchangeAwaits
<1>0. /\ Equipped(work[w]) /\ Presented(work[w]) /\ work \in [Workers -> Jobs]
      /\ Idle.at \notin ExchangeAwaits
  BY DEF TypesInv, RequestsOK, SessionsTypeOK, Idle, ExchangeAwaits
<1>1. Sideways /\ work[w].at \notin ExchangeAwaits
  BY DEF Registers, FindUser, FindTenant, CreateTenant, CreateUser, CreateOwner,
         InsertTenant, UpsertRole, UpsertUser, UpsertMember, At, ExchangeAwaits
<1>2. ASSUME NEW await \in Awaits \ (ExchangeAwaits \union {"upsertRole", "idle"}),
             Goto(w, await), work[w].at # "upsertRole",
             await \in UserAwaits => work[w].at \in UserAwaits,
             await \in TenantAwaits => work[w].at \in TenantAwaits
      PROVE  (\E j : Becomes(w, j)) /\ work'[w].at \notin ExchangeAwaits
  <2>1. \E j : Becomes(w, j)
    BY <1>0, <1>1, <1>2, GotoOK DEF ExchangeAwaits
  <2>2. work'[w].at = await
    BY <1>0, <1>2 DEF Goto, Jobs
  <2> QED
    BY <1>2, <2>1, <2>2
<1>3. ASSUME Finish(w)
      PROVE  (\E j : Becomes(w, j)) /\ work'[w].at \notin ExchangeAwaits
  BY <1>0, <1>3, FinishOK DEF Finish
<1>4. CASE FindUser(w)
  BY <1>2, <1>3, <1>4
     DEF FindUser, At, Awaits, UserAwaits, TenantAwaits, ExchangeAwaits
<1>5. CASE FindTenant(w)
  BY <1>2, <1>3, <1>5
     DEF FindTenant, At, Awaits, UserAwaits, TenantAwaits, ExchangeAwaits
<1>6. CASE CreateTenant(w)
  BY <1>2, <1>3, <1>6
     DEF CreateTenant, At, Awaits, UserAwaits, TenantAwaits, ExchangeAwaits
<1>7. CASE CreateUser(w)
  BY <1>2, <1>3, <1>7
     DEF CreateUser, At, Awaits, UserAwaits, TenantAwaits, ExchangeAwaits
<1>8. CASE CreateOwner(w) \/ UpsertMember(w)
  <2>1. Finish(w)
    BY <1>8 DEF CreateOwner, UpsertMember
  <2> QED
    BY <1>1, <1>3, <2>1
<1>9. CASE InsertTenant(w)
  <2>1. Finish(w) \/ (Goto(w, "upsertRole") /\ RoleNames # <<>>)
    BY <1>9 DEF InsertTenant
  <2>2. CASE Goto(w, "upsertRole") /\ RoleNames # <<>>
    <3>1. work'[w].at = "upsertRole"
      BY <1>0, <2>2 DEF Goto, Jobs
    <3>2. \E j : Becomes(w, j)
      BY <1>0, <1>9, <2>2, FirstRoleOK DEF InsertTenant
    <3> QED
      BY <1>1, <3>1, <3>2 DEF ExchangeAwaits
  <2> QED
    BY <1>1, <1>3, <2>1, <2>2
<1>10. CASE UpsertRole(w)
  <2>1. \/ Finish(w)
        \/ /\ work[w].upserted + 1 # Len(RoleNames)
           /\ work' = [work EXCEPT ![w].upserted = work[w].upserted + 1]
    BY <1>10 DEF UpsertRole
  <2>2. CASE /\ work[w].upserted + 1 # Len(RoleNames)
             /\ work' = [work EXCEPT ![w].upserted = work[w].upserted + 1]
    <3>1. work'[w].at = work[w].at
      BY <1>0, <2>2 DEF Jobs
    <3>2. \E j : Becomes(w, j)
      BY <1>0, <1>10, <2>2, NextRoleOK DEF UpsertRole
    <3> QED
      BY <1>1, <3>1, <3>2
  <2> QED
    BY <1>1, <1>3, <2>1, <2>2
<1>11. CASE UpsertUser(w)
  BY <1>2, <1>3, <1>11
     DEF UpsertUser, At, Awaits, UserAwaits, TenantAwaits, ExchangeAwaits
<1> QED
  BY <1>1, <1>4, <1>5, <1>6, <1>7, <1>8, <1>9, <1>10, <1>11 DEF Registers

(* The queries of logins and refreshes.                                    *)
Signs(w) ==
  \/ FindAccount(w) \/ FindToken(w) \/ Revoke(w) \/ ReadMemberships(w)
  \/ Resolve(w) \/ Issue(w) \/ IssueUnheard(w)

(* The permissions found are known ones.                                   *)
LEMMA ResolvedTypes ==
  ASSUME TypesInv, NEW m PROVE Resolved(m) \in SUBSET Grants
<1>1. roles \subseteq RoleIds
  BY DEF TypesInv, SessionsTypeOK
<1> QED
  BY <1>1, RoleTypes DEF Resolved

\* A request that reads on changes what it knows, not what it is for.
Informed(w, await, m, ps) ==
  [work[w] EXCEPT !.at = await, !.member = m, !.perms = ps]

InformedNext(w, await, m, ps) ==
  work' = [work EXCEPT ![w] = Informed(w, await, m, ps)]

LEMMA InformedOK ==
  ASSUME NEW w \in Workers, Equipped(work[w]), Presented(work[w]),
         NEW await \in {"issue", "resolve"}, NEW m \in Nullable(Members),
         NEW ps \in SUBSET Grants, work[w].at \in {"memberships", "resolve"},
         InformedNext(w, await, m, ps)
  PROVE  \E j : /\ Becomes(w, j)
                /\ j.at = await /\ j.member = m /\ j.perms = ps
                /\ j.user = work[w].user /\ j.token = work[w].token
<1> DEFINE j == Informed(w, await, m, ps)
<1>1. work[w] \in Jobs
  BY DEF Equipped
<1>2. /\ j \in Jobs /\ j.at = await /\ j.member = m /\ j.perms = ps
      /\ j.user = work[w].user /\ j.token = work[w].token
      /\ j.upserted = work[w].upserted
  BY <1>1 DEF Jobs, Awaits, Informed
<1> HIDE DEF j
<1>3. Equipped(j)
  BY <1>1, <1>2 DEF Equipped, UserAwaits, TenantAwaits, Awaits
<1>4. Presented(j)
  BY <1>1, <1>2 DEF Presented, ExchangeAwaits
<1> QED
  BY <1>2, <1>3, <1>4 DEF Becomes, InformedNext, j

LEMMA MembershipsOK ==
  ASSUME TypesInv, NEW w \in Workers, ReadMemberships(w)
  PROVE  \/ \E m \in members : \E j :
              /\ Becomes(w, j) /\ m.user = work[w].user
              /\ j.member = m /\ j.user = work[w].user /\ j.token = work[w].token
              /\ j.at = IF m.owner \/ m.roles = {} THEN "issue" ELSE "resolve"
              /\ j.perms = IF m.owner THEN {Superuser} ELSE {}
         \/ work[w].token = None /\ Finish(w)
         \/ /\ work[w].token # None
            /\ \E j : /\ Becomes(w, j)
                     /\ j.at = "issue" /\ j.member = None /\ j.perms = {}
                     /\ j.user = work[w].user /\ j.token = work[w].token
<1>0. /\ Equipped(work[w]) /\ Presented(work[w]) /\ work[w].at = "memberships"
      /\ work \in [Workers -> Jobs]
  BY DEF TypesInv, RequestsOK, SessionsTypeOK, ReadMemberships, At
<1>1. \A m, await, ps : Act(w, m, await, ps) => InformedNext(w, await, m, ps)
  BY <1>0 DEF Jobs, Act, Informed, InformedNext
<1>2. ASSUME NEW x \in Contexts, NEW m \in Choices(w, x),
             Act(w, m, IF m.owner \/ m.roles = {} THEN "issue" ELSE "resolve",
                 IF m.owner THEN {Superuser} ELSE {})
      PROVE  \E i \in members : \E j :
               /\ Becomes(w, j) /\ i.user = work[w].user
               /\ j.member = i /\ j.user = work[w].user /\ j.token = work[w].token
               /\ j.at = IF i.owner \/ i.roles = {} THEN "issue" ELSE "resolve"
               /\ j.perms = IF i.owner THEN {Superuser} ELSE {}
  <2> DEFINE await == IF m.owner \/ m.roles = {} THEN "issue" ELSE "resolve"
             ps == IF m.owner THEN {Superuser} ELSE {}
  <2>1. m \in members /\ m.user = work[w].user
    BY DEF Choices, Listed
  <2>2. m \in Nullable(Members)
    BY <2>1 DEF TypesInv, SessionsTypeOK, Nullable
  <2>3. await \in {"issue", "resolve"} /\ ps \in SUBSET Grants
    BY RoleTypes
  <2>4. InformedNext(w, await, m, ps)
    BY <1>1, <1>2
  <2>5. work[w].at \in {"memberships", "resolve"}
    BY <1>0
  <2> HIDE DEF await, ps
  <2>6. \E j : /\ Becomes(w, j)
               /\ j.at = await /\ j.member = m /\ j.perms = ps
               /\ j.user = work[w].user /\ j.token = work[w].token
    BY <1>0, <2>2, <2>3, <2>4, <2>5, InformedOK
  <2> QED
    BY <2>1, <2>6 DEF await, ps
<1>3. ASSUME work[w].token # None, Act(w, None, "issue", {})
      PROVE  \E j : /\ Becomes(w, j)
                    /\ j.at = "issue" /\ j.member = None /\ j.perms = {}
                    /\ j.user = work[w].user /\ j.token = work[w].token
  <2>1. InformedNext(w, "issue", None, {})
    BY <1>1, <1>3
  <2>2. None \in Nullable(Members) /\ {} \in SUBSET Grants
        /\ "issue" \in {"issue", "resolve"}
        /\ work[w].at \in {"memberships", "resolve"}
    BY <1>0 DEF Nullable
  <2> QED
    BY <1>0, <2>1, <2>2, InformedOK
<1>4. PICK x \in Contexts :
        \/ \E m \in Choices(w, x) :
             Act(w, m, IF m.owner \/ m.roles = {} THEN "issue" ELSE "resolve",
                 IF m.owner THEN {Superuser} ELSE {})
        \/ IF work[w].token = None THEN Finish(w) ELSE Act(w, None, "issue", {})
  BY DEF ReadMemberships
<1>5. CASE IF work[w].token = None THEN Finish(w) ELSE Act(w, None, "issue", {})
  BY <1>3, <1>5
<1>6. CASE \E m \in Choices(w, x) :
             Act(w, m, IF m.owner \/ m.roles = {} THEN "issue" ELSE "resolve",
                 IF m.owner THEN {Superuser} ELSE {})
  BY <1>2, <1>6
<1> QED
  BY <1>4, <1>5, <1>6

LEMMA ResolveOK ==
  ASSUME TypesInv, NEW w \in Workers, Resolve(w)
  PROVE  \E j : /\ Becomes(w, j) /\ j.at = "issue"
                /\ j.perms = Resolved(work[w].member)
                /\ j.member = work[w].member /\ j.user = work[w].user
                /\ j.token = work[w].token
<1>0. /\ Equipped(work[w]) /\ Presented(work[w]) /\ work[w].at = "resolve"
      /\ work \in [Workers -> Jobs]
  BY DEF TypesInv, RequestsOK, SessionsTypeOK, Resolve, At
<1> DEFINE ps == Resolved(work[w].member)
           m == work[w].member
<1>1. ps \in SUBSET Grants /\ m \in Nullable(Members)
  BY <1>0, ResolvedTypes DEF Jobs
<1>2. InformedNext(w, "issue", m, ps)
  BY <1>0 DEF Resolve, Jobs, Informed, InformedNext
<1>3. work[w].at \in {"memberships", "resolve"} /\ "issue" \in {"issue", "resolve"}
  BY <1>0
<1> HIDE DEF ps, m
<1>4. \E j : /\ Becomes(w, j)
             /\ j.at = "issue" /\ j.member = m /\ j.perms = ps
             /\ j.user = work[w].user /\ j.token = work[w].token
  BY <1>0, <1>1, <1>2, <1>3, InformedOK
<1> QED
  BY <1>4 DEF ps, m

LEMMA SignsOK ==
  ASSUME TypesInv, NEW w \in Workers, Signs(w)
  PROVE  /\ \E j : Becomes(w, j)
         /\ UNCHANGED <<accounts, budget, closed, refused>>
<1>0. Equipped(work[w]) /\ Presented(work[w])
  BY DEF TypesInv, RequestsOK
<1>1. UNCHANGED <<accounts, budget, closed, refused>>
  BY DEF Signs, FindAccount, FindToken, Revoke, ReadMemberships, Resolve, Issue,
         IssueUnheard, Sideways, ghosts
<1>2. CASE FindAccount(w)
  <2>1. Finish(w) \/ (Goto(w, "memberships") /\ work[w].at = "findAccount")
    BY <1>2 DEF FindAccount, At
  <2>2. CASE Goto(w, "memberships") /\ work[w].at = "findAccount"
    BY <1>0, <1>1, <2>2, GotoOK DEF Awaits, UserAwaits, TenantAwaits, ExchangeAwaits
  <2> QED
    BY <1>1, <2>1, <2>2, FinishOK
<1>3. CASE FindToken(w)
  <2>1. Finish(w) \/ (Goto(w, "revoke") /\ work[w].at = "findToken")
    BY <1>3 DEF FindToken, At
  <2>2. CASE Goto(w, "revoke") /\ work[w].at = "findToken"
    <3>1. work[w].token # None
      BY <1>0, <2>2 DEF Equipped
    <3> QED
      BY <1>0, <1>1, <2>2, <3>1, GotoOK
         DEF Awaits, UserAwaits, TenantAwaits, ExchangeAwaits
  <2> QED
    BY <1>1, <2>1, <2>2, FinishOK
<1>4. CASE Revoke(w)
  <2>1. Goto(w, "memberships") /\ work[w].at = "revoke"
    BY <1>4 DEF Revoke, At
  <2> QED
    BY <1>0, <1>1, <2>1, GotoOK DEF Awaits, UserAwaits, TenantAwaits, ExchangeAwaits
<1>5. CASE ReadMemberships(w)
  <2>1. Finish(w) \/ \E j : Becomes(w, j)
    BY <1>5, MembershipsOK
  <2> QED
    BY <1>1, <2>1, FinishOK
<1>6. CASE Resolve(w)
  BY <1>1, <1>6, ResolveOK
<1>7. CASE Issue(w) \/ IssueUnheard(w)
  <2>1. Finish(w)
    BY <1>7 DEF Issue, IssueUnheard
  <2> QED
    BY <1>1, <2>1, FinishOK
<1> QED
  BY <1>2, <1>3, <1>4, <1>5, <1>6, <1>7 DEF Signs

-----------------------------------------------------------------------------
(* Tokens.                                                                 *)

TokensOK ==
  /\ tokens \in [TokenIds -> Nullable(Tokens)]
  /\ \A k \in TokenIds : tokens[k] # None =>
       /\ tokens[tokens[k].root] # None
       /\ tokens[tokens[k].root].user = tokens[k].user

LEMMA TokenFields ==
  ASSUME TokensOK, NEW k \in TokenIds, tokens[k] # None
  PROVE  /\ tokens[k] \in Tokens
         /\ tokens[k].root \in TokenIds /\ tokens[k].user \in Users
         /\ tokens[k].root # None
BY NoneTypes DEF TokensOK, Nullable, Tokens

LEMMA RevokedOK ==
  ASSUME TokensOK, NEW k \in TokenIds, tokens[k] # None,
         \/ tokens' = [tokens EXCEPT ![k].revoked = TRUE]
         \/ tokens' = [tokens EXCEPT ![k].expired = TRUE]
  PROVE  TokensOK' /\ TokensGrow
<1>1. tokens[k] \in Tokens /\ tokens \in [TokenIds -> Nullable(Tokens)]
  BY TokenFields DEF TokensOK
<1>2. PICK t \in Tokens :
        /\ tokens' = [tokens EXCEPT ![k] = t]
        /\ t.user = tokens[k].user /\ t.root = tokens[k].root
        /\ t.tenant = tokens[k].tenant /\ t.perms = tokens[k].perms
  <2>1. CASE tokens' = [tokens EXCEPT ![k].revoked = TRUE]
    <3> DEFINE t == [tokens[k] EXCEPT !.revoked = TRUE]
    <3>1. /\ t \in Tokens
          /\ t.user = tokens[k].user /\ t.root = tokens[k].root
          /\ t.tenant = tokens[k].tenant /\ t.perms = tokens[k].perms
      BY <1>1 DEF Tokens
    <3>2. tokens' = [tokens EXCEPT ![k] = t]
      BY <2>1
    <3> HIDE DEF t
    <3> QED
      BY <3>1, <3>2
  <2>2. CASE tokens' = [tokens EXCEPT ![k].expired = TRUE]
    <3> DEFINE t == [tokens[k] EXCEPT !.expired = TRUE]
    <3>1. /\ t \in Tokens
          /\ t.user = tokens[k].user /\ t.root = tokens[k].root
          /\ t.tenant = tokens[k].tenant /\ t.perms = tokens[k].perms
      BY <1>1 DEF Tokens
    <3>2. tokens' = [tokens EXCEPT ![k] = t]
      BY <2>2
    <3> HIDE DEF t
    <3> QED
      BY <3>1, <3>2
  <2> QED
    BY <2>1, <2>2
<1>3. tokens'[k] = t /\ t # None
  BY <1>1, <1>2, NoneTypes
<1>4. \A l \in TokenIds : l # k => tokens'[l] = tokens[l]
  BY <1>1, <1>2
<1>5. TokensGrow
  BY <1>2, <1>3, <1>4 DEF TokensGrow
<1>6. tokens' \in [TokenIds -> Nullable(Tokens)]
  BY <1>1, <1>2 DEF Nullable
<1>7. ASSUME NEW l \in TokenIds, tokens'[l] # None
      PROVE  /\ tokens'[tokens'[l].root] # None
             /\ tokens'[tokens'[l].root].user = tokens'[l].user
  <2>1. tokens[l] # None
    BY <1>3, <1>4, <1>7
  <2>2. tokens[l].root \in TokenIds
    BY <2>1, TokenFields
  <2>3. tokens'[l].root = tokens[l].root /\ tokens'[l].user = tokens[l].user
    BY <1>5, <2>1 DEF TokensGrow
  <2>4. /\ tokens[tokens[l].root] # None
        /\ tokens[tokens[l].root].user = tokens[l].user
    BY <2>1 DEF TokensOK
  <2> QED
    BY <1>5, <2>2, <2>3, <2>4 DEF TokensGrow
<1> QED
  BY <1>5, <1>6, <1>7 DEF TokensOK

\* The token the next Issue of w stores.
Issued(w, k, heard) ==
  [user |-> work[w].user,
   tenant |-> IF work[w].member = None THEN None ELSE work[w].member.tenant,
   perms |-> work[w].perms,
   root |-> IF work[w].token = None THEN k ELSE tokens[work[w].token].root,
   revoked |-> FALSE, expired |-> FALSE, known |-> heard]

LEMMA InsertOK ==
  ASSUME TypesInv, NEW w \in Workers, work[w].at = "issue",
         NEW k \in Fresh, NEW heard \in BOOLEAN, Insert(w, k, heard)
  PROVE  /\ TokensOK' /\ TokensGrow
         /\ \A l \in TokenIds : l # k => tokens'[l] = tokens[l]
         /\ tokens'[k] = Issued(w, k, heard) /\ tokens'[k] # None
         /\ tokens'[k].root \in TokenIds
<1>0. /\ TokensOK /\ Equipped(work[w]) /\ Presented(work[w])
      /\ k \in TokenIds /\ tokens[k] = None
  BY DEF TypesInv, SessionsTypeOK, RequestsOK, TokensOK, Fresh
<1> DEFINE t == Issued(w, k, heard)
<1>1. tokens' = [tokens EXCEPT ![k] = t]
  BY DEF Insert, Issued
<1>2. /\ work[w] \in Jobs /\ work[w].user \in Users
      /\ work[w].token # None => /\ work[w].token \in TokenIds
                                 /\ tokens[work[w].token] # None
                                 /\ tokens[work[w].token].user = work[w].user
  BY <1>0 DEF Equipped, Presented, Jobs, Nullable, UserAwaits, Awaits
<1>3. /\ t.root \in TokenIds
      /\ t.root # k => tokens[t.root] # None /\ tokens[t.root].user = work[w].user
  <2>1. CASE work[w].token = None
    BY <1>0, <2>1 DEF Issued
  <2>2. CASE work[w].token # None
    <3>1. t.root = tokens[work[w].token].root
      BY <2>2 DEF Issued
    <3>2. /\ tokens[work[w].token].root \in TokenIds
          /\ tokens[tokens[work[w].token].root] # None
          /\ tokens[tokens[work[w].token].root].user = work[w].user
      BY <1>0, <1>2, <2>2, TokenFields DEF TokensOK
    <3> QED
      BY <3>1, <3>2
  <2> QED
    BY <2>1, <2>2
<1>4. t \in Tokens /\ t.user = work[w].user
  <2>1. (IF work[w].member = None THEN None ELSE work[w].member.tenant)
          \in Nullable(Tenants)
    BY <1>2 DEF Jobs, Nullable, Members
  <2>2. work[w].perms \in SUBSET Grants
    BY <1>2 DEF Jobs
  <2>3. (IF work[w].token = None THEN k ELSE tokens[work[w].token].root)
          \in TokenIds
    BY <1>3 DEF Issued
  <2> QED
    BY <1>2, <2>1, <2>2, <2>3 DEF Issued, Tokens
<1> HIDE DEF t
<1>5. tokens'[k] = t /\ t # None /\ \A l \in TokenIds : l # k => tokens'[l] = tokens[l]
  BY <1>0, <1>1, <1>4, NoneTypes DEF TokensOK
<1>6. TokensGrow
  BY <1>0, <1>5 DEF TokensGrow
<1>7. tokens' \in [TokenIds -> Nullable(Tokens)]
  BY <1>0, <1>1, <1>4 DEF TokensOK, Nullable
<1>8. ASSUME NEW l \in TokenIds, tokens'[l] # None
      PROVE  /\ tokens'[tokens'[l].root] # None
             /\ tokens'[tokens'[l].root].user = tokens'[l].user
  <2>1. CASE l = k
    BY <1>3, <1>4, <1>5, <2>1
  <2>2. CASE l # k
    <3>1. tokens'[l] = tokens[l] /\ tokens[l] # None
      BY <1>5, <1>8, <2>2
    <3>2. /\ tokens[l].root \in TokenIds /\ tokens[tokens[l].root] # None
          /\ tokens[tokens[l].root].user = tokens[l].user
      BY <1>0, <3>1, TokenFields DEF TokensOK
    <3> QED
      BY <1>0, <1>5, <3>1, <3>2
  <2> QED
    BY <2>1, <2>2
<1> QED
  BY <1>3, <1>5, <1>6, <1>7, <1>8 DEF TokensOK, t

-----------------------------------------------------------------------------
(* The types.                                                              *)

LEMMA Steps ==
  ASSUME Next
  PROVE  \/ \E w \in Workers :
              \/ Arrive(w) \/ Registers(w) \/ Signs(w)
              \/ Fault /\ Finish(w) /\ UNCHANGED <<accounts, tokens, budget, ghosts>>
         \/ SetRoles \/ Logout \/ Expire \/ Call \/ Crash
BY DEF Next, Step, Registers, Signs, Fail

AccountsOK ==
  /\ tenants \subseteq Tenants /\ users \subseteq Users
  /\ members \subseteq Members /\ roles \subseteq RoleIds

LEMMA WithRolesTypes ==
  ASSUME AccountsOK, NEW u \in Users, NEW t \in Tenants, NEW rs \in SUBSET RoleIds
  PROVE  WithRoles(u, t, rs) \subseteq Members
<1> DEFINE owner == \E m \in MemberOf(u, t) : m.owner
           m == [user |-> u, tenant |-> t, roles |-> rs, owner |-> owner]
<1>1. owner \in BOOLEAN
  OBVIOUS
<1> HIDE DEF owner
<1>2. m \in Members
  BY <1>1 DEF Members
<1>3. WithRoles(u, t, rs) = (members \ MemberOf(u, t)) \union {m}
  BY DEF WithRoles, owner
<1> QED
  BY <1>2, <1>3 DEF AccountsOK

LEMMA RegistersTypes ==
  ASSUME TypesInv, NEW w \in Workers, Registers(w)
  PROVE  AccountsOK'
<1>0. AccountsOK /\ Equipped(work[w]) /\ work[w] \in Jobs
  BY DEF TypesInv, SessionsTypeOK, RequestsOK, AccountsOK, Equipped
<1>1. CASE \/ FindUser(w) \/ FindTenant(w)
  BY <1>0, <1>1 DEF FindUser, FindTenant, accounts, AccountsOK
<1>2. CASE CreateTenant(w) \/ InsertTenant(w)
  <2>1. work[w].tenant \in Tenants
    BY <1>0, <1>2 DEF CreateTenant, InsertTenant, At, Equipped, TenantAwaits
  <2> QED
    BY <1>0, <1>2, <2>1 DEF CreateTenant, InsertTenant, AccountsOK
<1>3. CASE CreateUser(w) \/ UpsertUser(w)
  <2>1. work[w].user \in Users
    BY <1>0, <1>3 DEF CreateUser, UpsertUser, At, Equipped, UserAwaits, Awaits
  <2> QED
    BY <1>0, <1>3, <2>1 DEF CreateUser, UpsertUser, AccountsOK
<1>4. CASE CreateOwner(w)
  <2>1. work[w].user \in Users /\ work[w].tenant \in Tenants
    BY <1>0, <1>4 DEF CreateOwner, At, Equipped, UserAwaits, TenantAwaits, Awaits
  <2>2. [user |-> work[w].user, tenant |-> work[w].tenant, owner |-> TRUE,
         roles |-> {}] \in Members
    BY <2>1 DEF Members
  <2> QED
    BY <1>0, <1>4, <2>2 DEF CreateOwner, AccountsOK
<1>5. CASE UpsertRole(w)
  <2> DEFINE n == work[w].upserted + 1
  <2>1. work[w].tenant \in Tenants /\ work[w].upserted < Len(RoleNames)
    BY <1>0, <1>5 DEF UpsertRole, At, Equipped, TenantAwaits
  <2>2. Len(RoleNames) \in Nat /\ work[w].upserted \in 0..Len(RoleNames)
    BY <1>0, SessionsAssumption DEF Jobs
  <2>3. n \in 1..Len(RoleNames)
    BY <2>1, <2>2
  <2>4. <<work[w].tenant, RoleNames[n]>> \in RoleIds
    BY <2>1, <2>3, RoleTypes
  <2> QED
    BY <1>0, <1>5, <2>4 DEF UpsertRole, AccountsOK
<1>6. CASE UpsertMember(w)
  <2>1. /\ work[w].user \in Users /\ work[w].tenant \in Tenants
        /\ work[w].roles \in SUBSET RoleIds
    BY <1>0, <1>6
       DEF UpsertMember, At, Equipped, UserAwaits, TenantAwaits, Awaits, Jobs
  <2> QED
    BY <1>0, <1>6, <2>1, WithRolesTypes DEF UpsertMember, AccountsOK
<1> QED
  BY <1>1, <1>2, <1>3, <1>4, <1>5, <1>6 DEF Registers

LEMMA TypesInit == Init => TypesInv
<1> SUFFICES ASSUME Init PROVE TypesInv
  OBVIOUS
<1>1. \A w \in Workers : Equipped(work[w]) /\ Presented(work[w])
  BY IdleOK DEF Init
<1>2. work \in [Workers -> Jobs]
  BY IdleOK DEF Init, Equipped
<1>3. budget \in [Ops -> Nat] /\ faults \in Nat
  BY SessionsAssumption DEF Init
<1>4. tokens \in [TokenIds -> Nullable(Tokens)] /\ \A k \in TokenIds : tokens[k] = None
  BY DEF Init, Nullable
<1>5. \A w \in Workers : work[w].token = None
  BY IdleOK DEF Init
<1> QED
  BY <1>1, <1>2, <1>3, <1>4, <1>5 DEF Init, TypesInv, SessionsTypeOK, RequestsOK

\* The types but for those of accounts, tokens and requests.
RestOK ==
  /\ budget \in [Ops -> Nat]
  /\ overlapped \subseteq TokenIds /\ closed \subseteq TokenIds
  /\ refused \subseteq [needs : SUBSET Seq(STRING), held : SUBSET Grants]
  /\ faults \in Nat

LEMMA SpendOK ==
  ASSUME RestOK, NEW op \in Ops, Spend(op) PROVE budget' \in [Ops -> Nat]
BY DEF RestOK, Spend

LEMMA RequestsMean ==
  ASSUME RequestsOK
  PROVE  \A w \in Workers : work[w].token # None => tokens[work[w].token] # None
BY DEF RequestsOK, Presented

LEMMA TypesParts ==
  TypesInv <=> /\ AccountsOK /\ TokensOK /\ RestOK
               /\ work \in [Workers -> Jobs] /\ RequestsOK
BY RequestsMean DEF TypesInv, SessionsTypeOK, AccountsOK, TokensOK, RestOK

LEMMA RestStep ==
  ASSUME TypesInv, Next PROVE RestOK'
<1>0. RestOK /\ TokensOK
  BY TypesParts
<1>1. \A n \in Nat : n + 1 \in Nat
  OBVIOUS
<1>2. ASSUME NEW w \in Workers, Arrive(w) PROVE RestOK'
  <2>1. \E op \in Ops : Spend(op)
    BY <1>2 DEF Arrive, Register, NewTenant, Invite, Login, Refresh, Begin, Ops
  <2> QED
    BY <1>0, <1>2, <2>1, SpendOK, ArriveOK DEF RestOK, ghosts
<1>3. ASSUME NEW w \in Workers, Registers(w) PROVE RestOK'
  BY <1>0, <1>3, RegistersOK DEF RestOK, Sideways, ghosts
<1>4. ASSUME NEW w \in Workers, Signs(w) PROVE RestOK'
  <2>1. UNCHANGED <<budget, closed, refused>>
    BY <1>4, SignsOK
  <2>2. faults' \in Nat
    BY <1>0, <1>1, <1>4
       DEF RestOK, Signs, FindAccount, FindToken, Revoke, ReadMemberships,
           Resolve, Issue, IssueUnheard, Sideways, Fault
  <2>3. CASE FindToken(w)
    <3>1. Presented(work[w]) /\ Equipped(work[w]) /\ work[w].at = "findToken"
      BY <2>3 DEF TypesInv, RequestsOK, FindToken, At
    <3>2. work[w].token \in TokenIds /\ tokens[work[w].token] # None
      BY <3>1 DEF Presented, Equipped, Jobs, Nullable
    <3>3. tokens[work[w].token].root \in TokenIds
      BY <1>0, <3>2, TokenFields
    <3> QED
      BY <1>0, <2>1, <2>2, <2>3, <3>3 DEF RestOK, FindToken
  <2>4. CASE ~FindToken(w)
    <3>1. overlapped' = overlapped
      BY <1>4, <2>4
         DEF Signs, FindAccount, Revoke, ReadMemberships, Resolve, Issue,
             IssueUnheard, Sideways, ghosts
    <3> QED
      BY <1>0, <2>1, <2>2, <3>1 DEF RestOK
  <2> QED
    BY <2>3, <2>4
<1>5. CASE SetRoles
  BY <1>0, <1>5, SpendOK DEF SetRoles, RestOK, ghosts, Ops
<1>6. CASE Logout
  <2>1. PICK k \in TokenIds :
          /\ tokens[k] # None
          /\ Spend("logout")
          /\ closed' \in {closed, closed \union {tokens[k].root}}
    BY <1>6 DEF Logout
  <2>2. tokens[k].root \in TokenIds
    BY <1>0, <2>1, TokenFields
  <2>3. budget' \in [Ops -> Nat]
    BY <1>0, <2>1, SpendOK DEF Ops
  <2> QED
    BY <1>0, <1>6, <2>1, <2>2, <2>3 DEF Logout, RestOK
<1>7. CASE Expire
  BY <1>0, <1>7, SpendOK DEF Expire, RestOK, ghosts, Ops
<1>8. CASE Call
  <2>1. PICK k \in TokenIds, route \in CallRoutes :
          /\ tokens[k] # None /\ Spend("call")
          /\ refused' = refused \union {[needs |-> route.needs,
                                         held |-> tokens[k].perms]}
    BY <1>8 DEF Call
  <2>2. tokens[k].perms \in SUBSET Grants
    BY <1>0, <2>1, TokenFields DEF Tokens
  <2>3. route.needs \in SUBSET Seq(STRING)
    <3>1. CallRoutes \subseteq [public : BOOLEAN, needs : SUBSET Seq(STRING)]
      BY SessionsAssumption
    <3> QED
      BY <3>1
  <2>4. budget' \in [Ops -> Nat]
    BY <1>0, <2>1, SpendOK DEF Ops
  <2> QED
    BY <1>0, <1>8, <2>1, <2>2, <2>3, <2>4 DEF Call, RestOK
<1>9. CASE Crash
  BY <1>0, <1>1, <1>9 DEF Crash, Fault, RestOK, ghosts
<1>10. ASSUME NEW w \in Workers, Fault, UNCHANGED <<accounts, tokens, budget, ghosts>>
       PROVE  RestOK'
  BY <1>0, <1>1, <1>10 DEF Fault, RestOK, ghosts
<1> QED
  BY <1>2, <1>3, <1>4, <1>5, <1>6, <1>7, <1>8, <1>9, <1>10, Steps

LEMMA SetRolesTypes ==
  ASSUME TypesInv, SetRoles PROVE AccountsOK'
<1>1. PICK m \in members, rs \in RoleSets :
        members' = WithRoles(m.user, m.tenant, rs)
  BY DEF SetRoles
<1>2. m.user \in Users /\ m.tenant \in Tenants /\ rs \in SUBSET RoleIds
  BY SessionsAssumption DEF TypesInv, SessionsTypeOK, Members
<1> QED
  BY <1>1, <1>2, WithRolesTypes, TypesParts DEF SetRoles, AccountsOK

LEMMA IssuesOK ==
  ASSUME TypesInv, NEW w \in Workers, Issue(w) \/ IssueUnheard(w)
  PROVE  /\ \E heard \in BOOLEAN : Insert(w, FreshToken, heard)
         /\ FreshToken \in Fresh /\ work[w].at = "issue" /\ Finish(w)
BY DEF Issue, IssueUnheard, At, FreshToken

LEMMA TokensStep ==
  ASSUME TypesInv, Next PROVE TokensOK' /\ TokensGrow
<1>0. TokensOK
  BY TypesParts
<1>1. ASSUME UNCHANGED tokens PROVE TokensOK' /\ TokensGrow
  BY <1>0, <1>1 DEF TokensOK, TokensGrow
<1>2. ASSUME NEW w \in Workers, Arrive(w) \/ Registers(w)
      PROVE  UNCHANGED tokens
  BY <1>2, ArriveOK, RegistersOK DEF Sideways
<1>3. ASSUME NEW w \in Workers, Signs(w)
      PROVE  TokensOK' /\ TokensGrow
  <2>1. CASE Revoke(w)
    <3>1. Equipped(work[w]) /\ Presented(work[w]) /\ work[w].at = "revoke"
      BY <2>1 DEF TypesInv, RequestsOK, Revoke, At
    <3>2. work[w].token \in TokenIds /\ tokens[work[w].token] # None
      BY <3>1 DEF Presented, Equipped, Jobs, Nullable
    <3>3. tokens' = [tokens EXCEPT ![work[w].token].revoked = TRUE]
      BY <2>1 DEF Revoke
    <3> QED
      BY <1>0, <3>2, <3>3, RevokedOK
  <2>2. CASE Issue(w) \/ IssueUnheard(w)
    BY <2>2, IssuesOK, InsertOK
  <2>3. CASE FindAccount(w) \/ FindToken(w) \/ ReadMemberships(w) \/ Resolve(w)
    <3>1. UNCHANGED tokens
      BY <2>3 DEF FindAccount, FindToken, ReadMemberships, Resolve, Sideways
    <3> QED
      BY <1>1, <3>1
  <2> QED
    BY <1>3, <2>1, <2>2, <2>3 DEF Signs
<1>4. CASE Logout
  <2>1. PICK k \in TokenIds :
          tokens[k] # None /\ tokens' = [tokens EXCEPT ![k].revoked = TRUE]
    BY <1>4 DEF Logout
  <2> QED
    BY <1>0, <2>1, RevokedOK
<1>5. CASE Expire
  <2>1. PICK k \in TokenIds :
          tokens[k] # None /\ tokens' = [tokens EXCEPT ![k].expired = TRUE]
    BY <1>5 DEF Expire
  <2> QED
    BY <1>0, <2>1, RevokedOK
<1> QED
  BY <1>1, <1>2, <1>3, <1>4, <1>5, Steps DEF SetRoles, Call, Crash

LEMMA AccountsStep ==
  ASSUME TypesInv, Next PROVE AccountsOK'
<1>1. ASSUME UNCHANGED accounts PROVE AccountsOK'
  BY <1>1, TypesParts DEF AccountsOK, accounts
<1>2. ASSUME NEW w \in Workers, Arrive(w) \/ Signs(w) PROVE UNCHANGED accounts
  BY <1>2, ArriveOK, SignsOK
<1> QED
  BY <1>1, <1>2, RegistersTypes, SetRolesTypes, Steps
     DEF Logout, Expire, Call, Crash

LEMMA RequestsStep ==
  ASSUME TypesInv, Next PROVE RequestsOK' /\ work' \in [Workers -> Jobs]
<1>0. TokensGrow /\ RequestsOK /\ work \in [Workers -> Jobs]
  BY TokensStep, TypesParts
<1>1. ASSUME NEW w \in Workers, \E j : Becomes(w, j)
      PROVE  RequestsOK' /\ work' \in [Workers -> Jobs]
  BY <1>0, <1>1, RequestsKept
<1>2. CASE UNCHANGED work
  <2>1. ASSUME NEW w \in Workers PROVE Presented(work[w])'
    <3>1. work[w].token \in Nullable(TokenIds)
      BY <1>0 DEF Jobs
    <3> QED
      BY <1>0, <1>2, <3>1 DEF RequestsOK, Presented, TokensGrow, Nullable
  <2> QED
    BY <1>0, <1>2, <2>1 DEF RequestsOK
<1>3. CASE Crash
  <2>1. \A w \in Workers : work'[w] = Idle
    BY <1>3 DEF Crash
  <2>2. work' \in [Workers -> Jobs]
    BY <1>3, IdleOK DEF Crash, Equipped
  <2> QED
    BY <2>1, <2>2, IdleOK DEF RequestsOK, Presented
<1>4. ASSUME NEW w \in Workers, Arrive(w) \/ Registers(w) \/ Signs(w) \/ Finish(w)
      PROVE  \E j : Becomes(w, j)
  BY <1>4, ArriveOK, RegistersOK, SignsOK, FinishOK
<1> QED
  BY <1>1, <1>2, <1>3, <1>4, Steps DEF SetRoles, Logout, Expire, Call

LEMMA TypesStep == TypesInv /\ [Next]_vars => TypesInv'
<1>1. TypesInv /\ Next => TypesInv'
  <2>1. TypesInv' <=> (/\ AccountsOK /\ TokensOK /\ RestOK
                       /\ work \in [Workers -> Jobs] /\ RequestsOK)'
    BY TypesParts, PTL
  <2> QED
    BY <2>1, AccountsStep, TokensStep, RestStep, RequestsStep
<1>2. TypesInv /\ UNCHANGED vars => TypesInv'
  BY DEF TypesInv, SessionsTypeOK, RequestsOK, Presented, vars, accounts, ghosts
<1> QED
  BY <1>1, <1>2

LEMMA TypesAlways == Spec => []TypesInv
BY TypesInit, TypesStep, PTL DEF Spec

(* Every state has variables of their types, a request under way presents  *)
(* a token that exists, and each token is of the user of the login it      *)
(* descends from (auth.service.ts, issueTokens and refresh).               *)
THEOREM SessionsTypes == Spec => []SessionsTypeOK
<1>1. TypesInv => SessionsTypeOK
  BY DEF TypesInv
<1> QED
  BY <1>1, TypesAlways, PTL

-----------------------------------------------------------------------------
(* What a step does to a login.                                            *)

\* Nothing comes to login r: no token that works, no exchange, no progress.
Narrows(r) ==
  /\ Live(r)' \subseteq Live(r)
  /\ \A v \in Exchanging(r)' : v \in Exchanging(r) /\ work'[v] = work[v]

\* The exchange of r at w goes on.
Proceeds(w, r) ==
  /\ w \in Exchanging(r)
  /\ Live(r)' \subseteq Live(r)
  /\ \A v \in Exchanging(r)' :
       v \in Exchanging(r) /\ (v # w => work'[v] = work[v])
  /\ \/ work[w].at \in {"memberships", "resolve"}
     \/ work[w].at = "revoke" /\ work[w].token \notin Live(r)'

\* An exchange of r begins at w.
Enters(w, r) ==
  /\ FindToken(w)
  /\ work[w].token \in Live(r) /\ Live(r)' = Live(r)
  /\ \A v \in Exchanging(r)' :
       v # w => v \in Exchanging(r) /\ work'[v] = work[v]
  /\ work'[w].at = "revoke" /\ work'[w].token = work[w].token

\* The exchange of r at w, or a new login r, ends with a token.
Ends(w, r) ==
  /\ \/ w \in Exchanging(r) /\ work[w].at = "issue"
     \/ tokens[r] = None
  /\ \E k \in TokenIds : Live(r)' = Live(r) \union {k}
  /\ \A v \in Exchanging(r)' : v # w /\ v \in Exchanging(r) /\ work'[v] = work[v]

(* Logins do not change by themselves.                                     *)
LEMMA LiveKept ==
  ASSUME TokensGrow, NEW r \in TokenIds,
         \A k \in TokenIds : tokens'[k] # None =>
           tokens[k] # None /\ (tokens[k].revoked => tokens'[k].revoked)
  PROVE  Live(r)' \subseteq Live(r)
BY DEF Live, SameLogin, TokensGrow

LEMMA ExchangingKept ==
  ASSUME TypesInv, Next, NEW r \in TokenIds, NEW v \in Workers,
         work'[v] = work[v], v \in Exchanging(r)'
  PROVE  v \in Exchanging(r)
<1>1. /\ work[v].token # None /\ ~At(v, "findToken")
      /\ SameLogin(work[v].token, r)'
  BY DEF Exchanging, At, SameLogin
<1>2. work[v].token \in TokenIds /\ tokens[work[v].token] # None
  BY <1>1 DEF TypesInv, SessionsTypeOK, Jobs, Nullable
<1>3. SameLogin(work[v].token, r)
  BY <1>1, <1>2, TokensStep DEF SameLogin, TokensGrow
<1> QED
  BY <1>1, <1>3 DEF Exchanging

\* Only the request of w changes.
OnlyAt(w) == \A v \in Workers : v # w => work'[v] = work[v]

LEMMA BecomesOnlyAt ==
  ASSUME TypesInv, NEW w \in Workers,
         (\E j : Becomes(w, j)) \/ Finish(w) \/ \E await : Goto(w, await)
  PROVE  OnlyAt(w)
BY DEF Becomes, Finish, Goto, OnlyAt, TypesInv, SessionsTypeOK

(* A step of w outside of an exchange, with the tokens as they are.        *)
LEMMA NarrowsOutside ==
  ASSUME TypesInv, Next, NEW r \in TokenIds, NEW w \in Workers, OnlyAt(w),
         Live(r)' \subseteq Live(r),
         work'[w].at \notin ExchangeAwaits \ {"findToken"}
  PROVE  Narrows(r)
<1>1. ASSUME NEW v \in Exchanging(r)' PROVE v # w
  <2>1. work'[v].token # None /\ work'[v].at # "findToken" /\ v \in Workers
    BY <1>1 DEF Exchanging, At
  <2>2. Presented(work[v])'
    BY <2>1, RequestsStep DEF RequestsOK
  <2>3. work'[v].at \in ExchangeAwaits
    BY <2>1, <2>2 DEF Presented
  <2> QED
    BY <2>1, <2>3
<1>2. ASSUME NEW v \in Exchanging(r)' PROVE v \in Workers /\ work'[v] = work[v]
  BY <1>1, <1>2 DEF Exchanging, OnlyAt
<1> QED
  BY <1>2, ExchangingKept DEF Narrows

LEMMA IdleOutside == Idle.at \notin ExchangeAwaits
BY DEF Idle, ExchangeAwaits

LEMMA FinishOutside ==
  ASSUME TypesInv, Next, NEW r \in TokenIds, NEW w \in Workers, Finish(w),
         Live(r)' \subseteq Live(r)
  PROVE  Narrows(r)
<1>1. work'[w] = Idle
  BY DEF Finish, TypesInv, SessionsTypeOK
<1> QED
  BY <1>1, BecomesOnlyAt, IdleOutside, NarrowsOutside

LEMMA SameTokens ==
  ASSUME TypesInv, Next, UNCHANGED tokens, NEW r
  PROVE  Live(r)' = Live(r)
BY DEF Live, SameLogin

(* A query of an exchange leaves the other logins alone.                   *)
LEMMA ProceedsOrNarrows ==
  ASSUME TypesInv, Next, NEW r \in TokenIds, NEW w \in Workers, OnlyAt(w),
         Live(r)' \subseteq Live(r), work'[w].token = work[w].token,
         work[w].at \in {"revoke", "memberships", "resolve"},
         work[w].at = "revoke" => work[w].token \notin Live(r)'
  PROVE  Narrows(r) \/ Proceeds(w, r)
<1>1. ASSUME NEW v \in Exchanging(r)', v # w
      PROVE  v \in Exchanging(r) /\ work'[v] = work[v]
  BY <1>1, ExchangingKept DEF Exchanging, OnlyAt
<1>2. CASE w \in Exchanging(r)
  BY <1>1, <1>2 DEF Proceeds
<1>3. CASE w \notin Exchanging(r)
  <2>1. w \notin Exchanging(r)'
    <3>1. SUFFICES ASSUME w \in Exchanging(r)' PROVE FALSE
      OBVIOUS
    <3>2. work[w].token # None /\ SameLogin(work[w].token, r)'
      BY <3>1 DEF Exchanging, SameLogin
    <3>3. work[w].token \in TokenIds /\ tokens[work[w].token] # None
      BY <3>2 DEF TypesInv, SessionsTypeOK, Jobs, Nullable
    <3>4. SameLogin(work[w].token, r)
      BY <3>2, <3>3, TokensStep DEF SameLogin, TokensGrow
    <3> QED
      BY <1>3, <3>2, <3>4 DEF Exchanging, At
  <2> QED
    BY <1>1, <2>1 DEF Narrows
<1> QED
  BY <1>2, <1>3

LEMMA RevokedIs ==
  ASSUME TypesInv, Next, NEW k \in TokenIds, tokens[k] # None,
         tokens' = [tokens EXCEPT ![k].revoked = TRUE], NEW r \in TokenIds
  PROVE  Live(r)' = Live(r) \ {k}
<1>1. tokens \in [TokenIds -> Nullable(Tokens)] /\ tokens[k] \in Tokens
  BY TokenFields, TypesParts DEF TokensOK
<1>2. \A l \in TokenIds : l # k => tokens'[l] = tokens[l]
  BY <1>1
<1>3. tokens'[k].revoked = TRUE
  BY <1>1 DEF Tokens
<1>4. \A l \in TokenIds : SameLogin(l, r)' <=> SameLogin(l, r)
  BY <1>2, TokensStep DEF SameLogin, TokensGrow
<1> QED
  BY <1>2, <1>3, <1>4 DEF Live

(* A step of a login or refresh request does one of four things to login r. *)
LEMMA SignsLogin ==
  ASSUME TypesInv, Next, NEW r \in TokenIds, NEW w \in Workers, Signs(w)
  PROVE  Narrows(r) \/ Proceeds(w, r) \/ Enters(w, r) \/ Ends(w, r)
<1>0. /\ Equipped(work[w]) /\ Presented(work[w]) /\ work \in [Workers -> Jobs]
      /\ TokensOK /\ OnlyAt(w)
  BY TypesParts, SignsOK, BecomesOnlyAt DEF RequestsOK
<1>1. CASE FindAccount(w)
  <2>1. UNCHANGED tokens /\ (Finish(w) \/ Goto(w, "memberships"))
    BY <1>1 DEF FindAccount, Sideways
  <2>2. Live(r)' = Live(r)
    BY <2>1, SameTokens
  <2>3. CASE Goto(w, "memberships")
    <3>1. work[w].at = "findAccount" /\ work[w].token = None
      BY <1>0, <1>1 DEF FindAccount, At, Presented, ExchangeAwaits
    <3>2. work'[w].token = None
      BY <1>0, <2>3, <3>1 DEF Goto, Jobs
    <3>3. ASSUME NEW v \in Exchanging(r)'
          PROVE  v \in Exchanging(r) /\ work'[v] = work[v]
      <4>1. v \in Workers /\ work'[v].token # None
        BY <3>3 DEF Exchanging
      <4>2. v # w
        BY <3>2, <4>1
      <4>3. work'[v] = work[v]
        BY <1>0, <4>1, <4>2 DEF OnlyAt
      <4> QED
        BY <3>3, <4>1, <4>3, ExchangingKept
    <3> QED
      BY <2>2, <3>3 DEF Narrows
  <2> QED
    BY <2>1, <2>2, <2>3, FinishOutside
<1>2. CASE FindToken(w)
  <2> DEFINE k == work[w].token
  <2>1. work[w].at = "findToken" /\ k \in TokenIds /\ tokens[k] # None
    BY <1>0, <1>2 DEF FindToken, At, Equipped, Presented, Jobs, Nullable
  <2>2. Live(r)' = Live(r)
    BY <1>2, SameTokens DEF FindToken
  <2>3. Finish(w) \/ (Usable(k) /\ Goto(w, "revoke"))
    BY <1>2 DEF FindToken
  <2>4. ASSUME NEW v \in Exchanging(r)', v # w
        PROVE  v \in Exchanging(r) /\ work'[v] = work[v]
    BY <1>0, <2>4, ExchangingKept DEF Exchanging, OnlyAt
  <2>5. CASE Usable(k) /\ Goto(w, "revoke")
    <3>1. work'[w].at = "revoke" /\ work'[w].token = k
      BY <1>0, <2>5 DEF Goto, Jobs
    <3>2. CASE SameLogin(k, r)
      <4>1. k \in Live(r)
        BY <2>1, <2>5, <3>2 DEF Live, Usable
      <4> QED
        BY <1>2, <2>2, <2>4, <3>1, <4>1 DEF Enters
    <3>3. CASE ~SameLogin(k, r)
      <4>1. tokens'[k].root # r
        BY <2>1, <3>3, TokensStep DEF SameLogin, TokensGrow
      <4>2. w \notin Exchanging(r)'
        BY <3>1, <4>1 DEF Exchanging, SameLogin
      <4> QED
        BY <2>2, <2>4, <4>2 DEF Narrows
    <3> QED
      BY <3>2, <3>3
  <2> QED
    BY <2>2, <2>3, <2>5, FinishOutside
<1>3. CASE Revoke(w)
  <2> DEFINE k == work[w].token
  <2>1. work[w].at = "revoke" /\ k \in TokenIds /\ tokens[k] # None
    BY <1>0, <1>3 DEF Revoke, At, Equipped, Presented, Jobs, Nullable
  <2>2. Live(r)' = Live(r) \ {k}
    BY <1>3, <2>1, RevokedIs DEF Revoke
  <2>3. work'[w].token = k
    BY <1>0, <1>3 DEF Revoke, Goto, Jobs
  <2>4. Live(r)' \subseteq Live(r) /\ k \notin Live(r)'
    BY <2>2
  <2> QED
    BY <1>0, <2>1, <2>3, <2>4, ProceedsOrNarrows
<1>4. CASE ReadMemberships(w)
  <2>1. work[w].at = "memberships"
    BY <1>4 DEF ReadMemberships, At
  <2>2. Live(r)' = Live(r)
    BY <1>4, SameTokens DEF ReadMemberships, Sideways
  <2>3. Finish(w) \/ work'[w].token = work[w].token
    <3>1. \/ Finish(w)
          \/ \E j : Becomes(w, j) /\ j.token = work[w].token
      BY <1>4, MembershipsOK
    <3> QED
      BY <1>0, <3>1 DEF Becomes
  <2> QED
    BY <1>0, <2>1, <2>2, <2>3, FinishOutside, ProceedsOrNarrows
<1>5. CASE Resolve(w)
  <2>1. work[w].at = "resolve"
    BY <1>5 DEF Resolve, At
  <2>2. Live(r)' = Live(r)
    BY <1>5, SameTokens DEF Resolve, Sideways
  <2>3. \E j : Becomes(w, j) /\ j.token = work[w].token
    BY <1>5, ResolveOK
  <2>4. work'[w].token = work[w].token
    BY <1>0, <2>3 DEF Becomes
  <2> QED
    BY <1>0, <2>1, <2>2, <2>4, ProceedsOrNarrows
<1>6. CASE Issue(w) \/ IssueUnheard(w)
  <2> DEFINE k == FreshToken
  <2>1. /\ k \in Fresh /\ work[w].at = "issue" /\ Finish(w)
        /\ \E heard \in BOOLEAN : Insert(w, k, heard)
    BY <1>6, IssuesOK
  <2>2. PICK heard \in BOOLEAN : Insert(w, k, heard)
    BY <2>1
  <2>3. /\ \A l \in TokenIds : l # k => tokens'[l] = tokens[l]
        /\ tokens'[k] = Issued(w, k, heard) /\ tokens'[k] # None
    BY <2>1, <2>2, InsertOK
  <2>4. k \in TokenIds /\ tokens[k] = None
    BY <2>1 DEF Fresh
  <2> HIDE DEF k
  <2>5. tokens'[k].root = IF work[w].token = None THEN k ELSE tokens[work[w].token].root
    BY <2>3 DEF Issued
  <2>6. Live(r)' \subseteq Live(r) \union {k}
    BY <2>3 DEF Live, SameLogin
  <2>7. Live(r) \subseteq Live(r)'
    BY <2>3, <2>4 DEF Live, SameLogin
  <2>8. CASE tokens'[k].root = r
    <3>1. k \in Live(r)'
      BY <2>3, <2>4, <2>8 DEF Live, SameLogin, Issued
    <3>2. Live(r)' = Live(r) \union {k}
      BY <2>6, <2>7, <3>1
    <3>3. \/ w \in Exchanging(r) /\ work[w].at = "issue"
          \/ tokens[r] = None
      <4>1. CASE work[w].token = None
        BY <2>4, <2>5, <2>8, <4>1
      <4>2. CASE work[w].token # None
        BY <1>0, <2>1, <2>5, <2>8, <4>2 DEF Exchanging, SameLogin, Presented, At
      <4> QED
        BY <4>1, <4>2
    <3>4. work'[w].token = None
      BY <1>0, <2>1, IdleOK DEF Finish
    <3>5. ASSUME NEW v \in Exchanging(r)'
          PROVE  v # w /\ v \in Exchanging(r) /\ work'[v] = work[v]
      <4>1. v \in Workers /\ work'[v].token # None
        BY <3>5 DEF Exchanging
      <4>2. v # w
        BY <3>4, <4>1
      <4>3. work'[v] = work[v]
        BY <1>0, <4>1, <4>2 DEF OnlyAt
      <4> QED
        BY <3>5, <4>1, <4>2, <4>3, ExchangingKept
    <3> QED
      BY <2>4, <3>2, <3>3, <3>5 DEF Ends
  <2>9. CASE tokens'[k].root # r
    <3>1. k \notin Live(r)'
      BY <2>9 DEF Live, SameLogin
    <3>2. Live(r)' \subseteq Live(r)
      BY <2>6, <3>1
    <3> QED
      BY <2>1, <3>2, FinishOutside
  <2> QED
    BY <2>8, <2>9
<1> QED
  BY <1>1, <1>2, <1>3, <1>4, <1>5, <1>6 DEF Signs

(* And so does every other step, which narrows it.                         *)
LEMMA LoginSteps ==
  ASSUME TypesInv, Next, NEW r \in TokenIds
  PROVE  \/ Narrows(r)
         \/ \E w \in Workers : Proceeds(w, r) \/ Enters(w, r) \/ Ends(w, r)
<1>1. ASSUME NEW w \in Workers, Arrive(w) PROVE Narrows(r)
  BY <1>1, ArriveOK, BecomesOnlyAt, SameTokens, NarrowsOutside
<1>2. ASSUME NEW w \in Workers, Registers(w) PROVE Narrows(r)
  BY <1>2, RegistersOK, BecomesOnlyAt, SameTokens, NarrowsOutside DEF Sideways
<1>3. ASSUME NEW w \in Workers, Finish(w), UNCHANGED tokens PROVE Narrows(r)
  BY <1>3, SameTokens, FinishOutside
<1>4. ASSUME UNCHANGED work, Live(r)' \subseteq Live(r) PROVE Narrows(r)
  BY <1>4, ExchangingKept DEF Narrows, Exchanging
<1>5. CASE Logout
  <2>1. PICK k \in TokenIds :
          tokens[k] # None /\ tokens' = [tokens EXCEPT ![k].revoked = TRUE]
    BY <1>5 DEF Logout
  <2>2. Live(r)' = Live(r) \ {k}
    BY <2>1, RevokedIs
  <2> QED
    BY <1>4, <1>5, <2>2 DEF Logout
<1>6. CASE Expire
  <2>1. PICK k \in TokenIds :
          tokens[k] # None /\ tokens' = [tokens EXCEPT ![k].expired = TRUE]
    BY <1>6 DEF Expire
  <2>2. tokens \in [TokenIds -> Nullable(Tokens)] /\ tokens[k] \in Tokens
    BY <2>1, TokenFields, TypesParts DEF TokensOK
  <2>3. tokens'[k].revoked = tokens[k].revoked
    BY <2>1, <2>2 DEF Tokens
  <2>4. \A l \in TokenIds : l # k => tokens'[l] = tokens[l]
    BY <2>1, <2>2
  <2>5. Live(r)' \subseteq Live(r)
    BY <2>1, <2>3, <2>4, TokensStep, LiveKept
  <2> QED
    BY <1>4, <1>6, <2>5 DEF Expire
<1>7. CASE SetRoles \/ Call
  <2>1. UNCHANGED <<tokens, work>>
    BY <1>7 DEF SetRoles, Call
  <2> QED
    BY <1>4, <2>1, SameTokens
<1>8. CASE Crash
  <2>1. UNCHANGED tokens /\ \A w \in Workers : work'[w] = Idle
    BY <1>8 DEF Crash
  <2>2. Exchanging(r)' = {}
    BY <2>1, IdleOK DEF Exchanging
  <2> QED
    BY <2>1, <2>2, SameTokens DEF Narrows
<1> QED
  BY <1>1, <1>2, <1>3, <1>5, <1>6, <1>7, <1>8, SignsLogin, Steps

-----------------------------------------------------------------------------
(* Refresh tokens are used once.                                           *)

\* A login has one exchange, or one token that works, or the exchange of it.
Orderly(r) ==
  /\ \A v, w \in Exchanging(r) : v = w
  /\ \A k, l \in Live(r) : k = l
  /\ \A w \in Exchanging(r) :
       Live(r) # {} => At(w, "revoke") /\ work[w].token \in Live(r)

LEMMA NarrowsOrderly ==
  ASSUME NEW r, Orderly(r), Narrows(r) PROVE Orderly(r)'
<1>1. \A v, w \in Exchanging(r)' : v = w
  BY DEF Orderly, Narrows
<1>2. \A k, l \in Live(r)' : k = l
  BY DEF Orderly, Narrows
<1>3. ASSUME NEW w \in Exchanging(r)', Live(r)' # {}
      PROVE  At(w, "revoke")' /\ work'[w].token \in Live(r)'
  <2>1. w \in Exchanging(r) /\ work'[w] = work[w] /\ Live(r) # {}
    BY <1>3 DEF Narrows
  <2>2. At(w, "revoke") /\ work[w].token \in Live(r)
    BY <2>1 DEF Orderly
  <2>3. work[w].token \in Live(r)'
    BY <1>3, <2>2 DEF Orderly, Narrows
  <2> QED
    BY <2>1, <2>2, <2>3 DEF At
<1> QED
  BY <1>1, <1>2, <1>3 DEF Orderly

LEMMA ProceedsOrderly ==
  ASSUME NEW r, Orderly(r), NEW w \in Workers, Proceeds(w, r)
  PROVE  Orderly(r)'
<1>1. \A v, u \in Exchanging(r)' : v = u
  BY DEF Orderly, Proceeds
<1>2. \A k, l \in Live(r)' : k = l
  BY DEF Orderly, Proceeds
<1>3. Live(r)' = {}
  <2>1. SUFFICES ASSUME NEW k \in Live(r)' PROVE FALSE
    OBVIOUS
  <2>2. w \in Exchanging(r) /\ k \in Live(r)
    BY <2>1 DEF Proceeds
  <2>3. work[w].at = "revoke" /\ work[w].token = k
    BY <2>2 DEF Orderly, At
  <2> QED
    BY <2>1, <2>3 DEF Proceeds
<1> QED
  BY <1>1, <1>2, <1>3 DEF Orderly

LEMMA EntersOrderly ==
  ASSUME TypesInv, NEW r \in TokenIds, Orderly(r), NEW w \in Workers,
         Enters(w, r), r \notin overlapped'
  PROVE  Orderly(r)'
<1> DEFINE k == work[w].token
<1>0. /\ FindToken(w) /\ k \in Live(r) /\ Live(r)' = Live(r)
      /\ work'[w].at = "revoke" /\ work'[w].token = k
  BY DEF Enters
<1>1. ASSUME NEW v \in Exchanging(r)' PROVE v = w
  <2>1. SUFFICES ASSUME v # w PROVE FALSE
    OBVIOUS
  <2>2. v \in Exchanging(r) /\ v \in Workers
    BY <1>1, <2>1 DEF Enters, Exchanging
  <2>3. At(v, "revoke") /\ work[v].token = k
    BY <1>0, <2>2 DEF Orderly
  <2>4. ~Finish(w)
    BY <1>0 DEF Finish, Idle, TypesInv, SessionsTypeOK
  <2>5. overlapped' = overlapped \union {tokens[k].root}
    BY <1>0, <2>1, <2>2, <2>3, <2>4 DEF FindToken
  <2>6. tokens[k].root = r
    BY <1>0 DEF Live, SameLogin
  <2> QED
    BY <2>5, <2>6
<1>2. \A l, m \in Live(r)' : l = m
  BY <1>0 DEF Orderly
<1>3. At(w, "revoke")' /\ work'[w].token \in Live(r)'
  BY <1>0 DEF At
<1> QED
  BY <1>1, <1>2, <1>3 DEF Orderly

LEMMA EndsOrderly ==
  ASSUME TypesInv, NEW r \in TokenIds, Orderly(r), NEW w \in Workers, Ends(w, r)
  PROVE  Orderly(r)'
<1>1. PICK k \in TokenIds : Live(r)' = Live(r) \union {k}
  BY DEF Ends
<1>2. CASE w \in Exchanging(r) /\ work[w].at = "issue"
  <2>1. Live(r) = {}
    BY <1>2 DEF Orderly, At
  <2>2. Exchanging(r)' = {}
    BY <1>2 DEF Orderly, Ends
  <2> QED
    BY <1>1, <2>1, <2>2 DEF Orderly
<1>3. CASE tokens[r] = None
  <2>1. \A l \in TokenIds : ~SameLogin(l, r)
    BY <1>3 DEF TypesInv, SessionsTypeOK, SameLogin
  <2>2. Live(r) = {}
    BY <2>1 DEF Live
  <2>3. Exchanging(r) = {}
    BY <2>1 DEF Exchanging, TypesInv, SessionsTypeOK, Jobs, Nullable
  <2>4. Exchanging(r)' = {}
    BY <2>3 DEF Ends
  <2> QED
    BY <1>1, <2>2, <2>4 DEF Orderly
<1> QED
  BY <1>2, <1>3 DEF Ends

LEMMA OverlappedGrows ==
  ASSUME TypesInv, Next PROVE overlapped \subseteq overlapped'
<1>1. ASSUME NEW w \in Workers, Signs(w) PROVE overlapped \subseteq overlapped'
  BY <1>1 DEF Signs, FindAccount, FindToken, Revoke, ReadMemberships, Resolve,
              Issue, IssueUnheard, Sideways, ghosts
<1> QED
  BY <1>1, ArriveOK, RegistersOK, Steps
     DEF ghosts, Sideways, SetRoles, Logout, Expire, Call, Crash

LoginsOrderly == \A r \in TokenIds \ overlapped : Orderly(r)

LEMMA OrderlyInit == Init => LoginsOrderly
BY IdleOK DEF Init, LoginsOrderly, Orderly, Exchanging, Live, SameLogin

LEMMA OrderlyStep == TypesInv /\ LoginsOrderly /\ [Next]_vars => LoginsOrderly'
<1>1. ASSUME TypesInv, LoginsOrderly, Next PROVE LoginsOrderly'
  <2>1. SUFFICES ASSUME NEW r \in TokenIds, r \notin overlapped' PROVE Orderly(r)'
    BY DEF LoginsOrderly
  <2>2. Orderly(r)
    BY <1>1, <2>1, OverlappedGrows DEF LoginsOrderly
  <2> QED
    BY <1>1, <2>1, <2>2, LoginSteps, NarrowsOrderly, ProceedsOrderly,
       EntersOrderly, EndsOrderly
<1>2. ASSUME LoginsOrderly, UNCHANGED vars PROVE LoginsOrderly'
  BY <1>2 DEF LoginsOrderly, Orderly, Exchanging, Live, SameLogin, At, vars, ghosts
<1> QED
  BY <1>1, <1>2

(* Unless two exchanges read one token before either revokes it, a login   *)
(* has one token that works, and none while an exchange has still to issue *)
(* the next, with any number of refreshes at a time and whatever fails     *)
(* (auth.service.ts, refresh).                                             *)
THEOREM OneTokenAtATime == Spec => []OneLivePerLogin
<1>1. LoginsOrderly => OneLivePerLogin
  BY DEF LoginsOrderly, Orderly, OneLivePerLogin
<1> QED
  BY <1>1, TypesAlways, OrderlyInit, OrderlyStep, PTL DEF Spec

-----------------------------------------------------------------------------
(* A logout ends the login.                                                *)

\* The logins closed did exist, and stay closed.
ClosedOK ==
  \A r \in closed : /\ tokens[r] # None
                    /\ r \notin overlapped => Live(r) = {} /\ Exchanging(r) = {}

LEMMA ClosedInit == Init => ClosedOK
BY DEF Init, ClosedOK

LEMMA ClosedStays ==
  ASSUME TypesInv, ClosedOK, Next, NEW r \in closed
  PROVE  /\ tokens'[r] # None
         /\ r \notin overlapped' => Live(r)' = {} /\ Exchanging(r)' = {}
<1>1. r \in TokenIds /\ tokens[r] # None
  BY DEF ClosedOK, TypesInv, SessionsTypeOK
<1>2. tokens'[r] # None
  BY <1>1, TokensStep DEF TokensGrow
<1>3. ASSUME r \notin overlapped' PROVE Live(r)' = {} /\ Exchanging(r)' = {}
  <2>1. Live(r) = {} /\ Exchanging(r) = {}
    BY <1>3, OverlappedGrows DEF ClosedOK
  <2>2. Narrows(r)
    BY <1>1, <2>1, LoginSteps DEF Proceeds, Enters, Ends
  <2> QED
    BY <2>1, <2>2 DEF Narrows
<1> QED
  BY <1>2, <1>3

LEMMA ClosedStep == TypesInv /\ ClosedOK /\ [Next]_vars => ClosedOK'
<1>1. ASSUME TypesInv, ClosedOK, Next PROVE ClosedOK'
  <2>1. CASE Logout
    <3>1. PICK k \in TokenIds :
            /\ tokens[k] # None
            /\ tokens' = [tokens EXCEPT ![k].revoked = TRUE]
            /\ closed' = IF /\ Live(tokens[k].root) = {k}
                            /\ Exchanging(tokens[k].root) = {}
                         THEN closed \union {tokens[k].root} ELSE closed
      BY <2>1 DEF Logout
    <3>2. PICK r \in TokenIds : r = tokens[k].root /\ tokens[r] # None
      BY <1>1, <3>1, TokenFields, TypesParts DEF TokensOK
    <3>3. Live(r)' = Live(r) \ {k} /\ tokens'[r] # None
      BY <1>1, <3>1, <3>2, RevokedIs, TokensStep DEF TokensGrow
    <3>4. Exchanging(r) = {} => Exchanging(r)' = {}
      <4>1. UNCHANGED work
        BY <2>1 DEF Logout
      <4> QED
        BY <1>1, <4>1, ExchangingKept DEF Exchanging
    <3>5. ASSUME NEW x \in closed'
          PROVE  /\ tokens'[x] # None
                 /\ x \notin overlapped' => Live(x)' = {} /\ Exchanging(x)' = {}
      <4>1. CASE x \in closed
        BY <1>1, <4>1, ClosedStays
      <4>2. CASE x \notin closed
        <5>1. x = r /\ Live(r) = {k} /\ Exchanging(r) = {}
          BY <3>1, <3>2, <3>5, <4>2
        <5> QED
          BY <3>3, <3>4, <5>1
      <4> QED
        BY <4>1, <4>2
    <3> QED
      BY <3>5 DEF ClosedOK
  <2>2. CASE ~Logout
    <3>1. closed' = closed
      BY <1>1, <2>2, ArriveOK, RegistersOK, SignsOK, Steps
         DEF ghosts, Sideways, SetRoles, Expire, Call, Crash
    <3> QED
      BY <1>1, <3>1, ClosedStays DEF ClosedOK
  <2> QED
    BY <2>1, <2>2
<1>2. ASSUME ClosedOK, UNCHANGED vars PROVE ClosedOK'
  BY <1>2 DEF ClosedOK, Exchanging, Live, SameLogin, At, vars, ghosts
<1> QED
  BY <1>1, <1>2

(* A logout with the last token of a login, while no exchange is under     *)
(* way, ends the login: no refresh brings it back, in any order of queries *)
(* and failures (auth.service.ts, logout).                                 *)
THEOREM LogoutEndsTheLogin == Spec => []LoggedOutStaysOut
<1>1. ClosedOK => LoggedOutStaysOut
  BY DEF ClosedOK, LoggedOutStaysOut
<1> QED
  BY <1>1, TypesAlways, ClosedInit, ClosedStep, PTL DEF Spec

-----------------------------------------------------------------------------
(* Users and memberships.                                                  *)

\* No membership is lost, and no owner stops being one.
MembersStay ==
  \A m \in members : \E n \in members' :
    n.user = m.user /\ n.tenant = m.tenant /\ (m.owner => n.owner)

LEMMA WithRolesStays ==
  ASSUME NEW u, NEW t, NEW rs, members' = WithRoles(u, t, rs)
  PROVE  MembersStay /\ \E n \in members' : n.user = u
<1> DEFINE owner == \E m \in MemberOf(u, t) : m.owner
           n == [user |-> u, tenant |-> t, roles |-> rs, owner |-> owner]
<1>1. members' = (members \ MemberOf(u, t)) \union {n}
  BY DEF WithRoles
<1>2. n.user = u /\ n.tenant = t /\ (n.owner <=> owner)
  OBVIOUS
<1> HIDE DEF n
<1>3. ASSUME NEW m \in members
      PROVE  \E l \in members' :
               l.user = m.user /\ l.tenant = m.tenant /\ (m.owner => l.owner)
  <2>1. CASE m \in MemberOf(u, t)
    <3>1. m.user = u /\ m.tenant = t /\ (m.owner => n.owner)
      BY <1>2, <2>1 DEF MemberOf
    <3> QED
      BY <1>1, <1>2, <3>1
  <2>2. CASE m \notin MemberOf(u, t)
    BY <1>1, <2>2
  <2> QED
    BY <2>1, <2>2
<1> QED
  BY <1>1, <1>2, <1>3 DEF MembersStay

LEMMA AccountsGrow ==
  ASSUME TypesInv, Next PROVE MembersStay /\ roles \subseteq roles'
<1>1. ASSUME UNCHANGED <<members, roles>>
      PROVE  MembersStay /\ roles \subseteq roles'
  BY <1>1 DEF MembersStay
<1>2. ASSUME NEW w \in Workers, Registers(w)
      PROVE  MembersStay /\ roles \subseteq roles'
  <2>1. CASE CreateOwner(w)
    <3>1. members \subseteq members' /\ roles' = roles
      BY <2>1 DEF CreateOwner
    <3> QED
      BY <3>1 DEF MembersStay
  <2>2. CASE UpsertMember(w)
    BY <2>2, WithRolesStays DEF UpsertMember
  <2>3. CASE UpsertRole(w)
    BY <2>3 DEF UpsertRole, MembersStay
  <2>4. CASE \/ FindUser(w) \/ FindTenant(w) \/ CreateTenant(w) \/ CreateUser(w)
             \/ InsertTenant(w) \/ UpsertUser(w)
    BY <1>1, <2>4 DEF FindUser, FindTenant, CreateTenant, CreateUser,
                      InsertTenant, UpsertUser, accounts
  <2> QED
    BY <1>2, <2>1, <2>2, <2>3, <2>4 DEF Registers
<1>3. CASE SetRoles
  <2>1. PICK m \in members, rs \in RoleSets :
          members' = WithRoles(m.user, m.tenant, rs)
    BY <1>3 DEF SetRoles
  <2> QED
    BY <1>3, <2>1, WithRolesStays DEF SetRoles
<1> QED
  BY <1>1, <1>2, <1>3, ArriveOK, SignsOK, Steps
     DEF accounts, Logout, Expire, Call, Crash

\* The awaits of a request that is about to write a membership.
Enrolling(u, j) == j.user = u /\ j.at \in {"createOwner", "upsertMember"}

CanLogIn(u) == \/ \E m \in members : m.user = u
               \/ \E w \in Workers : Enrolling(u, work[w])

LEMMA CanLogInMeans ==
  UsersCanLogIn <=> (faults = 0 => \A u \in users : CanLogIn(u))
BY DEF UsersCanLogIn, CanLogIn, Enrolling

\* Only a fault, or the insert itself, takes a request from that await.
LEMMA EnrollingStays ==
  ASSUME TypesInv, Next, faults' = 0, NEW u, NEW v \in Workers,
         Enrolling(u, work[v])
  PROVE  CanLogIn(u)'
<1>0. faults \in Nat /\ work \in [Workers -> Jobs]
  BY DEF TypesInv, SessionsTypeOK
<1>1. ~Fault
  BY <1>0 DEF Fault
<1>2. CASE work'[v] = work[v]
  BY <1>2 DEF CanLogIn
<1>3. ASSUME NEW w \in Workers, Arrive(w) PROVE CanLogIn(u)'
  <2>1. v # w
    BY <1>3, ArriveOK DEF Enrolling, Idle
  <2> QED
    BY <1>2, <1>3, <2>1, ArriveOK, BecomesOnlyAt DEF OnlyAt
<1>4. ASSUME NEW w \in Workers, Signs(w) PROVE CanLogIn(u)'
  <2>1. v # w
    BY <1>4 DEF Enrolling, Signs, FindAccount, FindToken, Revoke,
                ReadMemberships, Resolve, Issue, IssueUnheard, At
  <2> QED
    BY <1>2, <1>4, <2>1, SignsOK, BecomesOnlyAt DEF OnlyAt
<1>5. ASSUME NEW w \in Workers, Registers(w) PROVE CanLogIn(u)'
  <2>1. CASE v # w
    BY <1>2, <1>5, <2>1, RegistersOK, BecomesOnlyAt DEF OnlyAt
  <2>2. CASE v = w
    <3>1. CreateOwner(v) \/ UpsertMember(v)
      BY <1>5, <2>2
         DEF Enrolling, Registers, FindUser, FindTenant, CreateTenant,
             CreateUser, CreateOwner, InsertTenant, UpsertRole, UpsertUser,
             UpsertMember, At
    <3>2. CASE UpsertMember(v)
      <4>1. \E n \in members' : n.user = work[v].user
        BY <3>2, WithRolesStays DEF UpsertMember
      <4> QED
        BY <4>1 DEF Enrolling, CanLogIn
    <3>3. CASE CreateOwner(v)
      <4> DEFINE t == work[v].tenant
                 m == [user |-> u, tenant |-> t, owner |-> TRUE, roles |-> {}]
      <4>1. members' = IF MemberOf(u, t) # {} THEN members ELSE members \union {m}
        BY <3>3 DEF CreateOwner, Enrolling
      <4>2. m.user = u
        OBVIOUS
      <4> HIDE DEF m
      <4>3. \E n \in members' : n.user = u
        BY <4>1, <4>2 DEF MemberOf
      <4> QED
        BY <4>3 DEF CanLogIn
    <3> QED
      BY <3>1, <3>2, <3>3
  <2> QED
    BY <2>1, <2>2
<1>6. CASE UNCHANGED work
  BY <1>2, <1>6
<1> QED
  BY <1>1, <1>3, <1>4, <1>5, <1>6, Steps
     DEF SetRoles, Logout, Expire, Call, Crash

\* A user that is new is inserted by a request that goes on to the membership.
LEMMA NewUsersEnrol ==
  ASSUME TypesInv, Next, NEW u \in users', u \notin users PROVE CanLogIn(u)'
<1>0. work \in [Workers -> Jobs]
  BY DEF TypesInv, SessionsTypeOK
<1>1. PICK w \in Workers : CreateUser(w) \/ UpsertUser(w)
  <2>1. ASSUME UNCHANGED users PROVE FALSE
    BY <2>1
  <2>2. \E w \in Workers : Registers(w)
    BY <2>1, ArriveOK, SignsOK, Steps
       DEF accounts, SetRoles, Logout, Expire, Call, Crash
  <2> QED
    BY <2>1, <2>2
       DEF Registers, FindUser, FindTenant, CreateTenant, CreateOwner,
           InsertTenant, UpsertRole, UpsertMember, accounts
<1>2. u = work[w].user
  BY <1>1 DEF CreateUser, UpsertUser
<1>3. Goto(w, "createOwner") \/ Goto(w, "upsertMember")
  BY <1>1, <1>2 DEF CreateUser, UpsertUser
<1>4. work'[w].user = u /\ work'[w].at \in {"createOwner", "upsertMember"}
  BY <1>0, <1>2, <1>3 DEF Goto, Jobs
<1> QED
  BY <1>4 DEF CanLogIn, Enrolling

LEMMA CanLogInStep == TypesInv /\ UsersCanLogIn /\ [Next]_vars => UsersCanLogIn'
<1>1. ASSUME TypesInv, UsersCanLogIn, Next PROVE UsersCanLogIn'
  <2>1. SUFFICES ASSUME faults' = 0, NEW u \in users' PROVE CanLogIn(u)'
    <3>1. UsersCanLogIn' <=> (faults = 0 => \A u \in users : CanLogIn(u))'
      BY CanLogInMeans, PTL
    <3> QED
      BY <3>1
  <2>2. CASE u \notin users
    BY <1>1, <2>2, NewUsersEnrol
  <2>3. CASE u \in users
    <3>1. faults = 0
      <4>1. faults \in Nat /\ (faults' = faults \/ faults' = faults + 1)
        BY <1>1, ArriveOK, RegistersOK, SignsOK, Steps
           DEF TypesInv, SessionsTypeOK, Sideways, SetRoles, Logout, Expire,
               Call, Crash, Fault, Signs, FindAccount, FindToken, Revoke,
               ReadMemberships, Resolve, Issue, IssueUnheard
      <4> QED
        BY <2>1, <4>1
    <3>2. CanLogIn(u)
      BY <1>1, <2>3, <3>1, CanLogInMeans
    <3>3. CASE \E m \in members : m.user = u
      BY <1>1, <3>3, AccountsGrow DEF MembersStay, CanLogIn
    <3>4. CASE \E w \in Workers : Enrolling(u, work[w])
      BY <1>1, <2>1, <3>4, EnrollingStays
    <3> QED
      BY <3>2, <3>3, <3>4 DEF CanLogIn
  <2> QED
    BY <2>2, <2>3
<1>2. ASSUME UsersCanLogIn, UNCHANGED vars PROVE UsersCanLogIn'
  BY <1>2 DEF UsersCanLogIn, vars, accounts
<1> QED
  BY <1>1, <1>2

(* As long as no query fails, a user in the table has a membership or a    *)
(* request under way that writes it, with any number of registrations and  *)
(* invitations of the same email (auth.service.ts, register; users, invite). *)
THEOREM UsersKeepAWayIn == Spec => []UsersCanLogIn
<1>1. Init => UsersCanLogIn
  BY DEF Init, UsersCanLogIn
<1> QED
  BY <1>1, TypesAlways, CanLogInStep, PTL DEF Spec

-----------------------------------------------------------------------------
(* Permissions.                                                            *)

\* The permissions ps come from the membership of u in t.
Granted(u, t, ps) ==
  \E m \in MemberOf(u, t) :
    \/ m.owner
    \/ \A p \in ps : \E r \in roles : r[1] = m.tenant /\ p \in SystemRoles[r[2]]

\* The token k is of no tenant, and another token was exchanged for it.
OfNoTenant(k, tenant, ps, root) == tenant = None /\ ps = {} /\ root # k

\* A request past the memberships acts for one its user has, or had with
\* other roles, and issues what that grants; or it is a refresh that found
\* none, and issues nothing.
Entitled(j) ==
  /\ j.at = "resolve" => j.member # None
  /\ j.at \in {"resolve", "issue"} /\ j.member # None =>
       /\ j.member.user = j.user
       /\ MemberOf(j.user, j.member.tenant) # {}
  /\ j.at = "issue" => IF j.member = None
                       THEN j.perms = {} /\ j.token # None
                       ELSE Granted(j.user, j.member.tenant, j.perms)

GrantsOK ==
  /\ PermissionsAreOfTheTenant
  /\ \A w \in Workers : Entitled(work[w])

LEMMA TokensGranted ==
  PermissionsAreOfTheTenant <=>
    \A k \in TokenIds : tokens[k] # None =>
      \/ OfNoTenant(k, tokens[k].tenant, tokens[k].perms, tokens[k].root)
      \/ Granted(tokens[k].user, tokens[k].tenant, tokens[k].perms)
BY DEF PermissionsAreOfTheTenant, Granted, OfNoTenant

LEMMA GrantedStays ==
  ASSUME TypesInv, Next, NEW u, NEW t
  PROVE  /\ MemberOf(u, t) # {} => MemberOf(u, t)' # {}
         /\ \A ps : Granted(u, t, ps) => Granted(u, t, ps)'
<1>1. \A m \in MemberOf(u, t) : \E n \in MemberOf(u, t)' :
        m.owner => n.owner
  BY AccountsGrow DEF MembersStay, MemberOf
<1>2. ASSUME NEW ps, Granted(u, t, ps) PROVE Granted(u, t, ps)'
  <2>1. PICK m \in MemberOf(u, t) :
          \/ m.owner
          \/ \A p \in ps : \E r \in roles :
               r[1] = m.tenant /\ p \in SystemRoles[r[2]]
    BY <1>2 DEF Granted
  <2>2. PICK n \in MemberOf(u, t)' : m.owner => n.owner
    BY <1>1
  <2>3. m.tenant = n.tenant
    BY DEF MemberOf
  <2>4. roles \subseteq roles'
    BY AccountsGrow
  <2>5. \/ n.owner
        \/ \A p \in ps : \E r \in roles' :
             r[1] = n.tenant /\ p \in SystemRoles[r[2]]
    BY <2>1, <2>2, <2>3, <2>4
  <2> QED
    BY <2>5 DEF Granted
<1> QED
  BY <1>1, <1>2

LEMMA EntitledStays ==
  ASSUME TypesInv, Next, NEW j, Entitled(j) PROVE Entitled(j)'
BY GrantedStays DEF Entitled

\* Outside of these two awaits there is nothing to show.
LEMMA EntitledElsewhere ==
  ASSUME NEW j, j.at \notin {"resolve", "issue"} PROVE Entitled(j)
BY DEF Entitled

LEMMA MembershipsEntitled ==
  ASSUME TypesInv, GrantsOK, NEW w \in Workers, ReadMemberships(w)
  PROVE  Entitled(work'[w])
<1>0. work \in [Workers -> Jobs] /\ Presented(work[w])
  BY DEF TypesInv, SessionsTypeOK, RequestsOK
<1>1. ASSUME NEW m \in members, NEW j, Becomes(w, j),
             m.user = work[w].user, j.member = m, j.user = work[w].user,
             j.at = IF m.owner \/ m.roles = {} THEN "issue" ELSE "resolve",
             j.perms = IF m.owner THEN {Superuser} ELSE {}
      PROVE  Entitled(work'[w])
  <2>1. work'[w] = j
    BY <1>0, <1>1 DEF Becomes
  <2>2. m \in members /\ m.user = j.user /\ m \in Members
    BY <1>1 DEF TypesInv, SessionsTypeOK
  <2>3. m # None /\ m \in MemberOf(j.user, m.tenant)
    BY <2>2, NoneTypes DEF MemberOf
  <2>4. Granted(j.user, m.tenant, j.perms) \/ (~m.owner /\ j.perms # {})
    BY <2>3 DEF Granted
  <2>5. Granted(j.user, m.tenant, j.perms)
    BY <1>1, <2>4
  <2> QED
    BY <1>1, <2>1, <2>2, <2>3, <2>5 DEF Entitled
<1>2. CASE Finish(w)
  <2>1. work'[w] = Idle
    BY <1>0, <1>2 DEF Finish
  <2> QED
    BY <2>1, EntitledElsewhere DEF Idle
<1>3. ASSUME NEW j, Becomes(w, j), j.token # None,
             j.at = "issue", j.member = None, j.perms = {}
      PROVE  Entitled(work'[w])
  <2>1. work'[w] = j
    BY <1>0, <1>3 DEF Becomes
  <2> QED
    BY <1>3, <2>1 DEF Entitled
<1> QED
  BY <1>1, <1>2, <1>3, MembershipsOK

LEMMA ResolveEntitled ==
  ASSUME TypesInv, GrantsOK, NEW w \in Workers, Resolve(w)
  PROVE  Entitled(work'[w])
<1>0. work \in [Workers -> Jobs] /\ work[w].at = "resolve"
  BY DEF TypesInv, SessionsTypeOK, Resolve, At
<1>1. PICK j : /\ Becomes(w, j) /\ j.at = "issue"
               /\ j.perms = Resolved(work[w].member)
               /\ j.member = work[w].member /\ j.user = work[w].user
  BY ResolveOK
<1>2. work'[w] = j
  BY <1>0, <1>1 DEF Becomes
<1>3. /\ j.member # None /\ j.member.user = j.user
      /\ MemberOf(j.user, j.member.tenant) # {}
  BY <1>0, <1>1 DEF GrantsOK, Entitled
<1>4. \A p \in j.perms : \E r \in roles :
        r[1] = j.member.tenant /\ p \in SystemRoles[r[2]]
  BY <1>1 DEF Resolved
<1>5. Granted(j.user, j.member.tenant, j.perms)
  BY <1>3, <1>4 DEF Granted, MemberOf
<1> QED
  BY <1>2, <1>3, <1>5 DEF Entitled

\* Every request is entitled after a step, as accounts were before it.
LEMMA RequestsEntitled ==
  ASSUME TypesInv, GrantsOK, Next, NEW v \in Workers
  PROVE  \/ Entitled(work'[v])
         \/ work'[v] = work[v]
<1>0. work \in [Workers -> Jobs]
  BY DEF TypesInv, SessionsTypeOK
<1>1. ASSUME NEW w \in Workers, OnlyAt(w), work'[w].at \notin {"resolve", "issue"}
      PROVE  Entitled(work'[v]) \/ work'[v] = work[v]
  BY <1>1, EntitledElsewhere DEF OnlyAt
<1>2. ASSUME NEW w \in Workers, Arrive(w) \/ Registers(w)
      PROVE  Entitled(work'[v]) \/ work'[v] = work[v]
  <2>1. OnlyAt(w)
    BY <1>2, ArriveOK, RegistersOK, BecomesOnlyAt
  <2>2. work'[w].at \notin {"resolve", "issue"}
    BY <1>2, ArriveOK, RegistersOK DEF ExchangeAwaits
  <2> QED
    BY <1>1, <2>1, <2>2
<1>3. ASSUME NEW w \in Workers, Finish(w)
      PROVE  Entitled(work'[v]) \/ work'[v] = work[v]
  <2>1. work'[w].at = "idle"
    BY <1>0, <1>3 DEF Finish, Idle
  <2> QED
    BY <1>1, <1>3, <2>1, BecomesOnlyAt
<1>4. ASSUME NEW w \in Workers, Signs(w)
      PROVE  Entitled(work'[v]) \/ work'[v] = work[v]
  <2>1. CASE FindAccount(w) \/ FindToken(w) \/ Revoke(w) \/ Issue(w) \/ IssueUnheard(w)
    <3>1. Finish(w) \/ Goto(w, "memberships") \/ Goto(w, "revoke")
      BY <2>1 DEF FindAccount, FindToken, Revoke, Issue, IssueUnheard
    <3>2. Finish(w) \/ work'[w].at \in {"memberships", "revoke"}
      BY <1>0, <3>1 DEF Goto, Jobs
    <3> QED
      BY <1>1, <1>3, <1>4, <3>2, SignsOK, BecomesOnlyAt
  <2>2. CASE ReadMemberships(w) \/ Resolve(w)
    <3>1. Entitled(work'[w])
      BY <2>2, MembershipsEntitled, ResolveEntitled
    <3>2. OnlyAt(w)
      BY <1>4, SignsOK, BecomesOnlyAt
    <3> QED
      BY <3>1, <3>2 DEF OnlyAt
  <2> QED
    BY <1>4, <2>1, <2>2 DEF Signs
<1>5. CASE Crash
  BY <1>5, EntitledElsewhere DEF Crash, Idle
<1> QED
  BY <1>2, <1>3, <1>4, <1>5, Steps DEF SetRoles, Logout, Expire, Call

\* A token is granted when it is issued.
LEMMA IssuesGranted ==
  ASSUME TypesInv, GrantsOK, Next, NEW w \in Workers,
         Issue(w) \/ IssueUnheard(w)
  PROVE  PermissionsAreOfTheTenant'
<1>1. /\ FreshToken \in Fresh /\ work[w].at = "issue"
      /\ \E heard \in BOOLEAN : Insert(w, FreshToken, heard)
  BY IssuesOK
<1>2. PICK heard \in BOOLEAN : Insert(w, FreshToken, heard)
  BY <1>1
<1>3. PICK k \in TokenIds : k = FreshToken
  BY <1>1 DEF Fresh
<1>4. /\ \A l \in TokenIds : l # k => tokens'[l] = tokens[l]
      /\ tokens'[k] = Issued(w, k, heard)
  BY <1>1, <1>2, <1>3, InsertOK
<1>5. Entitled(work[w])
  BY DEF GrantsOK
<1>6. \/ OfNoTenant(k, tokens'[k].tenant, tokens'[k].perms, tokens'[k].root)
      \/ Granted(tokens'[k].user, tokens'[k].tenant, tokens'[k].perms)
  <2>1. CASE work[w].member = None
    <3>1. work[w].token # None /\ work[w].perms = {}
      BY <1>1, <1>5, <2>1 DEF Entitled
    <3>2. work[w].token \in TokenIds /\ tokens[work[w].token] # None
      BY <3>1 DEF TypesInv, SessionsTypeOK, Jobs, Nullable
    <3>3. tokens[tokens[work[w].token].root] # None
      BY <3>2 DEF TypesInv, SessionsTypeOK
    <3>4. tokens[work[w].token].root # k
      BY <1>1, <1>3, <3>3 DEF Fresh
    <3> QED
      BY <1>4, <2>1, <3>1, <3>4 DEF Issued, OfNoTenant
  <2>2. CASE work[w].member # None
    BY <1>1, <1>4, <1>5, <2>2 DEF Issued, Entitled
  <2> QED
    BY <2>1, <2>2
<1>7. UNCHANGED <<members, roles>>
  BY DEF Issue, IssueUnheard, accounts
<1>8. ASSUME NEW l \in TokenIds, tokens'[l] # None
      PROVE  \/ OfNoTenant(l, tokens'[l].tenant, tokens'[l].perms, tokens'[l].root)
             \/ Granted(tokens'[l].user, tokens'[l].tenant, tokens'[l].perms)
  <2>1. CASE l = k
    BY <1>6, <2>1
  <2>2. CASE l # k
    BY <1>4, <1>8, <2>2, TokensGranted DEF GrantsOK
  <2> QED
    BY <2>1, <2>2
<1> QED
  BY <1>7, <1>8 DEF PermissionsAreOfTheTenant, Granted, MemberOf, OfNoTenant

\* No other step stores a token.
LEMMA NoNewToken ==
  ASSUME TypesInv, Next, ~\E w \in Workers : Issue(w) \/ IssueUnheard(w),
         NEW k \in TokenIds, tokens'[k] # None
  PROVE  tokens[k] # None
<1>0. tokens \in [TokenIds -> Nullable(Tokens)]
  BY DEF TypesInv, SessionsTypeOK
<1>1. ASSUME NEW l \in TokenIds, tokens[l] # None,
             \/ tokens' = [tokens EXCEPT ![l].revoked = TRUE]
             \/ tokens' = [tokens EXCEPT ![l].expired = TRUE]
      PROVE  tokens[k] # None
  BY <1>0, <1>1
<1>2. ASSUME NEW w \in Workers, Signs(w) PROVE tokens[k] # None
  <2>1. CASE Revoke(w)
    <3>1. Equipped(work[w]) /\ Presented(work[w]) /\ work[w].at = "revoke"
      BY <2>1 DEF TypesInv, RequestsOK, Revoke, At
    <3>2. work[w].token \in TokenIds /\ tokens[work[w].token] # None
      BY <3>1 DEF Presented, Equipped, Jobs, Nullable
    <3> QED
      BY <1>1, <2>1, <3>2 DEF Revoke
  <2>2. CASE FindAccount(w) \/ FindToken(w) \/ ReadMemberships(w) \/ Resolve(w)
    BY <2>2 DEF FindAccount, FindToken, ReadMemberships, Resolve, Sideways
  <2> QED
    BY <1>2, <2>1, <2>2 DEF Signs
<1>3. CASE Logout
  BY <1>1, <1>3 DEF Logout
<1>4. CASE Expire
  BY <1>1, <1>4 DEF Expire
<1> QED
  BY <1>2, <1>3, <1>4, ArriveOK, RegistersOK, Steps
     DEF Sideways, SetRoles, Call, Crash

LEMMA GrantsStep == TypesInv /\ GrantsOK /\ [Next]_vars => GrantsOK'
<1>1. ASSUME TypesInv, GrantsOK, Next PROVE GrantsOK'
  <2>1. ASSUME NEW v \in Workers PROVE Entitled(work[v])'
    BY <1>1, <2>1, RequestsEntitled, EntitledStays DEF GrantsOK
  <2>2. PermissionsAreOfTheTenant'
    <3>1. CASE \E w \in Workers : Issue(w) \/ IssueUnheard(w)
      BY <1>1, <3>1, IssuesGranted
    <3>2. CASE ~\E w \in Workers : Issue(w) \/ IssueUnheard(w)
      <4>1. ASSUME NEW k \in TokenIds, tokens'[k] # None
            PROVE  \/ OfNoTenant(k, tokens'[k].tenant, tokens'[k].perms,
                                 tokens'[k].root)
                   \/ Granted(tokens[k].user, tokens[k].tenant, tokens[k].perms)'
        <5>1. tokens[k] # None
          BY <1>1, <3>2, <4>1, NoNewToken
        <5>2. PICK u, t, ps, r :
                /\ u = tokens[k].user /\ t = tokens[k].tenant
                /\ ps = tokens[k].perms /\ r = tokens[k].root
          OBVIOUS
        <5>3. OfNoTenant(k, t, ps, r) \/ Granted(u, t, ps)
          BY <1>1, <5>1, <5>2, TokensGranted DEF GrantsOK
        <5>4. Granted(u, t, ps) => Granted(u, t, ps)'
          BY <1>1, GrantedStays
        <5>5. /\ tokens'[k].user = u /\ tokens'[k].tenant = t
              /\ tokens'[k].perms = ps /\ tokens'[k].root = r
          BY <1>1, <5>1, <5>2, TokensStep DEF TokensGrow
        <5> QED
          BY <5>3, <5>4, <5>5 DEF Granted, OfNoTenant
      <4> QED
        BY <4>1 DEF PermissionsAreOfTheTenant, Granted, OfNoTenant
    <3> QED
      BY <3>1, <3>2
  <2> QED
    BY <2>1, <2>2 DEF GrantsOK
<1>2. ASSUME GrantsOK, UNCHANGED vars PROVE GrantsOK'
  BY <1>2 DEF GrantsOK, PermissionsAreOfTheTenant, Entitled, Granted, MemberOf,
              vars, accounts
<1> QED
  BY <1>1, <1>2

(* A token is of a tenant its user is a member of, and carries the wildcard *)
(* of an owner or what role rows of that tenant grant, or it is of none,    *)
(* grants nothing and comes from a refresh, however contexts, memberships,  *)
(* roles and sessions change between the queries that issue it              *)
(* (auth.service.ts, issueTokens; rbac.service.ts, resolvePermissions).     *)
THEOREM TokensCarryTheirTenant == Spec => []PermissionsAreOfTheTenant
<1>1. Init => GrantsOK
  BY EntitledElsewhere DEF Init, GrantsOK, PermissionsAreOfTheTenant, Idle
<1>2. GrantsOK => PermissionsAreOfTheTenant
  BY DEF GrantsOK
<1> QED
  BY <1>1, <1>2, TypesAlways, GrantsStep, PTL DEF Spec

=============================================================================
