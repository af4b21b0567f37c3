-------------------------------- MODULE Api --------------------------------
(***************************************************************************)
(* The HTTP surface: permission tokens and the check of rbac.service.ts,   *)
(* the roles every tenant is given, the guards in the order NestJS runs    *)
(* them, and what each controller offers: which Prisma model a route       *)
(* reads or writes, how, and the permission it asks for.                   *)
(*                                                                         *)
(* A permission token is the sequence of its parts: "partners.read" is     *)
(* <<"partners", "read">>, the wildcards are <<"*">>, <<"pos", "*">> and   *)
(* <<"*", "read">>.                                                        *)
(***************************************************************************)
EXTENDS Sequences

CONSTANTS
  None,     \* nobody, nothing: the null of the database and of JavaScript
  Nowhere   \* the context of a request whose X-Tenant-Id is unknown, or whose
            \* subdomain, a slug, is taken for an id

Superuser == <<"*">>

Whole(modules) == {<<m, "*">> : m \in modules}

\* SYSTEM_ROLES: the permissions of each role; the owner of a tenant holds
\* the wildcard without a role.
SystemRoles ==
  LET finance == {"accounting", "invoicing", "payments", "taxes", "reports",
                  "expenses"}
      trade == {"sales", "crm", "quotations", "contracts", "partners"}
      goods == {"inventory", "warehouses", "procurement"}
      people == {"hr", "payroll", "expenses", "assets"}
      readPartners == <<"partners", "read">>
  IN [Owner      |-> {Superuser},
      Admin      |-> Whole(finance \union trade \union goods \union people
                       \union {"pos", "manufacturing", "projects",
                               "notifications"})
                       \union {<<"users", "read">>, <<"users", "invite">>},
      Accountant |-> Whole(finance) \union {readPartners},
      Sales      |-> Whole(trade) \union {<<"invoicing", "read">>,
                                          <<"invoicing", "create">>},
      Warehouse  |-> Whole(goods) \union {readPartners},
      Cashier    |-> Whole({"pos"}) \union {<<"inventory", "read">>,
                                            readPartners},
      HR         |-> Whole(people),
      Viewer     |-> {<<"*", "read">>}]

Grants == UNION {SystemRoles[r] : r \in DOMAIN SystemRoles}

\* RbacService.check(held, required).
Check(held, required) ==
  \/ Superuser \in held
  \/ required \in held
  \/ <<required[1], "*">> \in held
  \/ <<"*", "read">> \in held /\ required[Len(required)] = "read"

-----------------------------------------------------------------------------
(* The guards of a request.  A route is public, or wants a signed-in user, *)
(* and may need permissions; a user is the payload of an access token.     *)

\* PermissionsGuard.canActivate on the user found in the request so far.
PermissionsGuard(route, user) ==
  \/ route.needs = {}
  \/ user # None /\ \A required \in route.needs : Check(user.perms, required)

\* JwtAuthGuard: public routes pass, others want a valid access token, whose
\* payload becomes the user of the request.
JwtAuthGuard(route, payload) == route.public \/ payload # None

\* The permission guard is global (APP_GUARD) and NestJS runs global guards
\* before those of a controller: when it looks, no guard has put the user
\* into the request yet.
Answer(route, payload) ==
  CASE ~PermissionsGuard(route, None) -> "forbidden"
    [] PermissionsGuard(route, None) /\ ~JwtAuthGuard(route, payload) ->
         "unauthorized"
    [] OTHER -> "handled"

-----------------------------------------------------------------------------
(* The controllers.  "update" writes any columns the body names, "status"  *)
(* one column of the row, "delete" removes it; "number" creates a document *)
(* numbered by a count, "install" upserts by a key.                        *)

Routes(module, model, verbs) ==
  {[module |-> module, model |-> model, verb |-> v] : v \in verbs}

Crud == {"read", "create", "update", "delete"}

Companies     == Routes("companies", "Company", Crud)
Partners      == Routes("partners", "Partner", Crud)
Suppliers     == Routes("partners", "Partner", {"read", "create"})
Goods         == Routes("inventory", "Product", Crud)
Taxes         == Routes("taxes", "Tax", Crud)
Depots        == Routes("warehouses", "Warehouse", Crud)
Leads         == Routes("crm", "Lead", Crud)
Opportunities == Routes("crm", "Opportunity", Crud)
Employees     == Routes("hr", "Employee", Crud)
Leaves        == Routes("hr", "Leave", {"read", "create", "status"})
Projects      == Routes("projects", "Project", Crud)
Tasks         == Routes("projects", "Task", Crud)
Expenses      == Routes("expenses", "Expense",
                        {"read", "create", "status", "delete"})
Assets        == Routes("assets", "Asset", Crud)
Chart         == Routes("accounting", "Account", Crud)
Notices       == Routes("notifications", "Notification",
                        {"read", "create", "status"})
Rules         == Routes("workflows", "Workflow", Crud)
Plugins       == Routes("plugins", "Plugin",
                        {"read", "install", "status", "delete"})
Boms          == Routes("manufacturing", "Bom", {"read", "create", "delete"})
Production    == Routes("manufacturing", "ManufacturingOrder",
                        {"read", "number", "status"})
Contracts     == Routes("contracts", "Contract",
                        {"read", "number", "update", "delete"})
Bills         == Routes("procurement", "Bill", {"read", "number"})
Orders        == Routes("procurement", "PurchaseOrder", {"read", "number"})
Quotations    == Routes("quotations", "Quotation", {"read", "number"})
Payroll       == Routes("payroll", "Payslip", {"read", "generate", "status"})
Moves         == Routes("inventory", "StockMove", {"read", "create"})
Journals      == Routes("accounting", "JournalLine", {"read", "create"})
Invoices      == Routes("invoicing", "Invoice", {"read", "create", "status"})
Payments      == Routes("payments", "Payment", {"read", "create"})
Till          == Routes("pos", "PosOrder", {"read", "create", "status"})
Statements    == Routes("reports", "JournalLine", {"read"})
Overview      == Routes("sales", "Invoice", {"read"})
Landlord      == Routes("tenants", "Tenant", {"read", "create", "update"})
Staff         == Routes("users", "UserTenant", {"read", "invite", "update"})

AllRoutes ==
  UNION {Companies, Partners, Suppliers, Goods, Taxes, Depots, Leads,
         Opportunities, Employees, Leaves, Projects, Tasks, Expenses, Assets,
         Chart, Notices, Rules, Plugins, Boms, Production, Contracts, Bills,
         Orders, Quotations, Payroll, Moves, Journals, Invoices, Payments,
         Till, Statements, Overview, Landlord, Staff}

\* The action of the permission a route asks for.
Required(r) ==
  CASE r.verb \in {"number", "generate"} -> <<r.module, "create">>
    [] r.verb \in {"status", "install"} -> <<r.module, "update">>
    [] r.model = "StockMove" /\ r.verb = "create" -> <<r.module, "update">>
    [] OTHER -> <<r.module, r.verb>>

\* A route as the guards see it.
Guarded(r) == [public |-> FALSE, needs |-> {Required(r)}]

\* Routes that any signed-in user may call (auth/me, auth/logout), and those
\* anyone may (auth/register, auth/login, auth/refresh, branding/public).
SignedIn == [public |-> FALSE, needs |-> {}]
Open     == [public |-> TRUE, needs |-> {}]

=============================================================================
