------------------------------ MODULE Records ------------------------------
(***************************************************************************)
(* The rows the controllers of src/apps/backend/src/modules keep: master   *)
(* data and the documents that refer to it, created, updated and deleted   *)
(* through the routes of Api, the documents numbered by a count, and the   *)
(* payroll.  A query is atomic; a handler of several queries (number,      *)
(* generate) is interleaved with others between them.                      *)
(*                                                                         *)
(* A request carries two tenants: the one of its access token, which new   *)
(* rows are given, and the one of its context (the X-Tenant-Id header or   *)
(* the subdomain), which the Prisma middleware adds to every other query.  *)
(* A document and its lines are one row.                                   *)
(***************************************************************************)
EXTENDS Api, Naturals, FiniteSets

CONSTANTS
  Tenants,    \* ids of tenants
  Ids,        \* ids of rows (bound)
  Keys,       \* the keys that plugins and seeded rows are found by
  ChosenNumbers, \* numbers of the counted form that clients give (bound)
  Workers,    \* requests handled at the same time (bound)
  Stories,    \* by name: what a history starts from and may do (bounds)
  MaxFaults   \* failures and crashes (bound)

-----------------------------------------------------------------------------
(* The schema: which model names which, and what becomes of a row when the *)
(* one it names is deleted.  Prisma's default is to restrict for a column  *)
(* that must have a value and to set null for one that need not.  A column *)
(* without a relation has no foreign key: nothing watches it.              *)

Ref(model, field, target, onDelete) ==
  [model |-> model, field |-> field, target |-> target, onDelete |-> onDelete]

OwnedRefs ==
  {Ref("Branch", "company", "Company", "Cascade"),
   Ref("Task", "project", "Project", "Cascade"),
   Ref("Leave", "employee", "Employee", "Cascade"),
   Ref("Payslip", "employee", "Employee", "Cascade")}

NeededRefs ==
  {Ref("StockMove", "product", "Product", "Restrict"),
   Ref("PosOrder", "product", "Product", "Restrict")} \union
  {Ref(m, "partner", "Partner", "Restrict") :
     m \in {"Quotation", "Contract", "Invoice", "Payment", "PurchaseOrder",
            "Bill"}}

\* The lines of a bill of materials, if it has any: each repeats its product.
LineRefs ==
  {Ref("Bom", "lineProduct", "Product", "Restrict"),
   Ref("Bom", "component", "Product", "Restrict")}

LooseRefs ==
  {Ref("StockMove", "from", "Warehouse", "SetNull"),
   Ref("StockMove", "to", "Warehouse", "SetNull"),
   Ref("JournalLine", "debit", "Account", "SetNull"),
   Ref("JournalLine", "credit", "Account", "SetNull"),
   Ref("Account", "parent", "Account", "SetNull"),
   Ref("Invoice", "product", "Product", "SetNull"),
   Ref("PosOrder", "session", "PosSession", "SetNull"),
   Ref("Lead", "partner", "Partner", "SetNull"),
   Ref("Opportunity", "partner", "Partner", "SetNull"),
   Ref("Opportunity", "lead", "Lead", "SetNull"),
   Ref("Bill", "order", "PurchaseOrder", "SetNull"),
   Ref("Expense", "employee", "Employee", "SetNull"),
   Ref("Asset", "employee", "Employee", "SetNull"),
   Ref("ManufacturingOrder", "bom", "Bom", "SetNull")}

\* Columns without a foreign key, those that must have a value first.  (No
\* code says whom a task is assigned to: an employee here.)
NeededNames ==
  {Ref("ManufacturingOrder", "product", "Product", "Nothing"),
   Ref("Bom", "product", "Product", "Nothing")}

LooseNames ==
  {Ref("Project", "partner", "Partner", "Nothing"),
   Ref("PosOrder", "partner", "Partner", "Nothing"),
   Ref("Task", "assignee", "Employee", "Nothing")}

References == UNION {OwnedRefs, NeededRefs, LineRefs, LooseRefs, NeededNames,
                     LooseNames}

\* Those whose column must have a value.
Needed == OwnedRefs \union NeededRefs \union NeededNames

Models == {r.model : r \in AllRoutes} \union {r.model : r \in References}
            \union {r.target : r \in References}

\* Per model and field: the reference.
Columns ==
  LET refs(m) == {r \in References : r.model = m}
  IN [m \in Models |-> [f \in {r.field : r \in refs(m)} |->
                          CHOOSE r \in refs(m) : r.field = f]]

Fields(model) == DOMAIN Columns[model]

\* The columns the database keeps a foreign key for.
ForeignKeys(model) ==
  {f \in Fields(model) : Columns[model][f].onDelete # "Nothing"}

\* Rows without a tenant column belong to the tenant of what owns them.
Untenanted == {"Leave", "Branch"}

\* The models the middleware adds the tenant of the context to.  (Journal
\* entries stand for their lines; branches are never queried by themselves.)
SCOPED_MODELS ==
  {"Company", "Account", "JournalLine", "Tax", "Partner", "Product",
   "Warehouse", "StockMove", "Quotation", "Contract", "Lead", "Opportunity",
   "Invoice", "Payment", "PurchaseOrder", "Bill", "PosSession", "PosOrder",
   "ManufacturingOrder", "Bom", "Project", "Task", "Employee", "Payslip",
   "Expense", "Asset", "Notification", "Workflow", "Plugin"}

-----------------------------------------------------------------------------
VARIABLES
  rows,       \* per id: the row, or None
  spent,      \* ids that were used
  work,       \* per worker: the request it handles
  budget,     \* the writes still to come
  story,      \* the name of the story of this history
  disturbed,  \* <<model, tenant>> whose numbering something disturbed
  crossed,    \* models of rows of another tenant that a request which named
              \* its own tenant wrote or deleted
  reached,    \* models of rows of another tenant that such a request removed
              \* or cleared by deleting a row of its own
  mixed,      \* a request whose context is not the tenant of its token came to
              \* write, or a row was moved to another tenant
  paidRuns,   \* payrolls answered: the tenant and the employees found
  faults      \* how many failures happened

recordVars == <<rows, spent, work, budget, story, disturbed, crossed,
                reached, mixed, paidRuns, faults>>

\* What only deletes and writes of other contexts change.
tenancyVars == <<crossed, reached, mixed>>

Nullable(S) == S \union {None}

Statuses == {"first", "later"}

\* What a request is about to store or stored: the columns that matter here.
\* A row "recent" is dated in this year; a number None is none of the counted
\* form.
Row(model, tenant, to, recent, number, key) ==
  [model |-> model, tenant |-> IF model \in Untenanted THEN None ELSE tenant,
   to |-> to, status |-> "first", recent |-> recent, number |-> number,
   key |-> key]

RowTypes ==
  [model : Models, tenant : Nullable(Tenants),
   to : UNION {[Fields(m) -> Nullable(Ids)] : m \in Models},
   status : Statuses, recent : BOOLEAN, number : Nullable(Nat),
   key : Nullable(Keys)]

IsRow(r) ==
  /\ r \in RowTypes
  /\ r.to \in [Fields(r.model) -> Nullable(Ids)]
  /\ r.tenant = None <=> r.model \in Untenanted

Rows(S) == {i \in S : rows[i] # None}

OfModel(model) == {i \in Rows(Ids) : rows[i].model = model}

\* The tenant a row belongs to.
Owner(i) ==
  IF rows[i].tenant # None THEN rows[i].tenant
  ELSE rows[rows[i].to[CHOOSE f \in Fields(rows[i].model) : TRUE]].tenant

Idle == [at |-> "idle"]

\* A story: the rows there are, the routes used, the callers (pairs of the
\* tenants of token and context) and how many writes there are.
Story == Stories[story]

RecordsInit ==
  /\ story \in DOMAIN Stories
  /\ rows = [i \in Ids |-> IF i \in DOMAIN Story.rows THEN Story.rows[i]
                                                      ELSE None]
  /\ spent = DOMAIN Story.rows
  /\ work = [w \in Workers |-> Idle]
  /\ budget = Story.writes
  /\ disturbed = {} /\ crossed = {} /\ reached = {} /\ mixed = FALSE
  /\ paidRuns = {}
  /\ faults = 0

-----------------------------------------------------------------------------
(* One query.  A caller is a record of the token's tenant and the context. *)

Spend == budget > 0 /\ budget' = budget - 1

\* A route of the story with this verb.
Offered(verb) == {r \in Story.routes : r.verb = verb}

\* Mutant of Visible: tasks were forgotten among the scoped models.
VisibleTask(c, i) ==
  \/ c.context = None
  \/ rows[i].model \notin SCOPED_MODELS \ {"Task"}
  \/ rows[i].tenant = c.context

\* The middleware's condition on the rows of a model.
Visible(c, i) ==
  \/ c.context = None
  \/ rows[i].model \notin SCOPED_MODELS
  \/ rows[i].tenant = c.context

\* Clients name rows they were shown.
Shown(c, ref) == {i \in OfModel(ref.target) : Visible(c, i)}

\* createBom writes the product into every line.
LinesAgree(model, to) ==
  model = "Bom" => /\ to.lineProduct \in {None, to.product}
                   /\ (to.lineProduct = None) = (to.component = None)

\* The references a body may give a new row of the model.
Bodies(c, model) ==
  {to \in [Fields(model) -> Nullable(Rows(Ids))] :
     /\ \A f \in Fields(model) :
          IF to[f] = None THEN Columns[model][f] \notin Needed
                          ELSE to[f] \in Shown(c, Columns[model][f])
     /\ LinesAgree(model, to)}

\* The references a patch leaves a row with: each is its old one or new.
Patched(c, i) ==
  LET row == rows[i]
  IN {to \in [Fields(row.model) -> Nullable(Ids)] :
        \A f \in Fields(row.model) :
          \/ to[f] = row.to[f]
          \/ to[f] = None /\ Columns[row.model][f] \notin Needed
          \/ to[f] \in Shown(c, Columns[row.model][f])}

\* Mutant of KeysHold: they did when the body was read.
KeysHeld(model, to) == TRUE

\* The foreign keys of a row hold.
KeysHold(model, to) ==
  \A f \in ForeignKeys(model) : to[f] # None => rows[to[f]] # None

\* Rows found by their primary key, whatever their tenant, and rows with a
\* unique index on tenant and key (code, sku).
ById  == {"Company", "Tax", "Partner", "Employee", "PosSession"}
ByKey == {"Account", "Warehouse", "Product", "Plugin"}

\* The rows an upsert by the key finds.
Keyed(model, tenant, key) ==
  {i \in OfModel(model) : /\ rows[i].key = key
                          /\ model \in ById \/ rows[i].tenant = tenant}

\* Row i, a new one if None, may have the key in the tenant.
KeyFree(model, tenant, key, i) ==
  key = None \/ Keyed(model, tenant, key) \subseteq {i}

\* The keys a body may give.
BodyKeys(model) ==
  Nullable(IF model \in ById \union ByKey THEN Story.keys ELSE {})

Unused == Ids \ spent

FreshId == CHOOSE i \in Unused : TRUE

Store(row) ==
  /\ Unused # {}
  /\ rows' = [rows EXCEPT ![FreshId] = row]
  /\ spent' = spent \union {FreshId}

\* Rows S of other tenants than c's, if its context is the tenant of its token.
Foreign(c, S) ==
  IF c.context = c.tenant
  THEN {rows[i].model : i \in {j \in S : Owner(j) # c.tenant}} ELSE {}

\* A write of a caller of another context sees rows of other tenants.
Mix(c) == mixed' = (mixed \/ c.context # c.tenant)

\* Mutant of Create: new rows get the tenant of the context.
CreateInContext(c) == \E r \in Offered("create") :
  \E to \in Bodies(c, r.model), key \in BodyKeys(r.model) :
    /\ Spend
    /\ KeyFree(r.model, c.context, key, None)
    /\ Store(Row(r.model, c.context, to, TRUE, None, key))
    /\ Mix(c)
    /\ UNCHANGED <<work, story, disturbed, crossed, reached, paidRuns, faults>>

Create(c) == \E r \in Offered("create") :
  \E to \in Bodies(c, r.model), key \in BodyKeys(r.model) :
    /\ Spend
    /\ KeyFree(r.model, c.tenant, key, None)
    /\ Store(Row(r.model, c.tenant, to, TRUE, None, key))
    /\ Mix(c)
    /\ UNCHANGED <<work, story, disturbed, crossed, reached, paidRuns, faults>>

\* The numbering of the documents of rows S is disturbed.
Disturb(S) ==
  disturbed' = disturbed \union
    {<<rows[i].model, rows[i].tenant>> :
      i \in {j \in S : rows[j].tenant # None}}

\* The body is the update: it may name any column, references, status, date and
\* key, the number of a contract, and the tenant.  Only that of a workflow is
\* picked apart.
Update(c) == \E r \in Offered("update") : \E i \in OfModel(r.model) :
  /\ Spend
  /\ Visible(c, i)
  /\ \E to \in Patched(c, i), s \in Statuses, recent \in BOOLEAN,
        t \in IF r.model = "Workflow" THEN {rows[i].tenant} ELSE Tenants,
        key \in BodyKeys(r.model) \union {rows[i].key},
        number \in {rows[i].number} \union
          (IF r.model = "Contract" THEN Nullable(ChosenNumbers) ELSE {}) :
       /\ KeyFree(r.model, t, key, i)
       /\ rows' = [rows EXCEPT ![i].to = to, ![i].status = s,
             ![i].recent = recent, ![i].tenant = t, ![i].key = key,
             ![i].number = number]
       /\ disturbed' = IF /\ recent = rows[i].recent
                          /\ t = rows[i].tenant
                          /\ number = rows[i].number
                       THEN disturbed
                       ELSE disturbed \union
                              {<<r.model, rows[i].tenant>>, <<r.model, t>>}
       /\ mixed' = (mixed \/ c.context # c.tenant \/ t # rows[i].tenant)
  /\ crossed' = crossed \union Foreign(c, {i})
  /\ UNCHANGED <<spent, work, story, reached, paidRuns, faults>>

SetStatus(c) == \E r \in Offered("status") : \E i \in OfModel(r.model) :
  /\ Spend
  /\ Visible(c, i)
  /\ \E s \in Statuses : rows' = [rows EXCEPT ![i].status = s]
  /\ crossed' = crossed \union Foreign(c, {i})
  /\ UNCHANGED <<spent, work, story, disturbed, reached, mixed, paidRuns,
                 faults>>

\* The rows that refer to one of S in a field with this rule.
Dependents(S, rule) ==
  {j \in Rows(Ids) : \E f \in Fields(rows[j].model) :
     Columns[rows[j].model][f].onDelete = rule /\ rows[j].to[f] \in S}

\* Deleting i removes what it owns, clears what refers to it loosely, and is
\* refused if something needs it.  A column without a foreign key keeps the id.
Delete(c) == \E r \in Offered("delete") : \E i \in OfModel(r.model) :
  LET doomed == {i} \union Dependents({i}, "Cascade")
      cleared == Dependents(doomed, "SetNull") \ doomed
      loose(j, f) == Columns[rows[j].model][f].onDelete = "SetNull"
  IN /\ Spend
     /\ Visible(c, i)
     /\ Dependents(doomed, "Restrict") \subseteq doomed
     /\ rows' = [j \in Ids |->
          IF j \in doomed \/ rows[j] = None THEN None
          ELSE [rows[j] EXCEPT !.to = [f \in DOMAIN @ |->
                  IF loose(j, f) /\ @[f] \in doomed THEN None ELSE @[f]]]]
     /\ Disturb(doomed)
     /\ crossed' = crossed \union Foreign(c, {i})
     /\ reached' = reached \union Foreign(c, (doomed \union cleared) \ {i})
     /\ UNCHANGED <<spent, work, story, mixed, paidRuns, faults>>

\* PluginsService.install: one upsert by tenant and key.
Install(c) == \E r \in Offered("install"), key \in Story.keys :
  LET found == Keyed(r.model, c.tenant, key)
  IN /\ Spend
     /\ \/ /\ found = {}
           /\ Store(Row(r.model, c.tenant, <<>>, TRUE, None, key))
        \/ /\ found # {} /\ \A i \in found : Visible(c, i)
           /\ rows' = [j \in Ids |-> IF j \in found
                         THEN [rows[j] EXCEPT !.status = "first"] ELSE rows[j]]
           /\ UNCHANGED spent
     /\ UNCHANGED <<work, story, disturbed, tenancyVars, paidRuns, faults>>

-----------------------------------------------------------------------------
(* Documents numbered by a count: the query of the count, then the insert. *)

\* Whose numbers a unique index protects; whose count is of all years; whose
\* body may bring a number of its own; whose body may bring a date.
Indexed    == {"Quotation", "PurchaseOrder"}
Undated    == {"ManufacturingOrder"}
OwnNumbers == {"Bill", "Contract"}
OwnDates   == {"Quotation", "Bill", "Contract"}

\* Mutant of Count: only documents still in their first status.
CountActive(c, model) ==
  Cardinality({i \in OfModel(model) :
    /\ Visible(c, i) /\ rows[i].status = "first"
    /\ model \in Undated \/ rows[i].recent})

Count(c, model) ==
  Cardinality({i \in OfModel(model) :
    Visible(c, i) /\ (model \in Undated \/ rows[i].recent)})

\* The count of a request, whose body may bring any other number; that, another
\* request of the model still to insert, or a context that is not the tenant,
\* disturbs the numbers.
BeginNumber(w, c) == \E r \in Offered("number") :
  LET counted == Count(c, r.model) + 1
  IN \E to \in Bodies(c, r.model),
        number \in {counted} \union
          (IF r.model \in OwnNumbers THEN Nullable(ChosenNumbers) ELSE {}),
        recent \in IF r.model \in OwnDates THEN BOOLEAN ELSE {TRUE} :
     /\ work[w] = Idle
     /\ Spend
     /\ work' = [work EXCEPT ![w] =
          [at |-> "insert", caller |-> c, model |-> r.model, to |-> to,
           recent |-> recent, number |-> number]]
     /\ disturbed' =
          IF \/ c.context # c.tenant
             \/ number \notin {None, counted}
             \/ \E v \in Workers : /\ work[v].at = "insert"
                                   /\ work[v].model = r.model
                                   /\ work[v].caller.tenant = c.tenant
          THEN disturbed \union {<<r.model, c.tenant>>} ELSE disturbed
     /\ Mix(c)
     /\ UNCHANGED <<rows, spent, story, crossed, reached, paidRuns, faults>>

Numbered(model, t) ==
  {i \in OfModel(model) : rows[i].tenant = t /\ rows[i].number # None}

Taken(model, t, n) == \E i \in Numbered(model, t) : rows[i].number = n

\* A document dated last year got a number of this year.
InsertNumbered(w) ==
  LET j == work[w]
      t == j.caller.tenant
  IN /\ j.at = "insert"
     /\ work' = [work EXCEPT ![w] = Idle]
     /\ IF KeysHold(j.model, j.to) /\ ~(j.model \in Indexed /\ Taken(j.model, t, j.number))
        THEN /\ Store(Row(j.model, t, j.to, j.recent, j.number, None))
             /\ disturbed' = IF j.recent \/ j.model \in Undated THEN disturbed
                             ELSE disturbed \union {<<j.model, t>>}
        ELSE UNCHANGED <<rows, spent, disturbed>>
     /\ UNCHANGED <<budget, story, tenancyVars, paidRuns, faults>>

-----------------------------------------------------------------------------
(* PayrollService.generate: the active employees are read, and their slips *)
(* inserted one after the other.                                           *)

BeginPayroll(w, c) ==
  LET employees == {i \in OfModel("Employee") : /\ Visible(c, i)
                                                /\ rows[i].status = "first"}
  IN /\ Offered("generate") # {}
     /\ work[w] = Idle
     /\ Spend
     /\ work' = [work EXCEPT ![w] =
          [at |-> "slips", caller |-> c, left |-> employees,
           found |-> employees, slips |-> {}]]
     /\ Mix(c)
     /\ UNCHANGED <<rows, spent, story, disturbed, crossed, reached, paidRuns,
                    faults>>

\* Mutant of InsertSlip: an employee who is gone is passed over, and the rest
\* with him.
InsertSlipOrEnd(w) ==
  LET j == work[w]
  IN /\ j.at = "slips"
     /\ \E e \in j.left :
          IF rows[e] # None
          THEN /\ Store(Row("Payslip", j.caller.tenant, [employee |-> e],
                            TRUE, None, None))
               /\ work' = [work EXCEPT ![w].left = @ \ {e},
                                       ![w].slips = @ \union {FreshId}]
          ELSE /\ work' = [work EXCEPT ![w].left = {}]
               /\ UNCHANGED <<rows, spent>>
     /\ UNCHANGED <<budget, story, disturbed, tenancyVars, paidRuns, faults>>

\* The foreign key refuses the slip of an employee who is gone by now, and the
\* request fails with those before stored.
InsertSlip(w) ==
  LET j == work[w]
  IN /\ j.at = "slips"
     /\ \E e \in j.left :
          IF rows[e] # None
          THEN /\ Store(Row("Payslip", j.caller.tenant, [employee |-> e],
                            TRUE, None, None))
               /\ work' = [work EXCEPT ![w].left = @ \ {e},
                                       ![w].slips = @ \union {FreshId}]
          ELSE /\ work' = [work EXCEPT ![w] = Idle]
               /\ UNCHANGED <<rows, spent>>
     /\ UNCHANGED <<budget, story, disturbed, tenancyVars, paidRuns, faults>>

AnswerPayroll(w) ==
  LET j == work[w]
  IN /\ j.at = "slips"
     /\ j.left = {}
     /\ work' = [work EXCEPT ![w] = Idle]
     /\ paidRuns' = paidRuns \union
          {[tenant |-> j.caller.tenant, found |-> j.found, slips |-> j.slips]}
     /\ UNCHANGED <<rows, spent, budget, story, disturbed, tenancyVars,
                    faults>>

-----------------------------------------------------------------------------
Fault == faults < MaxFaults /\ faults' = faults + 1

\* A query of the request fails, or the process dies with all of them.
Fail ==
  /\ Fault
  /\ \E S \in {{w} : w \in Workers} \union {Workers} :
       /\ \E w \in S : work[w] # Idle
       /\ work' = [w \in Workers |-> IF w \in S THEN Idle ELSE work[w]]
  /\ UNCHANGED <<rows, spent, budget, story, disturbed, tenancyVars,
                 paidRuns>>

Write(c) == Create(c) \/ Update(c) \/ SetStatus(c) \/ Delete(c) \/ Install(c)

Begin(w, c) == BeginNumber(w, c) \/ BeginPayroll(w, c)

Continue(w) == InsertNumbered(w) \/ InsertSlip(w) \/ AnswerPayroll(w)

-----------------------------------------------------------------------------
\* Types of all variables.
RecordsTypeOK ==
  /\ DOMAIN rows = Ids /\ spent \subseteq Ids
  /\ \A i \in Rows(Ids) : IsRow(rows[i]) /\ i \in spent
  /\ \A w \in Workers : work[w].at \in {"idle", "insert", "slips", "branding",
                                        "seed"}
  /\ budget \in Nat /\ story \in DOMAIN Stories /\ faults \in 0..MaxFaults
  /\ disturbed \subseteq Models \X Tenants
  /\ crossed \subseteq Models /\ reached \subseteq Models /\ mixed \in BOOLEAN

\* Whatever is deleted while documents are being created, a foreign key of a
\* row leads to a row of the model it names: only a column the schema declares
\* no relation for can dangle.
NothingDangles ==
  \A i \in Rows(Ids) : \A f \in ForeignKeys(rows[i].model) :
    rows[i].to[f] # None =>
      rows[i].to[f] \in OfModel(Columns[rows[i].model][f].target)

\* As long as a client names the tenant of its own token, what it writes or
\* deletes is of other tenants only in the one model that has no tenant column;
\* and its deletes take no rows of other tenants along and clear none, unless
\* somebody wrote from another context or moved a row to another tenant.
OthersUntouched ==
  /\ crossed \subseteq {"Leave"}
  /\ ~mixed => reached = {}

\* Numbers made by a count are distinct, and the next one is free, as long as
\* no two requests for one overlapped, none was dated last year, deleted,
\* redated, renumbered or moved, none brought another number of the counted
\* form, and all counted their own tenant: failures between count and insert
\* and numbers of any other form do no harm.
CountedNumbers ==
  \A model \in {r.model : r \in Offered("number")}, t \in Tenants :
    <<model, t>> \notin disturbed =>
      /\ \A i, j \in Numbered(model, t) :
           rows[i].number = rows[j].number => i = j
      /\ ~Taken(model, t, Count([tenant |-> t, context |-> t], model) + 1)

\* A payroll that was answered made a slip for every employee it found, and
\* each of them is there as long as the employee is, however employees are
\* deleted or deactivated meanwhile.
PayrollIsComplete ==
  \A run \in paidRuns : \A e \in run.found : rows[e] # None =>
    \E i \in run.slips : /\ rows[i] # None
                         /\ rows[i].to.employee = e
                         /\ rows[i].tenant = run.tenant

=============================================================================
