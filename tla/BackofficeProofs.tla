-------------------------- MODULE BackofficeProofs --------------------------
(* Theorems about the back office, for every value of its constants.       *)
EXTENDS Backoffice, FiniteSetTheorems, TLAPS

-----------------------------------------------------------------------------
(* The schema and the routes.                                              *)

NumberModels == {"Quotation", "PurchaseOrder", "ManufacturingOrder", "Bill",
                 "Contract"}

LEMMA RoutesOfNumbers ==
  ASSUME NEW r \in AllRoutes
  PROVE  /\ r.verb = "number" => r.model \in NumberModels
         /\ r.verb = "create" => r.model \notin NumberModels
         /\ r.verb = "install" => r.model = "Plugin"
         /\ r.verb = "generate" => r.model = "Payslip"
         /\ r.model \in {"Payslip", "StockMove"} =>
              r.verb \notin {"update", "delete"}
BY DEF AllRoutes, Routes, Companies, Partners, Suppliers, Goods, Taxes, Depots,
       Leads, Opportunities, Employees, Leaves, Projects, Tasks, Expenses,
       Assets, Chart, Notices, Rules, Plugins, Boms, Production, Contracts,
       Bills, Orders, Quotations, Payroll, Moves, Journals, Invoices, Payments,
       Till, Statements, Overview, Landlord, Staff, Crud, NumberModels

LEMMA ColumnsAreReferences ==
  ASSUME NEW m \in Models
  PROVE  /\ Fields(m) = {r.field : r \in {q \in References : q.model = m}}
         /\ \A f \in Fields(m) : /\ Columns[m][f] \in References
                                 /\ Columns[m][f].model = m
                                 /\ Columns[m][f].field = f
BY DEF Columns, Fields

Owned == {"Branch", "Task", "Leave", "Payslip"}

\* The rules, what owns what, and the models that have no tenant column.
LEMMA OwnedReferences ==
  ASSUME NEW r \in References
  PROVE  /\ r.onDelete \in {"Cascade", "Restrict", "SetNull", "Nothing"}
         /\ r.onDelete = "Cascade" => r.model \in Owned /\ r.target \notin Owned
         /\ r.model = "Leave" => r.field = "employee" /\ r.onDelete = "Cascade"
         /\ r.model = "Branch" => r.field = "company" /\ r.onDelete = "Cascade"
         /\ r.target \notin {"Leave", "Branch"}
BY DEF References, OwnedRefs, NeededRefs, LineRefs, LooseRefs, NeededNames,
       LooseNames, Ref, Owned

Plain == {"Plugin", "Company", "Tax", "Warehouse", "Product", "Partner",
          "Employee", "PosSession"}

LEMMA PlainReferences ==
  ASSUME NEW r \in References
  PROVE  /\ r.model \notin Plain
         /\ r.model = "Payslip" => r.field = "employee" /\ r.target = "Employee"
         /\ r.model = "Account" => r.field = "parent"
         /\ r.model = "StockMove" =>
              \/ r.field = "product" /\ r.target = "Product"
              \/ r.field \in {"from", "to"} /\ r.target = "Warehouse"
BY DEF References, OwnedRefs, NeededRefs, LineRefs, LooseRefs, NeededNames,
       LooseNames, Ref, Plain

LEMMA SomeReferences ==
  /\ \E r \in References : r.model = "Payslip" /\ r.field = "employee"
  /\ \E r \in References : r.model = "Account" /\ r.field = "parent"
  /\ \E r \in References : r.model = "StockMove" /\ r.field = "product"
  /\ \E r \in References : r.model = "StockMove" /\ r.field = "from"
  /\ \E r \in References : r.model = "StockMove" /\ r.field = "to"
<1>1. /\ Ref("Payslip", "employee", "Employee", "Cascade") \in References
      /\ Ref("Account", "parent", "Account", "SetNull") \in References
      /\ Ref("StockMove", "product", "Product", "Restrict") \in References
      /\ Ref("StockMove", "from", "Warehouse", "SetNull") \in References
      /\ Ref("StockMove", "to", "Warehouse", "SetNull") \in References
  BY DEF References, OwnedRefs, NeededRefs, LooseRefs
<1> QED
  BY <1>1 DEF Ref

LEMMA ModelsOfNumbers == NumberModels \subseteq Models
<1>1. /\ [module |-> "quotations", model |-> "Quotation", verb |-> "read"] \in Quotations
      /\ [module |-> "procurement", model |-> "PurchaseOrder", verb |-> "read"] \in Orders
      /\ [module |-> "procurement", model |-> "Bill", verb |-> "read"] \in Bills
      /\ [module |-> "contracts", model |-> "Contract", verb |-> "read"] \in Contracts
      /\ [module |-> "manufacturing", model |-> "ManufacturingOrder",
          verb |-> "read"] \in Production
  BY DEF Quotations, Orders, Production, Bills, Contracts, Routes
<1>2. Quotations \union Orders \union Bills \union Contracts \union Production
        \subseteq AllRoutes
  BY DEF AllRoutes
<1>3. \A m \in NumberModels : \E r \in AllRoutes : r.model = m
  BY <1>1, <1>2 DEF NumberModels
<1> QED
  BY <1>3 DEF Models

\* Leaves alone have no tenant column, and can only be created or given a status.
LEMMA ScopedRoutes ==
  ASSUME NEW r \in AllRoutes, r \notin Landlord \union Staff
  PROVE  /\ r.model \in SCOPED_MODELS \union {"Leave"}
         /\ r.verb \in {"update", "delete", "number", "generate", "install"} =>
              r.model \in SCOPED_MODELS
BY DEF AllRoutes, Routes, Companies, Partners, Suppliers, Goods, Taxes, Depots,
       Leads, Opportunities, Employees, Leaves, Projects, Tasks, Expenses,
       Assets, Chart, Notices, Rules, Plugins, Boms, Production, Contracts,
       Bills, Orders, Quotations, Payroll, Moves, Journals, Invoices, Payments,
       Till, Statements, Overview, Crud, SCOPED_MODELS

LEMMA ScopedTenanted == SCOPED_MODELS \intersect Untenanted = {}
BY DEF SCOPED_MODELS, Untenanted

LEMMA ModelsOfRoutes == \A r \in AllRoutes : r.model \in Models
BY DEF Models

LEMMA FieldsOfModels ==
  /\ Owned \subseteq Models /\ "Account" \in Models /\ "StockMove" \in Models
  /\ {"Plugin", "Company", "Tax", "Warehouse", "Product", "Partner",
      "Employee", "PosSession"} \subseteq Models
  /\ \A m \in Models \intersect Plain : Fields(m) = {}
  /\ Fields("Payslip") = {"employee"}
  /\ Fields("Account") = {"parent"}
  /\ Fields("StockMove") = {"product", "from", "to"}
<1>1. /\ Owned \subseteq Models
      /\ {"Account", "StockMove"} \subseteq Models
      /\ {"Plugin", "Company", "Tax", "Warehouse", "Product", "Partner",
          "Employee", "PosSession"} \subseteq Models
  <2>1. \A r \in References : r.model \in Models /\ r.target \in Models
    BY DEF Models
  <2>2. /\ \E r \in References : r.model = "Branch" /\ r.target = "Company"
        /\ \E r \in References : r.model = "Task"
        /\ \E r \in References : r.model = "Leave" /\ r.target = "Employee"
        /\ \E r \in References : r.model = "Bill" /\ r.target = "Partner"
    <3>1. /\ Ref("Branch", "company", "Company", "Cascade") \in References
          /\ Ref("Task", "project", "Project", "Cascade") \in References
          /\ Ref("Leave", "employee", "Employee", "Cascade") \in References
          /\ Ref("Bill", "partner", "Partner", "Restrict") \in References
      BY DEF References, OwnedRefs, NeededRefs
    <3> QED
      BY <3>1 DEF Ref
  <2>3. /\ \E r \in References : r.target = "Warehouse"
        /\ \E r \in References : r.target = "Product"
        /\ \E r \in References : r.target = "PosSession"
    <3>1. /\ Ref("StockMove", "from", "Warehouse", "SetNull") \in References
          /\ Ref("StockMove", "product", "Product", "Restrict") \in References
          /\ Ref("PosOrder", "session", "PosSession", "SetNull") \in References
      BY DEF References, LooseRefs, NeededRefs
    <3> QED
      BY <3>1 DEF Ref
  <2>4. \E r \in AllRoutes : r.model = "Plugin"
    <3>1. [module |-> "plugins", model |-> "Plugin", verb |-> "read"] \in AllRoutes
      BY DEF AllRoutes, Plugins, Routes
    <3> QED
      BY <3>1
  <2>5. \E r \in AllRoutes : r.model = "Tax"
    <3>1. [module |-> "taxes", model |-> "Tax", verb |-> "read"] \in AllRoutes
      BY DEF AllRoutes, Taxes, Routes, Crud
    <3> QED
      BY <3>1
  <2> QED
    BY <2>1, <2>2, <2>3, <2>4, <2>5, SomeReferences, ModelsOfRoutes DEF Owned
<1>2. \A m \in Models \intersect Plain : Fields(m) = {}
  BY ColumnsAreReferences, PlainReferences
<1>3. Fields("Payslip") = {"employee"}
  BY <1>1, ColumnsAreReferences, PlainReferences, SomeReferences DEF Owned
<1>4. Fields("Account") = {"parent"}
  BY <1>1, ColumnsAreReferences, PlainReferences, SomeReferences
<1>5. Fields("StockMove") = {"product", "from", "to"}
  BY <1>1, ColumnsAreReferences, PlainReferences, SomeReferences
<1> QED
  BY <1>1, <1>2, <1>3, <1>4, <1>5

-----------------------------------------------------------------------------
(* Types.                                                                  *)

Callers == [tenant : Tenants, context : Contexts]

Targets(m) == [Fields(m) -> Nullable(Ids)]

Inserting == [at : {"insert"}, caller : Callers, model : NumberModels,
              to : UNION {Targets(m) : m \in Models}, recent : BOOLEAN,
              number : Nullable(Nat)]

Paying == [at : {"slips"}, caller : Callers, left : SUBSET Ids,
           found : SUBSET Ids, slips : SUBSET Ids]

Painting == [at : {"branding"}, caller : Callers, patch : Patches,
             merged : [BrandFields -> Brands]]

\* What a reference the seed leaves open names.
NoKey == ""

\* The ids a run of the seed remembers are those of the steps it did.
IsSeeding(j) ==
  /\ j.at = "seed"
  /\ j.next \in 1..Len(Seed)
  /\ DOMAIN j.made = {NoKey} \union {Seed[k].key : k \in 1..(j.next - 1)}
  /\ j.made[NoKey] = None
  /\ \A key \in DOMAIN j.made : j.made[key] \in Nullable(Ids)

JobOK(j) ==
  \/ j = Idle
  \/ j \in Inserting /\ j.to \in Targets(j.model)
  \/ j \in Paying
  \/ j \in Painting
  \/ IsSeeding(j)

JobsOK ==
  /\ work = [w \in Workers |-> work[w]]
  /\ \A w \in Workers : JobOK(work[w])

TypeInv == BackofficeTypeOK /\ JobsOK

LEMMA StoryOK ==
  ASSUME RecordsTypeOK
  PROVE  /\ Story.routes \subseteq AllRoutes
         /\ Story.routes \intersect (Landlord \union Staff) = {}
         /\ Story.callers \subseteq Callers
         /\ Story.keys \subseteq Keys
BY BackofficeAssumption DEF RecordsTypeOK, Story, Callers

LEMMA RowIsRow ==
  ASSUME NEW m \in Models, NEW t \in Tenants, NEW to \in Targets(m),
         NEW recent \in BOOLEAN, NEW n \in Nullable(Nat),
         NEW k \in Nullable(Keys)
  PROVE  /\ IsRow(Row(m, t, to, recent, n, k))
         /\ Row(m, t, to, recent, n, k).model = m
         /\ Row(m, t, to, recent, n, k).to = to
         /\ Row(m, t, to, recent, n, k).key = k
         /\ Row(m, t, to, recent, n, k).tenant =
              IF m \in Untenanted THEN None ELSE t
<1>1. to \in UNION {[Fields(q) -> Nullable(Ids)] : q \in Models}
  BY DEF Targets
<1>2. (IF m \in Untenanted THEN None ELSE t) \in Nullable(Tenants)
  BY DEF Nullable
<1>3. t # None
  BY BackofficeAssumption
<1> QED
  BY <1>1, <1>2, <1>3 DEF IsRow, RowTypes, Row, Targets, Statuses

Nothing == <<>>

LEMMA NothingIsEmpty == DOMAIN Nothing = {}
BY DEF Nothing

LEMMA NullIsNullable == \A S : None \in Nullable(S) /\ S \subseteq Nullable(S)
BY DEF Nullable

\* The columns of a row, and that no row is None.
LEMMA RowParts ==
  ASSUME NEW r, IsRow(r)
  PROVE  /\ r.model \in Models /\ r.tenant \in Nullable(Tenants)
         /\ r.to \in Targets(r.model) /\ DOMAIN r.to = Fields(r.model)
         /\ r.status \in Statuses /\ r.recent \in BOOLEAN
         /\ r.number \in Nullable(Nat) /\ r.key \in Nullable(Keys)
         /\ r.tenant = None <=> r.model \in Untenanted
         /\ r # None
BY BackofficeAssumption DEF IsRow, RowTypes, Targets

LEMMA FreshIdIsFresh == Unused # {} => FreshId \in Ids /\ FreshId \notin spent
BY DEF Unused, FreshId

LEMMA InitTypes == Init => TypeInv
<1> SUFFICES ASSUME Init PROVE TypeInv
  OBVIOUS
<1>1. \A i \in Ids : rows[i] # None => IsRow(rows[i]) /\ i \in spent
  BY BackofficeAssumption DEF Init, RecordsInit, Story
<1>2. RecordsTypeOK
  <2>1. /\ crossed = {} /\ reached = {} /\ mixed = FALSE /\ disturbed = {}
        /\ faults = 0 /\ story \in DOMAIN Stories /\ budget = Stories[story].writes
        /\ DOMAIN rows = Ids /\ spent = DOMAIN Stories[story].rows
        /\ \A w \in Workers : work[w].at = "idle"
    BY DEF Init, RecordsInit, Idle, Story
  <2>2. mixed \in BOOLEAN
    BY <2>1
  <2> QED
    BY <1>1, <2>1, <2>2, BackofficeAssumption DEF RecordsTypeOK, Rows
<1>3. JobsOK
  BY DEF Init, RecordsInit, JobsOK, JobOK
<1>4. branding \in [Tenants -> [BrandFields -> Brands]] /\ latest = branding
  BY DEF Init, DEFAULT, Brands
<1> QED
  BY <1>2, <1>3, <1>4 DEF Init, TypeInv, BackofficeTypeOK

-----------------------------------------------------------------------------
(* What the parts of the actions do to the types.                          *)

RowsOK ==
  /\ DOMAIN rows = Ids /\ spent \subseteq Ids
  /\ \A i \in Ids : rows[i] # None => IsRow(rows[i]) /\ i \in spent

LEMMA RowsTyped == RecordsTypeOK => RowsOK
BY DEF RecordsTypeOK, RowsOK, Rows

LEMMA StoreTypes ==
  ASSUME RowsOK, NEW row, IsRow(row), Store(row)
  PROVE  /\ RowsOK'
         /\ FreshId \in Ids /\ FreshId \notin spent /\ rows[FreshId] = None
         /\ rows'[FreshId] = row
         /\ \A i \in Ids \ {FreshId} : rows'[i] = rows[i]
         /\ spent' = spent \union {FreshId}
<1>1. /\ FreshId \in Ids /\ FreshId \notin spent
      /\ rows' = [rows EXCEPT ![FreshId] = row]
      /\ spent' = spent \union {FreshId}
  BY FreshIdIsFresh DEF Store
<1>2. PICK n : n = FreshId
  OBVIOUS
<1>3. /\ n \in Ids /\ n \notin spent
      /\ rows' = [rows EXCEPT ![n] = row] /\ spent' = spent \union {n}
  BY <1>1, <1>2
<1>4. /\ DOMAIN rows' = Ids /\ rows'[n] = row
      /\ \A i \in Ids \ {n} : rows'[i] = rows[i]
  BY <1>3 DEF RowsOK
<1>5. RowsOK'
  BY <1>3, <1>4 DEF RowsOK
<1>6. rows[n] = None
  BY <1>3 DEF RowsOK
<1> QED
  BY <1>2, <1>3, <1>4, <1>5, <1>6

LEMMA DisturbTypes ==
  ASSUME RowsOK, disturbed \subseteq Models \X Tenants,
         NEW S \in SUBSET Ids, \A i \in S : rows[i] # None, Disturb(S)
  PROVE  disturbed' \subseteq Models \X Tenants
BY RowParts DEF RowsOK, Disturb, Nullable

LEMMA ForeignTypes ==
  ASSUME RowsOK, NEW c, NEW S \in SUBSET Ids, \A i \in S : rows[i] # None
  PROVE  Foreign(c, S) \subseteq Models
BY RowParts DEF RowsOK, Foreign

LEMMA OfModelRows ==
  ASSUME NEW m, NEW i \in OfModel(m)
  PROVE  i \in Ids /\ rows[i] # None /\ rows[i].model = m
BY DEF OfModel, Rows

LEMMA BodiesTypes ==
  ASSUME RecordsTypeOK, NEW c, NEW m \in Models, NEW to \in Bodies(c, m)
  PROVE  /\ to \in Targets(m)
         /\ \A f \in Fields(m) : to[f] # None =>
              /\ to[f] \in OfModel(Columns[m][f].target)
              /\ Visible(c, to[f])
BY DEF Bodies, Targets, Nullable, Rows, Shown

LEMMA PatchedTypes ==
  ASSUME RowsOK, NEW c, NEW i \in Ids, NEW to \in Patched(c, i)
  PROVE  /\ to \in Targets(rows[i].model)
         /\ \A f \in Fields(rows[i].model) : to[f] # None =>
              \/ to[f] = rows[i].to[f]
              \/ /\ to[f] \in OfModel(Columns[rows[i].model][f].target)
                 /\ Visible(c, to[f])
BY DEF Patched, Targets, Shown

LEMMA BodyKeysTypes ==
  ASSUME RecordsTypeOK, NEW m, NEW key \in BodyKeys(m)
  PROVE  /\ key \in Nullable(Keys)
         /\ key # None => m \in ById \union ByKey
BY StoryOK DEF BodyKeys, Nullable

\* One row changes in what an update may change.
LEMMA ChangeTypes ==
  ASSUME RowsOK, NEW i \in Ids, rows[i] # None, NEW r, IsRow(r),
         rows' = [rows EXCEPT ![i] = r], spent' = spent
  PROVE  RowsOK'
BY DEF RowsOK

Updated(r, to, s, recent, t, key, number) ==
  [[[[[[r EXCEPT !.to = to] EXCEPT !.status = s] EXCEPT !.recent = recent]
     EXCEPT !.tenant = t] EXCEPT !.key = key] EXCEPT !.number = number]

WithTo(r, to) == [r EXCEPT !.to = to]

LEMMA UpdatedRow ==
  ASSUME NEW r, IsRow(r), NEW to \in Targets(r.model), NEW s \in Statuses,
         NEW recent \in BOOLEAN, NEW t \in Nullable(Tenants),
         t = None <=> r.model \in Untenanted,
         NEW key \in Nullable(Keys), NEW number \in Nullable(Nat),
         NEW q, q = Updated(r, to, s, recent, t, key, number)
  PROVE  /\ IsRow(q)
         /\ q.to = to /\ q.recent = recent /\ q.tenant = t /\ q.key = key
         /\ q.number = number /\ q.model = r.model
<1>1. to \in UNION {[Fields(m) -> Nullable(Ids)] : m \in Models}
  BY RowParts DEF Targets
<1>2. /\ q \in RowTypes
      /\ q.to = to /\ q.recent = recent /\ q.tenant = t /\ q.key = key
      /\ q.number = number /\ q.model = r.model
  BY <1>1 DEF IsRow, RowTypes, Updated
<1> QED
  BY <1>2 DEF IsRow, Targets

LEMMA RelinkedRow ==
  ASSUME NEW r, IsRow(r), NEW to \in Targets(r.model)
  PROVE  IsRow(WithTo(r, to)) /\ WithTo(r, to).to = to
<1>1. to \in UNION {[Fields(q) -> Nullable(Ids)] : q \in Models}
  BY RowParts DEF Targets
<1> QED
  BY <1>1 DEF IsRow, RowTypes, Targets, WithTo

SameButStatus(q, r) ==
  /\ q.model = r.model /\ q.to = r.to /\ q.tenant = r.tenant
  /\ q.number = r.number /\ q.recent = r.recent /\ q.key = r.key

\* Only the status changes.
LEMMA MarkedRow ==
  ASSUME NEW r, IsRow(r), NEW s \in Statuses
  PROVE  /\ IsRow([r EXCEPT !.status = s])
         /\ SameButStatus([r EXCEPT !.status = s], r)
BY DEF IsRow, RowTypes, SameButStatus

\* What an update of row i does.
Updates(c, i, to, s, recent, t, key, number) ==
  /\ rows[i] # None /\ \E r \in Offered("update") : r.model = rows[i].model
  /\ Spend
  /\ Visible(c, i)
  /\ to \in Patched(c, i) /\ s \in Statuses /\ recent \in BOOLEAN
  /\ t \in IF rows[i].model = "Workflow" THEN {rows[i].tenant} ELSE Tenants
  /\ key \in BodyKeys(rows[i].model) \union {rows[i].key}
  /\ number \in {rows[i].number} \union
       (IF rows[i].model = "Contract" THEN Nullable(ChosenNumbers) ELSE {})
  /\ KeyFree(rows[i].model, t, key, i)
  /\ rows' = [rows EXCEPT ![i] = Updated(rows[i], to, s, recent, t, key, number)]
  /\ disturbed' = IF /\ recent = rows[i].recent /\ t = rows[i].tenant
                     /\ number = rows[i].number
                  THEN disturbed
                  ELSE disturbed \union {<<rows[i].model, rows[i].tenant>>,
                                         <<rows[i].model, t>>}
  /\ mixed' = (mixed \/ c.context # c.tenant \/ t # rows[i].tenant)
  /\ crossed' = crossed \union Foreign(c, {i})
  /\ UNCHANGED <<spent, work, story, reached, paidRuns, faults>>

LEMMA UpdateShape ==
  ASSUME RowsOK, NEW c, Update(c)
  PROVE  \E i \in Ids : \E to, s, recent, t, key, number :
           Updates(c, i, to, s, recent, t, key, number)
<1>0. PICK r \in Offered("update") : \E i \in OfModel(r.model) :
        /\ Spend
        /\ Visible(c, i)
        /\ \E to \in Patched(c, i), s \in Statuses, recent \in BOOLEAN,
              t \in IF r.model = "Workflow" THEN {rows[i].tenant} ELSE Tenants,
              key \in BodyKeys(r.model) \union {rows[i].key},
              number \in {rows[i].number} \union
                (IF r.model = "Contract" THEN Nullable(ChosenNumbers) ELSE {}) :
             /\ KeyFree(r.model, t, key, i)
             /\ rows' = [rows EXCEPT ![i].to = to, ![i].status = s,
                   ![i].recent = recent, ![i].tenant = t, ![i].key = key,
                   ![i].number = number]
             /\ disturbed' = IF /\ recent = rows[i].recent
                                /\ t = rows[i].tenant
                                /\ number = rows[i].number
                             THEN disturbed
                             ELSE disturbed \union
                                    {<<r.model, rows[i].tenant>>, <<r.model, t>>}
             /\ mixed' = (mixed \/ c.context # c.tenant \/ t # rows[i].tenant)
        /\ crossed' = crossed \union Foreign(c, {i})
        /\ UNCHANGED <<spent, work, story, reached, paidRuns, faults>>
  BY Zenon DEF Update
<1>1. PICK i \in OfModel(r.model) :
        /\ Spend
        /\ Visible(c, i)
        /\ \E to \in Patched(c, i), s \in Statuses, recent \in BOOLEAN,
              t \in IF r.model = "Workflow" THEN {rows[i].tenant} ELSE Tenants,
              key \in BodyKeys(r.model) \union {rows[i].key},
              number \in {rows[i].number} \union
                (IF r.model = "Contract" THEN Nullable(ChosenNumbers) ELSE {}) :
             /\ KeyFree(r.model, t, key, i)
             /\ rows' = [rows EXCEPT ![i].to = to, ![i].status = s,
                   ![i].recent = recent, ![i].tenant = t, ![i].key = key,
                   ![i].number = number]
             /\ disturbed' = IF /\ recent = rows[i].recent
                                /\ t = rows[i].tenant
                                /\ number = rows[i].number
                             THEN disturbed
                             ELSE disturbed \union
                                    {<<r.model, rows[i].tenant>>, <<r.model, t>>}
             /\ mixed' = (mixed \/ c.context # c.tenant \/ t # rows[i].tenant)
        /\ crossed' = crossed \union Foreign(c, {i})
        /\ UNCHANGED <<spent, work, story, reached, paidRuns, faults>>
  BY <1>0, Zenon
<1>2. i \in Ids /\ rows[i] # None /\ rows[i].model = r.model
  BY OfModelRows
<1>3. PICK to \in Patched(c, i), s \in Statuses, recent \in BOOLEAN,
           t \in IF r.model = "Workflow" THEN {rows[i].tenant} ELSE Tenants,
           key \in BodyKeys(r.model) \union {rows[i].key},
           number \in {rows[i].number} \union
             (IF r.model = "Contract" THEN Nullable(ChosenNumbers) ELSE {}) :
        /\ KeyFree(r.model, t, key, i)
        /\ rows' = [rows EXCEPT ![i].to = to, ![i].status = s,
              ![i].recent = recent, ![i].tenant = t, ![i].key = key,
              ![i].number = number]
        /\ disturbed' = IF /\ recent = rows[i].recent
                           /\ t = rows[i].tenant
                           /\ number = rows[i].number
                        THEN disturbed
                        ELSE disturbed \union
                               {<<r.model, rows[i].tenant>>, <<r.model, t>>}
        /\ mixed' = (mixed \/ c.context # c.tenant \/ t # rows[i].tenant)
  BY <1>1, Zenon
<1>4. rows' = [rows EXCEPT ![i] = Updated(rows[i], to, s, recent, t, key, number)]
  BY <1>2, <1>3 DEF RowsOK, Updated
<1>5. /\ t \in IF rows[i].model = "Workflow" THEN {rows[i].tenant} ELSE Tenants
      /\ key \in BodyKeys(rows[i].model) \union {rows[i].key}
      /\ number \in {rows[i].number} \union
           (IF rows[i].model = "Contract" THEN Nullable(ChosenNumbers) ELSE {})
      /\ KeyFree(rows[i].model, t, key, i)
      /\ disturbed' = IF /\ recent = rows[i].recent /\ t = rows[i].tenant
                         /\ number = rows[i].number
                      THEN disturbed
                      ELSE disturbed \union {<<rows[i].model, rows[i].tenant>>,
                                             <<rows[i].model, t>>}
  BY <1>2, <1>3
<1>6. Updates(c, i, to, s, recent, t, key, number)
  BY <1>1, <1>2, <1>3, <1>4, <1>5, Zenon DEF Updates
<1> QED
  BY <1>2, <1>6, Zenon

\* The values an update gives, by type; only it moves a row.
LEMMA UpdateTypes ==
  ASSUME RecordsTypeOK, NEW c, NEW i \in Ids, NEW to, NEW s, NEW recent, NEW t,
         NEW key, NEW number, Updates(c, i, to, s, recent, t, key, number),
         NEW q, q = Updated(rows[i], to, s, recent, t, key, number)
  PROVE  /\ IsRow(q) /\ q.model = rows[i].model
         /\ q.to = to /\ q.recent = recent /\ q.tenant = t /\ q.key = key
         /\ q.number = number
         /\ rows' = [rows EXCEPT ![i] = q]
         /\ rows[i].model \in SCOPED_MODELS
         /\ t \in Tenants /\ rows[i].tenant \in Tenants
<1>1. /\ rows[i] # None /\ \E r \in Offered("update") : r.model = rows[i].model
      /\ to \in Patched(c, i) /\ s \in Statuses /\ recent \in BOOLEAN
      /\ t \in IF rows[i].model = "Workflow" THEN {rows[i].tenant} ELSE Tenants
      /\ key \in BodyKeys(rows[i].model) \union {rows[i].key}
      /\ number \in {rows[i].number} \union
           (IF rows[i].model = "Contract" THEN Nullable(ChosenNumbers) ELSE {})
      /\ rows' = [rows EXCEPT ![i] = q]
  BY DEF Updates
<1>2. IsRow(rows[i]) /\ RowsOK
  BY <1>1, RowsTyped DEF RowsOK
<1>3. /\ rows[i].model \in Models /\ rows[i].tenant \in Nullable(Tenants)
      /\ rows[i].number \in Nullable(Nat) /\ rows[i].key \in Nullable(Keys)
      /\ rows[i].tenant = None <=> rows[i].model \in Untenanted
  BY <1>2, RowParts
<1>4. rows[i].model \in SCOPED_MODELS
  BY <1>1, StoryOK, ScopedRoutes DEF Offered
<1>5. rows[i].tenant \in Tenants /\ rows[i].model \notin Untenanted
  BY <1>3, <1>4, ScopedTenanted DEF Nullable
<1>6. t \in Tenants
  BY <1>1, <1>5
<1>7. t \in Nullable(Tenants) /\ (t = None <=> rows[i].model \in Untenanted)
  BY <1>5, <1>6, BackofficeAssumption DEF Nullable
<1>8. key \in Nullable(Keys)
  BY <1>1, <1>3, BodyKeysTypes
<1>9. number \in Nullable(Nat)
  BY <1>1, <1>3, BackofficeAssumption DEF Nullable
<1>10. to \in Targets(rows[i].model)
  BY <1>1, <1>2, PatchedTypes
<1>11. /\ IsRow(q) /\ q.model = rows[i].model
       /\ q.to = to /\ q.recent = recent /\ q.tenant = t /\ q.key = key
       /\ q.number = number
  BY <1>1, <1>2, <1>7, <1>8, <1>9, <1>10, UpdatedRow
<1> QED
  BY <1>1, <1>4, <1>5, <1>6, <1>11

\* What a change of the status of row i does.
Marks(c, i, s) ==
  /\ rows[i] # None /\ \E r \in Offered("status") : r.model = rows[i].model
  /\ Spend
  /\ Visible(c, i)
  /\ rows' = [rows EXCEPT ![i].status = s]
  /\ crossed' = crossed \union Foreign(c, {i})
  /\ UNCHANGED <<spent, work, story, disturbed, reached, mixed, paidRuns, faults>>

LEMMA SetStatusShape ==
  ASSUME NEW c, SetStatus(c)
  PROVE  \E i \in Ids : \E s \in Statuses : Marks(c, i, s)
<1>0. PICK r \in Offered("status") : \E i \in OfModel(r.model) :
        /\ Spend
        /\ Visible(c, i)
        /\ \E s \in Statuses : rows' = [rows EXCEPT ![i].status = s]
        /\ crossed' = crossed \union Foreign(c, {i})
        /\ UNCHANGED <<spent, work, story, disturbed, reached, mixed, paidRuns,
                       faults>>
  BY Zenon DEF SetStatus
<1>1. PICK i \in OfModel(r.model) :
        /\ Spend
        /\ Visible(c, i)
        /\ \E s \in Statuses : rows' = [rows EXCEPT ![i].status = s]
        /\ crossed' = crossed \union Foreign(c, {i})
        /\ UNCHANGED <<spent, work, story, disturbed, reached, mixed, paidRuns,
                       faults>>
  BY <1>0, Zenon
<1>2. i \in Ids /\ rows[i] # None /\ rows[i].model = r.model
  BY OfModelRows
<1> QED
  BY <1>1, <1>2 DEF Marks

\* What a deletion of row i does: the doomed rows go, the others lose their
\* loose references to them.
Unlinked(j, S) ==
  [rows[j] EXCEPT !.to = [f \in DOMAIN rows[j].to |->
     IF /\ Columns[rows[j].model][f].onDelete = "SetNull"
        /\ rows[j].to[f] \in S
     THEN None ELSE rows[j].to[f]]]

Deletes(c, i, doomed) ==
  /\ rows[i] # None /\ \E r \in Offered("delete") : r.model = rows[i].model
  /\ doomed = {i} \union Dependents({i}, "Cascade")
  /\ Dependents(doomed, "Restrict") \subseteq doomed
  /\ Spend /\ Visible(c, i) /\ Disturb(doomed)
  /\ crossed' = crossed \union Foreign(c, {i})
  /\ reached' = reached \union
       Foreign(c, (doomed \union Dependents(doomed, "SetNull")) \ {i})
  /\ DOMAIN rows' = Ids
  /\ \A j \in Ids : rows'[j] = IF j \in doomed \/ rows[j] = None THEN None
                              ELSE Unlinked(j, doomed)
  /\ UNCHANGED <<spent, work, story, mixed, paidRuns, faults>>

LEMMA DeleteShape ==
  ASSUME NEW c, Delete(c)
  PROVE  \E i \in Ids : \E doomed \in SUBSET Ids : Deletes(c, i, doomed)
<1>0. PICK r \in Offered("delete") : \E i \in OfModel(r.model) : \E doomed :
        /\ doomed = {i} \union Dependents({i}, "Cascade")
        /\ Spend
        /\ Visible(c, i)
        /\ Dependents(doomed, "Restrict") \subseteq doomed
        /\ rows' = [j \in Ids |->
             IF j \in doomed \/ rows[j] = None THEN None
             ELSE Unlinked(j, doomed)]
        /\ Disturb(doomed)
        /\ crossed' = crossed \union Foreign(c, {i})
        /\ reached' = reached \union
             Foreign(c, (doomed \union (Dependents(doomed, "SetNull") \ doomed))
                          \ {i})
        /\ UNCHANGED <<spent, work, story, mixed, paidRuns, faults>>
  BY DEF Delete, Unlinked
<1>1. PICK i \in OfModel(r.model) : \E doomed :
        /\ doomed = {i} \union Dependents({i}, "Cascade")
        /\ Spend
        /\ Visible(c, i)
        /\ Dependents(doomed, "Restrict") \subseteq doomed
        /\ rows' = [j \in Ids |->
             IF j \in doomed \/ rows[j] = None THEN None
             ELSE Unlinked(j, doomed)]
        /\ Disturb(doomed)
        /\ crossed' = crossed \union Foreign(c, {i})
        /\ reached' = reached \union
             Foreign(c, (doomed \union (Dependents(doomed, "SetNull") \ doomed))
                          \ {i})
        /\ UNCHANGED <<spent, work, story, mixed, paidRuns, faults>>
  BY <1>0
<1>2. PICK doomed :
        /\ doomed = {i} \union Dependents({i}, "Cascade")
        /\ Spend
        /\ Visible(c, i)
        /\ Dependents(doomed, "Restrict") \subseteq doomed
        /\ rows' = [j \in Ids |->
             IF j \in doomed \/ rows[j] = None THEN None
             ELSE Unlinked(j, doomed)]
        /\ Disturb(doomed)
        /\ crossed' = crossed \union Foreign(c, {i})
        /\ reached' = reached \union
             Foreign(c, (doomed \union (Dependents(doomed, "SetNull") \ doomed))
                          \ {i})
        /\ UNCHANGED <<spent, work, story, mixed, paidRuns, faults>>
  BY <1>1
<1>3. i \in Ids /\ rows[i] # None /\ rows[i].model = r.model
  BY OfModelRows
<1>4. doomed \in SUBSET Ids
  BY <1>2, <1>3 DEF Dependents, Rows
<1>5. (doomed \union (Dependents(doomed, "SetNull") \ doomed)) \ {i}
        = (doomed \union Dependents(doomed, "SetNull")) \ {i}
  OBVIOUS
<1>6. reached' = reached \union
        Foreign(c, (doomed \union Dependents(doomed, "SetNull")) \ {i})
  BY <1>2, <1>5
<1> QED
  BY <1>2, <1>3, <1>4, <1>6 DEF Deletes

LEMMA UnlinkedTypes ==
  ASSUME RowsOK, NEW j \in Ids, rows[j] # None, NEW S
  PROVE  /\ IsRow(Unlinked(j, S))
         /\ Unlinked(j, S).model = rows[j].model
         /\ Unlinked(j, S).tenant = rows[j].tenant
         /\ Unlinked(j, S).number = rows[j].number
         /\ Unlinked(j, S).recent = rows[j].recent
         /\ Unlinked(j, S).key = rows[j].key
         /\ \A f \in Fields(rows[j].model) :
              Unlinked(j, S).to[f] =
                IF /\ Columns[rows[j].model][f].onDelete = "SetNull"
                   /\ rows[j].to[f] \in S
                THEN None ELSE rows[j].to[f]
<1>1. PICK q : q = [f \in DOMAIN rows[j].to |->
                     IF /\ Columns[rows[j].model][f].onDelete = "SetNull"
                        /\ rows[j].to[f] \in S
                     THEN None ELSE rows[j].to[f]]
  OBVIOUS
<1>2. /\ IsRow(rows[j]) /\ rows[j].to \in Targets(rows[j].model)
      /\ DOMAIN rows[j].to = Fields(rows[j].model)
  BY DEF RowsOK, IsRow, Targets
<1>3. q \in Targets(rows[j].model)
  BY <1>1, <1>2 DEF Targets, Nullable
<1>4. IsRow(WithTo(rows[j], q)) /\ WithTo(rows[j], q).to = q
  BY <1>2, <1>3, RelinkedRow
<1>5. Unlinked(j, S) = WithTo(rows[j], q)
  BY <1>1 DEF Unlinked, WithTo
<1>7. \A f \in Fields(rows[j].model) :
        q[f] = IF /\ Columns[rows[j].model][f].onDelete = "SetNull"
                  /\ rows[j].to[f] \in S
               THEN None ELSE rows[j].to[f]
  BY <1>1, <1>2
<1>8. /\ Unlinked(j, S).model = rows[j].model
      /\ Unlinked(j, S).tenant = rows[j].tenant
      /\ Unlinked(j, S).number = rows[j].number
      /\ Unlinked(j, S).recent = rows[j].recent
      /\ Unlinked(j, S).key = rows[j].key
  BY <1>2, <1>5 DEF IsRow, RowTypes, WithTo
<1> QED
  BY <1>4, <1>5, <1>7, <1>8

\* What the writes of one query do to the rows.
WriteOK ==
  /\ RowsOK'
  /\ budget' \in Nat /\ UNCHANGED <<work, story, faults>>
  /\ disturbed' \subseteq Models \X Tenants
  /\ crossed' \subseteq Models /\ reached' \subseteq Models
  /\ mixed' \in BOOLEAN

LEMMA SpendTypes == RecordsTypeOK /\ Spend => budget' \in Nat
BY DEF RecordsTypeOK, Spend

LEMMA WriteTypes ==
  ASSUME RecordsTypeOK, NEW c \in Callers, Write(c)
  PROVE  WriteOK
<1> USE RowsTyped DEF WriteOK
<1>0. /\ disturbed \subseteq Models \X Tenants /\ crossed \subseteq Models
      /\ reached \subseteq Models /\ mixed \in BOOLEAN
      /\ Story.routes \subseteq AllRoutes /\ Story.keys \subseteq Keys
      /\ RowsOK
  BY StoryOK DEF RecordsTypeOK
<1>1. CASE Create(c)
  <2>0. PICK r \in Offered("create") :
          \E to \in Bodies(c, r.model), key \in BodyKeys(r.model) :
          /\ Spend
          /\ Store(Row(r.model, c.tenant, to, TRUE, None, key))
          /\ Mix(c)
          /\ UNCHANGED <<work, story, disturbed, crossed, reached, paidRuns, faults>>
    BY <1>1, Zenon DEF Create
  <2>1. PICK to \in Bodies(c, r.model), key \in BodyKeys(r.model) :
          /\ Spend
          /\ Store(Row(r.model, c.tenant, to, TRUE, None, key))
          /\ Mix(c)
          /\ UNCHANGED <<work, story, disturbed, crossed, reached, paidRuns, faults>>
    BY <2>0, Zenon
  <2>2. r.model \in Models /\ c.tenant \in Tenants
    BY <1>0, ModelsOfRoutes DEF Offered, Callers
  <2>3. to \in Targets(r.model) /\ key \in Nullable(Keys)
    BY <2>2, BodiesTypes, BodyKeysTypes
  <2>4. IsRow(Row(r.model, c.tenant, to, TRUE, None, key))
    BY <2>2, <2>3, RowIsRow, NullIsNullable
  <2>5. RowsOK'
    BY <1>0, <2>1, <2>4, StoreTypes
  <2>6. mixed' \in BOOLEAN
    BY <2>1 DEF Mix
  <2> QED
    BY <1>0, <2>1, <2>5, <2>6, SpendTypes
<1>2. CASE Update(c)
  <2>1. PICK i \in Ids : \E to, s, recent, t, key, number :
          Updates(c, i, to, s, recent, t, key, number)
    BY <1>0, <1>2, UpdateShape
  <2>2. PICK to, s, recent, t, key, number :
          Updates(c, i, to, s, recent, t, key, number)
    BY <2>1
  <2>3. PICK q : q = Updated(rows[i], to, s, recent, t, key, number)
    OBVIOUS
  <2>4. /\ IsRow(q) /\ rows' = [rows EXCEPT ![i] = q]
        /\ t \in Tenants /\ rows[i].tenant \in Tenants
    BY <2>2, <2>3, UpdateTypes
  <2>5. /\ rows[i] # None /\ Spend
        /\ \/ disturbed' = disturbed
           \/ disturbed' = disturbed \union {<<rows[i].model, rows[i].tenant>>,
                                              <<rows[i].model, t>>}
        /\ mixed' \in BOOLEAN
        /\ crossed' = crossed \union Foreign(c, {i})
        /\ UNCHANGED <<spent, work, story, reached, faults>>
    BY <2>2 DEF Updates
  <2>6. rows[i].model \in Models
    BY <1>0, <2>5, RowParts DEF RowsOK
  <2>7. RowsOK'
    BY <1>0, <2>4, <2>5, ChangeTypes
  <2>8. disturbed' \subseteq Models \X Tenants
    BY <1>0, <2>4, <2>5, <2>6
  <2>9. crossed' \subseteq Models
    <3>1. Foreign(c, {i}) \subseteq Models
      BY <1>0, <2>5, ForeignTypes
    <3> QED
      BY <1>0, <2>5, <3>1
  <2> QED
    BY <1>0, <2>5, <2>7, <2>8, <2>9, SpendTypes
<1>3. CASE SetStatus(c)
  <2>1. PICK i \in Ids : \E s \in Statuses : Marks(c, i, s)
    BY <1>3, SetStatusShape
  <2>2. PICK s \in Statuses : Marks(c, i, s)
    BY <2>1
  <2>3. rows[i] # None /\ IsRow(rows[i])
    BY <1>0, <2>2 DEF RowsOK, Marks
  <2>4. PICK q : q = [rows[i] EXCEPT !.status = s]
    OBVIOUS
  <2>5. IsRow(q)
    BY <2>3, <2>4, MarkedRow
  <2>6. rows' = [rows EXCEPT ![i] = q] /\ spent' = spent
    BY <1>0, <2>2, <2>3, <2>4 DEF RowsOK, Marks
  <2>7. RowsOK'
    BY <1>0, <2>3, <2>5, <2>6, ChangeTypes
  <2>8. crossed' \subseteq Models
    <3>1. Foreign(c, {i}) \subseteq Models
      BY <1>0, <2>3, ForeignTypes
    <3> QED
      BY <1>0, <2>2, <3>1 DEF Marks
  <2> QED
    BY <1>0, <2>2, <2>7, <2>8, SpendTypes DEF Marks
<1>4. CASE Delete(c)
  <2>1. PICK i \in Ids : \E doomed \in SUBSET Ids : Deletes(c, i, doomed)
    BY <1>0, <1>4, DeleteShape
  <2>2. PICK doomed \in SUBSET Ids : Deletes(c, i, doomed)
    BY <2>1
  <2>3. RowsOK'
    <3>1. \A j \in Ids \ doomed : rows[j] # None => IsRow(Unlinked(j, doomed))
      BY <1>0, UnlinkedTypes
    <3> QED
      BY <1>0, <2>2, <3>1 DEF RowsOK, Deletes
  <2>4. rows[i] # None
    BY <2>2 DEF Deletes
  <2>5. /\ \A j \in doomed : rows[j] # None
        /\ \A j \in Dependents(doomed, "SetNull") : j \in Ids /\ rows[j] # None
    BY <2>2, <2>4 DEF Deletes, Dependents, Rows
  <2>6. disturbed' \subseteq Models \X Tenants
    BY <1>0, <2>2, <2>5, DisturbTypes DEF Deletes
  <2>7. PICK S \in SUBSET Ids :
          S = (doomed \union Dependents(doomed, "SetNull")) \ {i}
    BY <2>5
  <2>8. Foreign(c, {i}) \subseteq Models /\ Foreign(c, S) \subseteq Models
    BY <1>0, <2>4, <2>5, <2>7, ForeignTypes
  <2>9. crossed' \subseteq Models /\ reached' \subseteq Models
    BY <1>0, <2>2, <2>7, <2>8 DEF Deletes
  <2> QED
    BY <1>0, <2>2, <2>3, <2>6, <2>9, SpendTypes DEF Deletes
<1>5. CASE Install(c)
  <2>1. PICK r \in Offered("install"), key \in Story.keys :
          LET found == Keyed(r.model, c.tenant, key)
          IN /\ Spend
             /\ \/ Store(Row(r.model, c.tenant, <<>>, TRUE, None, key))
                \/ /\ rows' = [j \in Ids |-> IF j \in found
                         THEN [rows[j] EXCEPT !.status = "first"] ELSE rows[j]]
                   /\ UNCHANGED spent
             /\ UNCHANGED <<work, story, disturbed, tenancyVars, paidRuns, faults>>
    BY <1>5 DEF Install
  <2>0. key \in Nullable(Keys)
    BY <1>0, NullIsNullable
  <2>2. PICK found : found = Keyed(r.model, c.tenant, key)
    OBVIOUS
  <2>3. found \in SUBSET Ids /\ \A i \in found : rows[i] # None
    BY <2>2, OfModelRows DEF Keyed
  <2>4. CASE Store(Row(r.model, c.tenant, <<>>, TRUE, None, key))
    <3>1. r.model = "Plugin" /\ c.tenant \in Tenants
      BY <1>0, RoutesOfNumbers DEF Offered, Callers
    <3>2. <<>> \in Targets("Plugin") /\ "Plugin" \in Models
      BY FieldsOfModels DEF Targets, Plain
    <3>3. IsRow(Row(r.model, c.tenant, <<>>, TRUE, None, key))
      BY <2>0, <3>1, <3>2, RowIsRow, NullIsNullable
    <3> QED
      BY <1>0, <2>1, <2>4, <3>3, StoreTypes, SpendTypes DEF tenancyVars
  <2>5. CASE /\ rows' = [j \in Ids |-> IF j \in found
                         THEN [rows[j] EXCEPT !.status = "first"] ELSE rows[j]]
             /\ UNCHANGED spent
    <3>1. \A j \in found : IsRow([rows[j] EXCEPT !.status = "first"])
      BY <1>0, <2>3, MarkedRow DEF RowsOK, Statuses
    <3>2. RowsOK'
      BY <1>0, <2>3, <2>5, <3>1 DEF RowsOK
    <3> QED
      BY <1>0, <2>1, <3>2, SpendTypes DEF tenancyVars
  <2> QED
    BY <2>1, <2>2, <2>4, <2>5
<1> QED
  BY <1>1, <1>2, <1>3, <1>4, <1>5 DEF Write


-----------------------------------------------------------------------------
(* The requests of several queries, and the types of every step.           *)

LEMMA JobOfAwait ==
  ASSUME NEW j, JobOK(j)
  PROVE  /\ j.at = "insert" => j \in Inserting /\ j.to \in Targets(j.model)
         /\ j.at = "slips" => j \in Paying
         /\ j.at = "branding" => j \in Painting
         /\ j.at = "seed" => IsSeeding(j)
         /\ j.at = "idle" <=> j = Idle
         /\ j.at \in {"idle", "insert", "slips", "branding", "seed"}
<1>1. CASE j = Idle
  BY <1>1 DEF Idle
<1>2. CASE j \in Inserting /\ j.to \in Targets(j.model)
  BY <1>2 DEF Inserting, Idle
<1>3. CASE j \in Paying
  BY <1>3 DEF Paying, Idle
<1>4. CASE j \in Painting
  BY <1>4 DEF Painting, Idle
<1>5. CASE IsSeeding(j)
  <2>1. j.at = "seed"
    BY <1>5 DEF IsSeeding
  <2> QED
    BY <1>5, <2>1 DEF Idle
<1> QED
  BY <1>1, <1>2, <1>3, <1>4, <1>5 DEF JobOK

AwaitsOK ==
  \A w \in Workers : work[w].at \in {"idle", "insert", "slips", "branding", "seed"}

\* One request goes on.
LEMMA SetJob ==
  ASSUME JobsOK, NEW w \in Workers, NEW j, JobOK(j),
         work' = [work EXCEPT ![w] = j]
  PROVE  /\ JobsOK' /\ AwaitsOK'
         /\ work'[w] = j /\ \A v \in Workers \ {w} : work'[v] = work[v]
<1>1. /\ work' = [v \in Workers |-> work'[v]] /\ work'[w] = j
      /\ \A v \in Workers \ {w} : work'[v] = work[v]
  BY DEF JobsOK
<1>2. \A v \in Workers : JobOK(work'[v])
  BY <1>1 DEF JobsOK
<1>3. JobsOK'
  BY <1>1, <1>2 DEF JobsOK
<1>4. AwaitsOK'
  BY <1>2, JobOfAwait DEF AwaitsOK
<1> QED
  BY <1>1, <1>3, <1>4

LEMMA KeepJobs ==
  ASSUME TypeInv, UNCHANGED work
  PROVE  JobsOK' /\ AwaitsOK'
BY DEF TypeInv, JobsOK, AwaitsOK, BackofficeTypeOK, RecordsTypeOK

\* The audit's counters and the other variables around the rows.
AroundOK ==
  /\ branding \in [Tenants -> [BrandFields -> Brands]]
  /\ latest \in [Tenants -> [BrandFields -> Brands]]
  /\ raced \subseteq Tenants
  /\ answered \in Nat /\ logged \in Nat /\ seeds \in Nat
  /\ pending \in [Contexts -> Nat]

LimitsOK ==
  /\ budget \in Nat /\ story \in DOMAIN Stories /\ faults \in 0..MaxFaults
  /\ disturbed \subseteq Models \X Tenants
  /\ crossed \subseteq Models /\ reached \subseteq Models /\ mixed \in BOOLEAN

LEMMA TypeParts == TypeInv <=> RowsOK /\ JobsOK /\ AwaitsOK /\ AroundOK /\ LimitsOK
BY DEF TypeInv, BackofficeTypeOK, RecordsTypeOK, RowsOK, AwaitsOK, AroundOK,
       LimitsOK, Rows

LEMMA TypePartsNext ==
  ASSUME RowsOK', JobsOK', AwaitsOK', AroundOK', LimitsOK'
  PROVE  TypeInv'
BY DEF TypeInv, BackofficeTypeOK, RecordsTypeOK, RowsOK, AwaitsOK, AroundOK,
       LimitsOK, Rows

LEMMA AfterMutationTypes ==
  ASSUME AroundOK, NEW c \in Callers, AfterMutation(c)
  PROVE  /\ answered' \in Nat /\ pending' \in [Contexts -> Nat]
         /\ UNCHANGED logged
BY DEF AroundOK, AfterMutation, Audit, Callers

LEMMA WriteStepTypes ==
  ASSUME TypeInv, NEW c \in Story.callers, Write(c), AfterMutation(c),
         Surroundings
  PROVE  TypeInv'
<1>1. c \in Callers /\ RecordsTypeOK
  BY StoryOK DEF TypeInv, BackofficeTypeOK
<1>2. WriteOK
  BY <1>1, WriteTypes
<1>3. JobsOK' /\ AwaitsOK'
  BY <1>2, KeepJobs DEF WriteOK
<1>4. AroundOK'
  BY <1>1, AfterMutationTypes, TypeParts DEF AroundOK, Surroundings, brandingVars
<1>5. LimitsOK'
  BY <1>2, TypeParts DEF LimitsOK, WriteOK
<1>6. RowsOK'
  BY <1>2 DEF WriteOK
<1> QED
  BY <1>3, <1>4, <1>5, <1>6, TypePartsNext

\* What is left alone keeps its types.
LEMMA KeepRows ==
  ASSUME RowsOK, UNCHANGED <<rows, spent>>
  PROVE  RowsOK'
BY DEF RowsOK

\* What a count counts.
CountedRows(c, model) ==
  {i \in OfModel(model) : Visible(c, i) /\ (model \in Undated \/ rows[i].recent)}

LEMMA CountType ==
  ASSUME NEW c, NEW model
  PROVE  /\ CountedRows(c, model) \in SUBSET Ids
         /\ Count(c, model) = Cardinality(CountedRows(c, model))
         /\ Count(c, model) \in Nat
<1>1. CountedRows(c, model) \in SUBSET Ids
  BY DEF CountedRows, OfModel, Rows
<1>2. Count(c, model) = Cardinality(CountedRows(c, model))
  BY DEF CountedRows, Count
<1> QED
  BY <1>1, <1>2, BackofficeAssumption, FS_Subset, FS_CardinalityType

\* What the count of a numbered document does.
BeginsNumber(w, c, model, to, number, recent) ==
  /\ number \in {Count(c, model) + 1} \union
       (IF model \in OwnNumbers THEN Nullable(ChosenNumbers) ELSE {})
  /\ ~recent => model \in OwnDates
  /\ work[w] = Idle
  /\ Spend
  /\ work' = [work EXCEPT ![w] =
       [at |-> "insert", caller |-> c, model |-> model, to |-> to,
        recent |-> recent, number |-> number]]
  /\ disturbed' =
       IF \/ c.context # c.tenant
          \/ number \notin {None, Count(c, model) + 1}
          \/ \E v \in Workers : /\ work[v].at = "insert"
                                /\ work[v].model = model
                                /\ work[v].caller.tenant = c.tenant
       THEN disturbed \union {<<model, c.tenant>>} ELSE disturbed
  /\ Mix(c)
  /\ UNCHANGED <<rows, spent, story, crossed, reached, paidRuns, faults>>

LEMMA BeginNumberShape ==
  ASSUME NEW w, NEW c, BeginNumber(w, c)
  PROVE  \E r \in Offered("number") : \E to \in Bodies(c, r.model),
           recent \in BOOLEAN : \E number :
             BeginsNumber(w, c, r.model, to, number, recent)
<1>1. PICK r \in Offered("number") :
        \E to \in Bodies(c, r.model),
           number \in {Count(c, r.model) + 1} \union
             (IF r.model \in OwnNumbers THEN Nullable(ChosenNumbers) ELSE {}),
           recent \in IF r.model \in OwnDates THEN BOOLEAN ELSE {TRUE} :
            /\ work[w] = Idle
            /\ Spend
            /\ work' = [work EXCEPT ![w] =
                 [at |-> "insert", caller |-> c, model |-> r.model, to |-> to,
                  recent |-> recent, number |-> number]]
            /\ disturbed' =
                 IF \/ c.context # c.tenant
                    \/ number \notin {None, Count(c, r.model) + 1}
                    \/ \E v \in Workers : /\ work[v].at = "insert"
                                          /\ work[v].model = r.model
                                          /\ work[v].caller.tenant = c.tenant
                 THEN disturbed \union {<<r.model, c.tenant>>} ELSE disturbed
            /\ Mix(c)
            /\ UNCHANGED <<rows, spent, story, crossed, reached, paidRuns, faults>>
  BY Zenon DEF BeginNumber
<1>2. PICK to \in Bodies(c, r.model),
           number \in {Count(c, r.model) + 1} \union
             (IF r.model \in OwnNumbers THEN Nullable(ChosenNumbers) ELSE {}),
           recent \in IF r.model \in OwnDates THEN BOOLEAN ELSE {TRUE} :
            /\ work[w] = Idle
            /\ Spend
            /\ work' = [work EXCEPT ![w] =
                 [at |-> "insert", caller |-> c, model |-> r.model, to |-> to,
                  recent |-> recent, number |-> number]]
            /\ disturbed' =
                 IF \/ c.context # c.tenant
                    \/ number \notin {None, Count(c, r.model) + 1}
                    \/ \E v \in Workers : /\ work[v].at = "insert"
                                          /\ work[v].model = r.model
                                          /\ work[v].caller.tenant = c.tenant
                 THEN disturbed \union {<<r.model, c.tenant>>} ELSE disturbed
            /\ Mix(c)
            /\ UNCHANGED <<rows, spent, story, crossed, reached, paidRuns, faults>>
  BY <1>1, Zenon
<1>3. recent \in BOOLEAN /\ (~recent => r.model \in OwnDates)
  BY <1>2, Zenon
<1>4. number \in {Count(c, r.model) + 1} \union
        (IF r.model \in OwnNumbers THEN Nullable(ChosenNumbers) ELSE {})
  BY <1>2
<1>5. BeginsNumber(w, c, r.model, to, number, recent)
  BY <1>2, <1>3, <1>4, Zenon DEF BeginsNumber
<1> QED
  BY <1>3, <1>5, Zenon

LEMMA BeginTypes ==
  ASSUME TypeInv, NEW c \in Story.callers, NEW w \in Workers,
         \/ Begin(w, c) /\ UNCHANGED auditVars /\ Surroundings
         \/ BeginBranding(w, c)
  PROVE  TypeInv'
<1>0. c \in Callers /\ RecordsTypeOK /\ Story.routes \subseteq AllRoutes
  BY StoryOK DEF TypeInv, BackofficeTypeOK
<1>1. RowsOK /\ JobsOK /\ AwaitsOK /\ AroundOK /\ LimitsOK
  BY TypeParts
<1>2. ASSUME BeginNumber(w, c), UNCHANGED auditVars, Surroundings
      PROVE  TypeInv'
  <2>1. PICK r \in Offered("number") :
         \E to \in Bodies(c, r.model), recent \in BOOLEAN, n \in Nullable(Nat) :
          /\ work' = [work EXCEPT ![w] =
               [at |-> "insert", caller |-> c, model |-> r.model, to |-> to,
                recent |-> recent, number |-> n]]
          /\ Spend /\ Mix(c)
          /\ \/ disturbed' = disturbed
             \/ disturbed' = disturbed \union {<<r.model, c.tenant>>}
          /\ UNCHANGED <<rows, spent, story, crossed, reached, paidRuns, faults>>
    <3>1. \A model : Count(c, model) \in Nat
      BY CountType
    <3>2. PICK r \in Offered("number") :
            \E to \in Bodies(c, r.model), recent \in BOOLEAN : \E n :
              BeginsNumber(w, c, r.model, to, n, recent)
      BY <1>2, BeginNumberShape
    <3>3. PICK to \in Bodies(c, r.model), recent \in BOOLEAN : \E n :
            BeginsNumber(w, c, r.model, to, n, recent)
      BY <3>2
    <3>4. PICK n : BeginsNumber(w, c, r.model, to, n, recent)
      BY <3>3
    <3>5. n \in Nullable(Nat)
      <4>1. \/ n = Count(c, r.model) + 1
            \/ n \in ChosenNumbers \union {None}
        BY <3>4 DEF BeginsNumber, Nullable
      <4>2. ChosenNumbers \subseteq Nat
        BY BackofficeAssumption
      <4>3. PICK k \in Nat : k = Count(c, r.model)
        BY CountType
      <4>4. n = k + 1 \/ n \in Nat \/ n = None
        BY <4>1, <4>2, <4>3
      <4>5. k + 1 \in Nat
        OBVIOUS
      <4> QED
        BY <4>4, <4>5, Zenon DEF Nullable
    <3> QED
      BY <3>4, <3>5 DEF BeginsNumber
  <2>2. PICK to \in Bodies(c, r.model), recent \in BOOLEAN, n \in Nullable(Nat) :
          /\ work' = [work EXCEPT ![w] =
               [at |-> "insert", caller |-> c, model |-> r.model, to |-> to,
                recent |-> recent, number |-> n]]
          /\ Spend /\ Mix(c)
          /\ \/ disturbed' = disturbed
             \/ disturbed' = disturbed \union {<<r.model, c.tenant>>}
          /\ UNCHANGED <<rows, spent, story, crossed, reached, paidRuns, faults>>
    BY <2>1
  <2>3. r.model \in NumberModels /\ r.model \in Models /\ c.tenant \in Tenants
    BY <1>0, RoutesOfNumbers, ModelsOfRoutes DEF Offered, Callers
  <2>4. to \in Targets(r.model)
    BY <1>0, <2>3, BodiesTypes
  <2>5. PICK j : j = [at |-> "insert", caller |-> c, model |-> r.model,
                      to |-> to, recent |-> recent, number |-> n]
    OBVIOUS
  <2>6. JobOK(j)
    BY <1>0, <2>3, <2>4, <2>5 DEF JobOK, Inserting
  <2>7. JobsOK' /\ AwaitsOK'
    BY <1>1, <2>2, <2>5, <2>6, SetJob
  <2>8. LimitsOK'
    BY <1>0, <1>1, <2>2, <2>3, SpendTypes DEF LimitsOK, Mix
  <2>9. AroundOK'
    BY <1>1, <1>2 DEF AroundOK, auditVars, Surroundings, brandingVars
  <2> QED
    BY <1>1, <2>2, <2>7, <2>8, <2>9, KeepRows, TypePartsNext
<1>3. ASSUME BeginPayroll(w, c), UNCHANGED auditVars, Surroundings
      PROVE  TypeInv'
  <2>1. PICK S \in SUBSET Ids :
          work' = [work EXCEPT ![w] =
            [at |-> "slips", caller |-> c, left |-> S, found |-> S, slips |-> {}]]
    BY <1>3 DEF BeginPayroll, OfModel, Rows
  <2>2. PICK j : j = [at |-> "slips", caller |-> c, left |-> S, found |-> S,
                      slips |-> {}]
    OBVIOUS
  <2>3. JobOK(j)
    BY <1>0, <2>2 DEF JobOK, Paying
  <2>4. JobsOK' /\ AwaitsOK'
    BY <1>1, <2>1, <2>2, <2>3, SetJob
  <2>5. LimitsOK' /\ RowsOK'
    BY <1>0, <1>1, <1>3, SpendTypes, KeepRows DEF LimitsOK, BeginPayroll, Mix
  <2>6. AroundOK'
    BY <1>1, <1>3 DEF AroundOK, auditVars, Surroundings, brandingVars
  <2> QED
    BY <2>4, <2>5, <2>6, TypePartsNext
<1>4. ASSUME BeginBranding(w, c)
      PROVE  TypeInv'
  <2>1. PICK patch \in Patches :
          work' = [work EXCEPT ![w] = [at |-> "branding", caller |-> c,
                     patch |-> patch, merged |-> Merged(c.tenant, patch)]]
    BY <1>4 DEF BeginBranding
  <2>2. Merged(c.tenant, patch) \in [BrandFields -> Brands]
    BY <1>0, <1>1 DEF Merged, Patches, AroundOK, Brands, Callers
  <2>3. PICK j : j = [at |-> "branding", caller |-> c, patch |-> patch,
                      merged |-> Merged(c.tenant, patch)]
    OBVIOUS
  <2>4. JobOK(j)
    BY <1>0, <2>2, <2>3 DEF JobOK, Painting
  <2>5. JobsOK' /\ AwaitsOK'
    BY <1>1, <2>1, <2>3, <2>4, SetJob
  <2>6. LimitsOK' /\ RowsOK'
    BY <1>0, <1>1, <1>4, SpendTypes, KeepRows
       DEF LimitsOK, BeginBranding, tenancyVars
  <2>7. AroundOK'
    BY <1>0, <1>1, <1>4 DEF AroundOK, auditVars, BeginBranding, Callers
  <2> QED
    BY <2>5, <2>6, <2>7, TypePartsNext
<1> QED
  BY <1>2, <1>3, <1>4 DEF Begin

\* The insert of a numbered document, if it goes through.
NewDocument(w) ==
  Row(work[w].model, work[w].caller.tenant, work[w].to, work[w].recent,
      work[w].number, None)

LEMMA NewDocumentIsRow ==
  ASSUME NEW w, work[w] \in Inserting, work[w].to \in Targets(work[w].model)
  PROVE  IsRow(NewDocument(w))
<1>1. /\ work[w].model \in Models /\ work[w].caller.tenant \in Tenants
      /\ work[w].recent \in BOOLEAN /\ work[w].number \in Nullable(Nat)
  BY ModelsOfNumbers DEF Inserting, Callers
<1> QED
  BY <1>1, RowIsRow, NullIsNullable DEF NewDocument

LEMMA InsertNumberedTypes ==
  ASSUME RowsOK, JobsOK, LimitsOK, NEW w \in Workers, InsertNumbered(w)
  PROVE  /\ RowsOK' /\ JobsOK' /\ AwaitsOK' /\ LimitsOK'
         /\ work[w].caller \in Callers /\ UNCHANGED <<story, faults>>
<1>1. /\ work[w] \in Inserting /\ work[w].to \in Targets(work[w].model)
  BY JobOfAwait DEF InsertNumbered, JobsOK
<1>2. /\ work[w].model \in Models /\ work[w].caller \in Callers
      /\ work[w].caller.tenant \in Tenants /\ work[w].recent \in BOOLEAN
  BY <1>1, ModelsOfNumbers DEF Inserting, Callers
<1>3. IsRow(NewDocument(w))
  BY <1>1, NewDocumentIsRow
<1>4. \/ Store(NewDocument(w))
      \/ UNCHANGED <<rows, spent>>
  BY DEF InsertNumbered, NewDocument
<1>5. RowsOK'
  BY <1>3, <1>4, StoreTypes, KeepRows
<1>6. JobsOK' /\ AwaitsOK'
  BY SetJob DEF InsertNumbered, JobOK
<1>7. \/ disturbed' = disturbed
      \/ disturbed' = disturbed \union {<<work[w].model, work[w].caller.tenant>>}
  BY DEF InsertNumbered
<1>8. LimitsOK' /\ UNCHANGED <<story, faults>>
  BY <1>2, <1>7 DEF LimitsOK, InsertNumbered, tenancyVars
<1> QED
  BY <1>2, <1>5, <1>6, <1>8

\* A slip for employee e is inserted, or e is gone.
Slip(w, e) == Row("Payslip", work[w].caller.tenant, [employee |-> e],
                  TRUE, None, None)

Paid(j, e, n) == [[j EXCEPT !.left = j.left \ {e}]
                     EXCEPT !.slips = j.slips \union {n}]

LEMMA PaidJob ==
  ASSUME NEW j \in Paying, NEW e, NEW n \in Ids
  PROVE  /\ Paid(j, e, n) \in Paying
         /\ Paid(j, e, n).caller = j.caller
         /\ Paid(j, e, n).found = j.found
         /\ Paid(j, e, n).left = j.left \ {e}
         /\ Paid(j, e, n).slips = j.slips \union {n}
BY DEF Paying, Paid

Slips(w, e) ==
  /\ work[w].at = "slips" /\ e \in work[w].left
  /\ \/ /\ rows[e] # None
        /\ Store(Slip(w, e))
        /\ work' = [work EXCEPT ![w] = Paid(work[w], e, FreshId)]
     \/ /\ rows[e] = None
        /\ work' = [work EXCEPT ![w] = Idle]
        /\ UNCHANGED <<rows, spent>>
  /\ UNCHANGED <<budget, story, disturbed, tenancyVars, paidRuns, faults>>

LEMMA InsertSlipShape ==
  ASSUME JobsOK, NEW w \in Workers, InsertSlip(w)
  PROVE  work[w] \in Paying /\ \E e \in Ids : Slips(w, e)
<1>1. work[w].at = "slips" /\ work[w] \in Paying
  BY JobOfAwait DEF InsertSlip, JobsOK
<1>2. PICK e \in work[w].left :
        IF rows[e] # None
        THEN /\ Store(Row("Payslip", work[w].caller.tenant, [employee |-> e],
                          TRUE, None, None))
             /\ work' = [work EXCEPT ![w].left = @ \ {e},
                                     ![w].slips = @ \union {FreshId}]
        ELSE /\ work' = [work EXCEPT ![w] = Idle]
             /\ UNCHANGED <<rows, spent>>
  BY DEF InsertSlip
<1>3. e \in Ids
  BY <1>1 DEF Paying
<1>4. PICK n : n = FreshId
  OBVIOUS
<1>5. [work EXCEPT ![w].left = @ \ {e}, ![w].slips = @ \union {n}]
       = [work EXCEPT ![w] = Paid(work[w], e, n)]
  BY <1>1 DEF JobsOK, Paying, Paid
<1>6. rows[e] # None => /\ Store(Slip(w, e))
                        /\ work' = [work EXCEPT ![w] = Paid(work[w], e, FreshId)]
  BY <1>2, <1>4, <1>5 DEF Slip
<1>7. UNCHANGED <<budget, story, disturbed, tenancyVars, paidRuns, faults>>
  BY DEF InsertSlip
<1>8. Slips(w, e)
  BY <1>1, <1>2, <1>6, <1>7 DEF Slips
<1> QED
  BY <1>1, <1>3, <1>8

LEMMA InsertSlipTypes ==
  ASSUME RowsOK, JobsOK, LimitsOK, NEW w \in Workers, InsertSlip(w)
  PROVE  /\ RowsOK' /\ JobsOK' /\ AwaitsOK' /\ LimitsOK'
         /\ UNCHANGED <<story, faults>>
<1>1. PICK e \in Ids : Slips(w, e)
  BY InsertSlipShape
<1>2. work[w] \in Paying
  BY InsertSlipShape
<1>3. CASE rows[e] # None
  <2>1. /\ Store(Slip(w, e))
        /\ work' = [work EXCEPT ![w] = Paid(work[w], e, FreshId)]
    BY <1>1, <1>3 DEF Slips
  <2>2. "Payslip" \in Models /\ Fields("Payslip") = {"employee"}
    BY FieldsOfModels DEF Owned
  <2>3. [employee |-> e] \in Targets("Payslip")
    BY <2>2 DEF Targets, Nullable
  <2>4. work[w].caller.tenant \in Tenants
    BY <1>2 DEF Paying, Callers
  <2>5. IsRow(Slip(w, e))
    BY <2>2, <2>3, <2>4, RowIsRow, NullIsNullable DEF Slip
  <2>6. RowsOK' /\ FreshId \in Ids
    BY <2>1, <2>5, StoreTypes
  <2>7. JobOK(Paid(work[w], e, FreshId))
    BY <1>2, <2>6, PaidJob DEF JobOK
  <2>8. JobsOK' /\ AwaitsOK'
    BY <2>1, <2>7, SetJob
  <2> QED
    BY <1>1, <2>6, <2>8 DEF Slips, LimitsOK, tenancyVars
<1>4. CASE rows[e] = None
  <2>1. work' = [work EXCEPT ![w] = Idle] /\ UNCHANGED <<rows, spent>>
    BY <1>1, <1>4 DEF Slips
  <2>2. JobsOK' /\ AwaitsOK'
    BY <2>1, SetJob DEF JobOK
  <2> QED
    BY <1>1, <2>1, <2>2, KeepRows DEF Slips, LimitsOK, tenancyVars
<1> QED
  BY <1>3, <1>4

LEMMA ContinueTypes ==
  ASSUME TypeInv, NEW w \in Workers, ContinueAudited(w)
  PROVE  TypeInv'
<1>1. RowsOK /\ JobsOK /\ AwaitsOK /\ AroundOK /\ LimitsOK
  BY TypeParts
<1>2. Surroundings
  BY DEF ContinueAudited
<1>3. CASE InsertNumbered(w) /\ (IF rows' = rows THEN UNCHANGED auditVars
                                 ELSE AfterMutation(work[w].caller))
  <2>1. /\ RowsOK' /\ JobsOK' /\ AwaitsOK' /\ LimitsOK'
        /\ work[w].caller \in Callers
    BY <1>1, <1>3, InsertNumberedTypes
  <2>2. UNCHANGED auditVars \/ AfterMutation(work[w].caller)
    BY <1>3
  <2>3. AroundOK'
    BY <1>1, <1>2, <2>1, <2>2, AfterMutationTypes
       DEF AroundOK, auditVars, Surroundings, brandingVars
  <2> QED
    BY <2>1, <2>3, TypePartsNext
<1>4. CASE InsertSlip(w) /\ UNCHANGED auditVars
  <2>1. RowsOK' /\ JobsOK' /\ AwaitsOK' /\ LimitsOK'
    BY <1>1, <1>4, InsertSlipTypes
  <2>2. AroundOK'
    BY <1>1, <1>2, <1>4 DEF AroundOK, auditVars, Surroundings, brandingVars
  <2> QED
    BY <2>1, <2>2, TypePartsNext
<1>5. CASE AnswerPayroll(w) /\ AfterMutation(work[w].caller)
  <2>1. /\ work[w].at = "slips" /\ work' = [work EXCEPT ![w] = Idle]
        /\ UNCHANGED <<rows, spent, budget, story, disturbed, tenancyVars, faults>>
    BY <1>5 DEF AnswerPayroll
  <2>2. work[w].caller \in Callers
    BY <1>1, <2>1, JobOfAwait DEF JobsOK, Paying
  <2>3. AroundOK'
    BY <1>1, <1>2, <1>5, <2>2, AfterMutationTypes
       DEF AroundOK, Surroundings, brandingVars
  <2>4. JobsOK' /\ AwaitsOK'
    BY <1>1, <2>1, SetJob DEF JobOK
  <2>5. RowsOK' /\ LimitsOK'
    BY <1>1, <2>1, KeepRows DEF LimitsOK, tenancyVars
  <2> QED
    BY <2>3, <2>4, <2>5, TypePartsNext
<1> QED
  BY <1>3, <1>4, <1>5 DEF ContinueAudited

LEMMA WriteBrandingTypes ==
  ASSUME TypeInv, NEW w \in Workers, WriteBranding(w)
  PROVE  TypeInv'
<1>1. RowsOK /\ JobsOK /\ AwaitsOK /\ AroundOK /\ LimitsOK
  BY TypeParts
<1>2. work[w] \in Painting
  BY <1>1, JobOfAwait DEF JobsOK, WriteBranding
<1>3. /\ work[w].caller \in Callers /\ work[w].caller.tenant \in Tenants
      /\ work[w].merged \in [BrandFields -> Brands] /\ work[w].patch \in Patches
  BY <1>2 DEF Painting, Callers
<1>4. JobsOK' /\ AwaitsOK'
  BY <1>1, SetJob DEF JobOK, WriteBranding
<1>5. branding' \in [Tenants -> [BrandFields -> Brands]]
  BY <1>1, <1>3 DEF WriteBranding, AroundOK
<1>6. latest' \in [Tenants -> [BrandFields -> Brands]]
  <2>1. [f \in BrandFields |-> IF f \in DOMAIN work[w].patch THEN work[w].patch[f]
                         ELSE latest[work[w].caller.tenant][f]]
          \in [BrandFields -> Brands]
    BY <1>1, <1>3 DEF AroundOK, Patches, Brands
  <2> QED
    BY <1>1, <1>3, <2>1 DEF WriteBranding, AroundOK
<1>7. AroundOK'
  BY <1>1, <1>3, <1>5, <1>6, AfterMutationTypes DEF AroundOK, WriteBranding
<1>8. RowsOK' /\ LimitsOK'
  BY <1>1, KeepRows DEF LimitsOK, WriteBranding, tenancyVars
<1> QED
  BY <1>4, <1>7, <1>8, TypePartsNext

\* The references a step of the seed gives its row, and what it remembers.
SeedTo(j) == [f \in DOMAIN Seed[j.next].to |-> j.made[Seed[j.next].to[f]]]

Remember(j, i) ==
  IF j.next = Len(Seed) THEN Idle
  ELSE [at |-> "seed", next |-> j.next + 1,
        made |-> [k \in DOMAIN j.made \union {Seed[j.next].key} |->
                    IF k = Seed[j.next].key THEN i ELSE j.made[k]]]

SeedRowOf(j) == Row(Seed[j.next].model, SeedTenant, SeedTo(j), TRUE, None,
                    Seed[j.next].key)

LEMMA SeedRowFields ==
  ASSUME NEW r, NEW m, NEW k, NEW to, r = SeedRow(m, k, to)
  PROVE  r.model = m /\ r.key = k /\ r.to = to
BY DEF SeedRow

LEMMA SeedTable ==
  /\ Len(Seed) = 9 /\ DOMAIN Seed = 1..9
  /\ Seed[1] = SeedRow("Company", "company", Nothing)
  /\ Seed[2] = SeedRow("Account", "1000", [parent |-> NoKey])
  /\ Seed[3] = SeedRow("Tax", "vat15", Nothing)
  /\ Seed[4] = SeedRow("Warehouse", "WH-MAIN", Nothing)
  /\ Seed[5] = SeedRow("Product", "COFFEE-LRG", Nothing)
  /\ Seed[6] = SeedRow("StockMove", "opening-stock",
                      [product |-> "COFFEE-LRG", to |-> "WH-MAIN", from |-> NoKey])
  /\ Seed[7] = SeedRow("Partner", "cust1", Nothing)
  /\ Seed[8] = SeedRow("Employee", "emp1", Nothing)
  /\ Seed[9] = SeedRow("PosSession", "pos1", Nothing)
BY DEF Seed, Nothing, NoKey

\* Every step refers to earlier steps, by the columns of its model.
StepOK(n) ==
  /\ Seed[n].model \in Models \ NumberModels
  /\ Seed[n].key \in Keys \ {NoKey}
  /\ DOMAIN Seed[n].to = Fields(Seed[n].model)
  /\ \A f \in DOMAIN Seed[n].to :
       Seed[n].to[f] \in {NoKey} \union {Seed[k].key : k \in 1..(n - 1)}

LEMMA KeysAreKeys ==
  NoKey \notin {"company", "1000", "vat15", "WH-MAIN", "COFFEE-LRG",
                "opening-stock", "cust1", "emp1", "pos1"}
BY Zenon DEF NoKey

LEMMA SeedSteps == Len(Seed) = 9 /\ DOMAIN Seed = 1..9 /\ \A n \in 1..9 : StepOK(n)
<1>1. ASSUME NEW n \in 1..9, NEW m \in Plain \ NumberModels, NEW key, key # NoKey,
             Seed[n] = SeedRow(m, key, Nothing)
      PROVE  StepOK(n)
  <2>1. Seed[n].model = m /\ Seed[n].key = key /\ Seed[n].to = Nothing
    BY <1>1, SeedRowFields
  <2>2. DOMAIN Seed[n].to = {}
    BY <2>1, NothingIsEmpty
  <2>3. m \in Models /\ Fields(m) = {}
    BY FieldsOfModels DEF Plain
  <2> QED
    BY <1>1, <2>1, <2>2, <2>3, SeedTable, SeedAssumption DEF StepOK
<1>2. {"Company", "Tax", "Warehouse", "Product", "Partner", "Employee",
       "PosSession"} \subseteq Plain \ NumberModels
  BY DEF Plain, NumberModels
<1>3. StepOK(1)
  BY <1>1, <1>2, SeedTable, KeysAreKeys
<1>4. StepOK(2)
  <2>1. /\ Seed[2].model = "Account" /\ Seed[2].key = "1000"
        /\ Seed[2].to = [parent |-> NoKey]
    BY SeedTable, SeedRowFields
  <2>2. /\ DOMAIN Seed[2].to = {"parent"}
        /\ \A f \in DOMAIN Seed[2].to : Seed[2].to[f] = NoKey
    BY <2>1
  <2>3. "Account" \in Models \ NumberModels /\ Fields("Account") = {"parent"}
    BY FieldsOfModels DEF NumberModels
  <2> QED
    BY <2>1, <2>2, <2>3, KeysAreKeys, SeedTable, SeedAssumption DEF StepOK
<1>5. StepOK(3)
  BY <1>1, <1>2, SeedTable, KeysAreKeys
<1>6. StepOK(4)
  BY <1>1, <1>2, SeedTable, KeysAreKeys
<1>7. StepOK(5)
  BY <1>1, <1>2, SeedTable, KeysAreKeys
<1>8. StepOK(6)
  <2>1. /\ Seed[6].model = "StockMove" /\ Seed[6].key = "opening-stock"
        /\ Seed[6].to = [product |-> "COFFEE-LRG", to |-> "WH-MAIN", from |-> NoKey]
    BY SeedTable, SeedRowFields
  <2>2. Seed[4].key = "WH-MAIN" /\ Seed[5].key = "COFFEE-LRG"
    BY SeedTable, SeedRowFields
  <2>3. /\ DOMAIN Seed[6].to = {"product", "from", "to"}
        /\ \A f \in DOMAIN Seed[6].to :
             Seed[6].to[f] \in {NoKey, Seed[4].key, Seed[5].key}
    BY <2>1, <2>2
  <2>4. /\ "StockMove" \in Models \ NumberModels
        /\ Fields("StockMove") = {"product", "from", "to"}
    BY FieldsOfModels DEF NumberModels
  <2>5. {NoKey, Seed[4].key, Seed[5].key}
          \subseteq {NoKey} \union {Seed[k].key : k \in 1..(6 - 1)}
    OBVIOUS
  <2> QED
    BY <2>1, <2>3, <2>4, <2>5, KeysAreKeys, SeedTable, SeedAssumption DEF StepOK
<1>9. StepOK(7)
  BY <1>1, <1>2, SeedTable, KeysAreKeys
<1>10. StepOK(8)
  BY <1>1, <1>2, SeedTable, KeysAreKeys
<1>11. StepOK(9)
  BY <1>1, <1>2, SeedTable, KeysAreKeys
<1> QED
  BY <1>3, <1>4, <1>5, <1>6, <1>7, <1>8, <1>9, <1>10, <1>11, SeedTable

LEMMA SeedJob ==
  ASSUME NEW j, IsSeeding(j)
  PROVE  /\ Seed[j.next].model \in Models \ NumberModels
         /\ SeedTo(j) \in Targets(Seed[j.next].model)
         /\ IsRow(SeedRowOf(j))
         /\ \A i \in Ids : JobOK(Remember(j, i))
<1>1. /\ j.next \in 1..9
      /\ DOMAIN j.made = {NoKey} \union {Seed[k].key : k \in 1..(j.next - 1)}
      /\ j.made[NoKey] = None
      /\ \A key \in DOMAIN j.made : j.made[key] \in Nullable(Ids)
  BY SeedSteps DEF IsSeeding
<1>2. Seed[j.next].model \in Models \ NumberModels
  BY <1>1, SeedSteps DEF StepOK
<1>3. SeedTo(j) \in Targets(Seed[j.next].model)
  <2>1. \A f \in DOMAIN Seed[j.next].to :
          j.made[Seed[j.next].to[f]] \in Nullable(Ids)
    BY <1>1, SeedSteps DEF StepOK
  <2> QED
    BY <1>1, <2>1, SeedSteps DEF SeedTo, Targets, StepOK
<1>4. IsRow(SeedRowOf(j))
  <2>1. Seed[j.next].key \in Nullable(Keys)
    BY <1>1, SeedSteps, NullIsNullable DEF StepOK
  <2>2. SeedTenant \in Tenants /\ None \in Nullable(Nat) /\ TRUE \in BOOLEAN
    BY BackofficeAssumption, NullIsNullable
  <2> QED
    BY <1>2, <1>3, <2>1, <2>2, RowIsRow DEF SeedRowOf
<1>5. ASSUME NEW i \in Ids, j.next # 9
      PROVE  IsSeeding(Remember(j, i))
  <2>1. PICK key : key = Seed[j.next].key
    OBVIOUS
  <2>2. PICK m : m = [k \in DOMAIN j.made \union {key} |->
                        IF k = key THEN i ELSE j.made[k]]
    OBVIOUS
  <2>3. PICK q : q = [at |-> "seed", next |-> j.next + 1, made |-> m]
    OBVIOUS
  <2>4. Remember(j, i) = q
    BY <1>5, <2>1, <2>2, <2>3, SeedSteps DEF Remember
  <2>5. key # NoKey
    BY <1>1, <2>1, SeedSteps DEF StepOK
  <2>6. /\ m[NoKey] = None
        /\ \A k \in DOMAIN m : m[k] \in Nullable(Ids)
        /\ DOMAIN m = DOMAIN j.made \union {key}
    BY <1>1, <2>2, <2>5 DEF Nullable
  <2>7. DOMAIN j.made \union {key}
          = {NoKey} \union {Seed[k].key : k \in 1..((j.next + 1) - 1)}
    <3>1. (j.next + 1) - 1 = j.next /\ 1..j.next = (1..(j.next - 1)) \union {j.next}
      BY <1>1
    <3> QED
      BY <1>1, <2>1, <3>1
  <2>8. /\ q.at = "seed" /\ q.next = j.next + 1 /\ q.made = m
        /\ q.next \in 1..Len(Seed)
    BY <1>1, <1>5, <2>3, SeedSteps
  <2> QED
    BY <2>4, <2>6, <2>7, <2>8 DEF IsSeeding
<1>6. j.next = 9 => \A i : Remember(j, i) = Idle
  BY SeedSteps DEF Remember
<1> QED
  BY <1>2, <1>3, <1>4, <1>5, <1>6 DEF JobOK

\* What a step of the seed does.
SeedDoes(w) ==
  /\ work[w].at = "seed"
  /\ \/ /\ \/ work' = [work EXCEPT ![w] = Idle]
           \/ \E i \in Found(Seed[work[w].next]) :
                work' = [work EXCEPT ![w] = Remember(work[w], i)]
        /\ UNCHANGED <<rows, spent>>
     \/ /\ Found(Seed[work[w].next]) = {}
        /\ KeysHold(Seed[work[w].next].model, SeedTo(work[w]))
        /\ Store(SeedRowOf(work[w]))
        /\ work' = [work EXCEPT ![w] = Remember(work[w], FreshId)]
  /\ UNCHANGED <<budget, story, disturbed, tenancyVars, paidRuns, faults,
                 brandingVars, auditVars, seeds>>

LEMMA SeedShape ==
  ASSUME NEW w \in Workers, SeedStep(w)
  PROVE  SeedDoes(w)
<1>1. /\ work[w].at = "seed"
      /\ UNCHANGED <<budget, story, disturbed, tenancyVars, paidRuns, faults,
                     brandingVars, auditVars, seeds>>
  BY DEF SeedStep
<1>2. CASE Found(Seed[work[w].next]) # {}
  <2>1. /\ work' = [work EXCEPT ![w] =
              Remember(work[w], CHOOSE i \in Found(Seed[work[w].next]) : TRUE)]
        /\ UNCHANGED <<rows, spent>>
    BY <1>2 DEF SeedStep, Remember
  <2>2. (CHOOSE i \in Found(Seed[work[w].next]) : TRUE)
          \in Found(Seed[work[w].next])
    BY <1>2
  <2> QED
    BY <1>1, <2>1, <2>2 DEF SeedDoes
<1>3. CASE Found(Seed[work[w].next]) = {} /\ KeysHold(Seed[work[w].next].model, SeedTo(work[w]))
  <2>1. /\ Store(SeedRowOf(work[w]))
        /\ work' = [work EXCEPT ![w] = Remember(work[w], FreshId)]
    BY <1>3 DEF SeedStep, Remember, SeedTo, SeedRowOf
  <2> QED
    BY <1>1, <1>3, <2>1 DEF SeedDoes
<1>4. CASE Found(Seed[work[w].next]) = {} /\ ~KeysHold(Seed[work[w].next].model, SeedTo(work[w]))
  <2>1. /\ work' = [work EXCEPT ![w] = Idle]
        /\ UNCHANGED <<rows, spent>>
    BY <1>4 DEF SeedStep, SeedTo
  <2> QED
    BY <1>1, <2>1 DEF SeedDoes
<1> QED
  BY <1>2, <1>3, <1>4

LEMMA SeedTypes ==
  ASSUME TypeInv, NEW w \in Workers, SeedStep(w)
  PROVE  TypeInv'
<1>1. RowsOK /\ JobsOK /\ AwaitsOK /\ AroundOK /\ LimitsOK
  BY TypeParts
<1>2. SeedDoes(w)
  BY SeedShape
<1>3. IsSeeding(work[w])
  BY <1>1, <1>2, JobOfAwait DEF JobsOK, SeedDoes
<1>4. AroundOK' /\ LimitsOK'
  BY <1>1, <1>2
     DEF SeedDoes, AroundOK, LimitsOK, brandingVars, auditVars, tenancyVars
<1>5. CASE work' = [work EXCEPT ![w] = Idle] /\ UNCHANGED <<rows, spent>>
  <2>1. JobsOK' /\ AwaitsOK'
    BY <1>1, <1>5, SetJob DEF JobOK
  <2> QED
    BY <1>1, <1>4, <1>5, <2>1, KeepRows, TypePartsNext
<1>6. ASSUME NEW i \in Found(Seed[work[w].next]),
             work' = [work EXCEPT ![w] = Remember(work[w], i)],
             UNCHANGED <<rows, spent>>
      PROVE  TypeInv'
  <2>1. i \in Ids
    BY OfModelRows DEF Found, Keyed
  <2>2. JobsOK' /\ AwaitsOK'
    BY <1>1, <1>3, <1>6, <2>1, SeedJob, SetJob
  <2> QED
    BY <1>1, <1>4, <1>6, <2>2, KeepRows, TypePartsNext
<1>7. CASE /\ Store(SeedRowOf(work[w]))
           /\ work' = [work EXCEPT ![w] = Remember(work[w], FreshId)]
  <2>1. RowsOK' /\ FreshId \in Ids
    BY <1>1, <1>3, <1>7, SeedJob, StoreTypes
  <2>2. JobsOK' /\ AwaitsOK'
    BY <1>1, <1>3, <1>7, <2>1, SeedJob, SetJob
  <2> QED
    BY <1>4, <2>1, <2>2, TypePartsNext
<1> QED
  BY <1>2, <1>5, <1>6, <1>7 DEF SeedDoes

LEMMA BeginSeedShape ==
  ASSUME NEW w \in Workers, BeginSeed(w)
  PROVE  /\ work[w] = Idle
         /\ work' = [work EXCEPT ![w] = [at |-> "seed", next |-> 1,
                                         made |-> [k \in {NoKey} |-> None]]]
         /\ seeds' = seeds + 1
         /\ UNCHANGED <<rows, spent, budget, story, disturbed, tenancyVars,
                        paidRuns, faults, brandingVars, auditVars>>
BY Zenon DEF BeginSeed, NoKey

LEMMA BeginSeedTypes ==
  ASSUME TypeInv, NEW w \in Workers, BeginSeed(w)
  PROVE  TypeInv'
<1>1. RowsOK /\ JobsOK /\ AwaitsOK /\ AroundOK /\ LimitsOK
  BY TypeParts
<1>2. PICK m : m = [k \in {NoKey} |-> None]
  OBVIOUS
<1>3. PICK j : j = [at |-> "seed", next |-> 1, made |-> m]
  OBVIOUS
<1>4. JobOK(j)
  <2>1. /\ j.at = "seed" /\ j.next = 1 /\ j.made = m
        /\ DOMAIN m = {NoKey} /\ m[NoKey] = None
    BY <1>2, <1>3
  <2>2. {Seed[k].key : k \in 1..(1 - 1)} = {}
    OBVIOUS
  <2>3. IsSeeding(j)
    BY <2>1, <2>2, SeedSteps DEF IsSeeding, Nullable
  <2> QED
    BY <2>3 DEF JobOK
<1>5. JobsOK' /\ AwaitsOK'
  BY <1>1, <1>2, <1>3, <1>4, BeginSeedShape, SetJob
<1>6. RowsOK' /\ AroundOK' /\ LimitsOK'
  BY <1>1, BeginSeedShape, KeepRows
     DEF AroundOK, LimitsOK, brandingVars, auditVars, tenancyVars
<1> QED
  BY <1>5, <1>6, TypePartsNext

LEMMA RecordAuditTypes ==
  ASSUME TypeInv, NEW x \in Contexts, RecordAudit(x)
  PROVE  TypeInv'
<1>1. RowsOK /\ JobsOK /\ AwaitsOK /\ AroundOK /\ LimitsOK
  BY TypeParts
<1>2. JobsOK' /\ AwaitsOK' /\ RowsOK'
  BY <1>1, KeepRows, KeepJobs DEF RecordAudit
<1>3. AroundOK'
  BY <1>1 DEF RecordAudit, AroundOK, brandingVars
<1>4. LimitsOK'
  BY <1>1, BackofficeAssumption DEF RecordAudit, LimitsOK, Fault, tenancyVars
<1> QED
  BY <1>2, <1>3, <1>4, TypePartsNext


\* A failure makes requests idle and leaves the others.
LEMMA FailShape ==
  ASSUME FailOrCrash
  PROVE  /\ work' = [w \in Workers |-> work'[w]]
         /\ \A w \in Workers : work'[w] = Idle \/ work'[w] = work[w]
         /\ UNCHANGED <<rows, spent, budget, story, disturbed, tenancyVars, paidRuns,
                        brandingVars, seeds>>
         /\ faults < MaxFaults /\ faults' = faults + 1
<1>1. PICK S : work' = [w \in Workers |-> IF w \in S THEN Idle ELSE work[w]]
  BY DEF FailOrCrash, Fail
<1> QED
  BY <1>1 DEF FailOrCrash, Fail, Fault, Surroundings

LEMMA FailTypes ==
  ASSUME TypeInv, FailOrCrash
  PROVE  TypeInv'
<1>1. RowsOK /\ JobsOK /\ AwaitsOK /\ AroundOK /\ LimitsOK
  BY TypeParts
<1>2. /\ work' = [w \in Workers |-> work'[w]]
      /\ \A w \in Workers : JobOK(work'[w])
  BY <1>1, FailShape DEF JobsOK, JobOK
<1>3. JobsOK' /\ AwaitsOK'
  BY <1>2, JobOfAwait DEF JobsOK, AwaitsOK
<1>4. RowsOK'
  BY <1>1, FailShape, KeepRows
<1>5. LimitsOK'
  BY <1>1, FailShape, BackofficeAssumption DEF LimitsOK, tenancyVars
<1>6. AroundOK'
  <2>1. answered' \in Nat /\ logged' \in Nat /\ pending' \in [Contexts -> Nat]
    BY <1>1 DEF FailOrCrash, AroundOK, auditVars
  <2> QED
    BY <1>1, <2>1, FailShape DEF AroundOK, brandingVars
<1> QED
  BY <1>3, <1>4, <1>5, <1>6, TypePartsNext

-----------------------------------------------------------------------------
LEMMA TypesStay == TypeInv /\ [Next]_vars => TypeInv'
<1> SUFFICES ASSUME TypeInv, [Next]_vars PROVE TypeInv'
  OBVIOUS
<1>1. ASSUME NEW c \in Story.callers, Write(c), AfterMutation(c),
             Surroundings
      PROVE  TypeInv'
  BY <1>1, WriteStepTypes
<1>2. ASSUME NEW c \in Story.callers, NEW w \in Workers,
             \/ Begin(w, c) /\ UNCHANGED auditVars /\ Surroundings
             \/ BeginBranding(w, c)
      PROVE  TypeInv'
  BY <1>2, BeginTypes
<1>3. ASSUME NEW w \in Workers, ContinueAudited(w)
      PROVE  TypeInv'
  BY <1>3, ContinueTypes
<1>4. ASSUME NEW w \in Workers, WriteBranding(w)
      PROVE  TypeInv'
  BY <1>4, WriteBrandingTypes
<1>5. ASSUME NEW w \in Workers, BeginSeed(w)
      PROVE  TypeInv'
  BY <1>5, BeginSeedTypes
<1>6. ASSUME NEW w \in Workers, SeedStep(w)
      PROVE  TypeInv'
  BY <1>6, SeedTypes
<1>7. ASSUME NEW x \in Contexts, RecordAudit(x)
      PROVE  TypeInv'
  BY <1>7, RecordAuditTypes
<1>8. CASE FailOrCrash
  BY <1>8, FailTypes
<1>9. CASE UNCHANGED vars
  <2>1. RowsOK /\ JobsOK /\ AwaitsOK /\ AroundOK /\ LimitsOK
    BY TypeParts
  <2>2. UNCHANGED recordVars /\ UNCHANGED brandingVars /\ UNCHANGED auditVars
          /\ UNCHANGED seeds
    BY <1>9 DEF vars
  <2>3. RowsOK' /\ JobsOK' /\ AwaitsOK'
    BY <2>1, <2>2, KeepRows, KeepJobs DEF recordVars
  <2>4. AroundOK' /\ LimitsOK'
    BY <2>1, <2>2 DEF AroundOK, LimitsOK, recordVars, brandingVars, auditVars
  <2> QED
    BY <2>3, <2>4, TypePartsNext
<1> QED
  BY <1>1, <1>2, <1>3, <1>4, <1>5, <1>6, <1>7, <1>8, <1>9 DEF Next

\* Every reachable state has its types: rows and their references, requests
\* with what their next query needs, the seed with the ids of the steps it did.
THEOREM BackofficeTypes == Spec => []BackofficeTypeOK
<1>1. TypeInv => BackofficeTypeOK
  BY DEF TypeInv
<1> QED
  BY <1>1, InitTypes, TypesStay, PTL DEF Spec

-----------------------------------------------------------------------------
(* No field of a branding is lost as long as updates do not overlap.       *)

Painter(w) == w \in Workers /\ work[w].at = "branding"

\* A tenant that was not raced has at most one update under way, and what it
\* read is still what is stored.
BrandsOK ==
  /\ NoLostBranding
  /\ \A w \in Workers : Painter(w) /\ work[w].caller.tenant \notin raced =>
       /\ work[w].merged = Merged(work[w].caller.tenant, work[w].patch)
       /\ \A v \in Workers :
            Painter(v) /\ work[v].caller.tenant = work[w].caller.tenant => v = w

\* What starts and ends no update of a branding.
OtherWork ==
  /\ UNCHANGED brandingVars
  /\ \A w \in Workers : work'[w].at = "branding" => work'[w] = work[w]

LEMMA OtherWorkKeepsBrands ==
  ASSUME BrandsOK, OtherWork
  PROVE  BrandsOK'
<1>1. UNCHANGED <<branding, latest, raced>>
  BY DEF OtherWork, brandingVars
<1>2. NoLostBranding'
  BY <1>1 DEF BrandsOK, NoLostBranding
<1>3. \A w \in Workers : Painter(w)' => Painter(w) /\ work'[w] = work[w]
  BY DEF Painter, OtherWork
<1>4. \A t, patch : Merged(t, patch)' = Merged(t, patch)
  BY <1>1 DEF Merged
<1>5. ASSUME NEW w \in Workers, Painter(w)', (work[w].caller.tenant \notin raced)'
      PROVE  /\ (work[w].merged = Merged(work[w].caller.tenant, work[w].patch))'
             /\ \A v \in Workers : (Painter(v)
                  /\ work[v].caller.tenant = work[w].caller.tenant)' => v = w
  BY <1>1, <1>3, <1>4, <1>5 DEF BrandsOK
<1> QED
  BY <1>2, <1>5 DEF BrandsOK

LEMMA SetOtherJob ==
  ASSUME JobsOK, NEW w \in Workers, NEW j, JobOK(j), j.at # "branding",
         work' = [work EXCEPT ![w] = j], UNCHANGED brandingVars
  PROVE  OtherWork
BY SetJob DEF OtherWork

LEMMA IdleIsOther == Idle.at # "branding" /\ JobOK(Idle)
BY DEF Idle, JobOK

LEMMA BeginBrandingKeepsBrands ==
  ASSUME TypeInv, BrandsOK, NEW c \in Callers, NEW w \in Workers,
         BeginBranding(w, c)
  PROVE  BrandsOK'
<1>1. JobsOK /\ AroundOK
  BY TypeParts
<1>2. PICK patch \in Patches : \E j :
        /\ j = [at |-> "branding", caller |-> c, patch |-> patch,
                merged |-> Merged(c.tenant, patch)]
        /\ work' = [work EXCEPT ![w] = j]
  BY DEF BeginBranding
<1>3. PICK j : /\ j = [at |-> "branding", caller |-> c, patch |-> patch,
                       merged |-> Merged(c.tenant, patch)]
               /\ work' = [work EXCEPT ![w] = j]
  BY <1>2
<1>4. /\ branding' = branding /\ latest' = latest
      /\ raced' = IF \E v \in Workers : /\ work[v].at = "branding"
                                        /\ work[v].caller.tenant = c.tenant
                  THEN raced \union {c.tenant} ELSE raced
  BY DEF BeginBranding
<1>5. /\ j.at = "branding" /\ j.caller = c /\ j.patch = patch
      /\ j.merged = Merged(c.tenant, patch)
  BY <1>3
<1>6. work'[w] = j /\ \A v \in Workers \ {w} : work'[v] = work[v]
  BY <1>1, <1>3 DEF JobsOK
<1>7. \A t, q : Merged(t, q)' = Merged(t, q)
  BY <1>4 DEF Merged
<1>8. NoLostBranding' /\ raced \subseteq raced'
  BY <1>4 DEF BrandsOK, NoLostBranding
<1>9. ASSUME NEW x \in Workers, Painter(x)', (work[x].caller.tenant \notin raced)'
      PROVE  /\ (work[x].merged = Merged(work[x].caller.tenant, work[x].patch))'
             /\ \A v \in Workers : (Painter(v)
                  /\ work[v].caller.tenant = work[x].caller.tenant)' => v = x
  <2>1. CASE x = w
    <3>1. \A v \in Workers \ {w} : Painter(v) => work[v].caller.tenant # c.tenant
      BY <1>4, <1>5, <1>6, <1>9, <2>1 DEF Painter
    <3> QED
      BY <1>5, <1>6, <1>7, <2>1, <3>1 DEF Painter
  <2>2. CASE x # w
    <3>1. Painter(x) /\ work'[x] = work[x]
      BY <1>6, <1>9, <2>2 DEF Painter
    <3>2. work[x].caller.tenant # c.tenant
      BY <1>4, <1>9, <3>1 DEF Painter
    <3>3. work[x].caller.tenant \notin raced
      BY <1>8, <1>9, <3>1
    <3>4. \A v \in Workers : (Painter(v)
            /\ work[v].caller.tenant = work[x].caller.tenant)' =>
            Painter(v) /\ work[v].caller.tenant = work[x].caller.tenant
      BY <1>5, <1>6, <3>1, <3>2 DEF Painter
    <3> QED
      BY <1>7, <3>1, <3>3, <3>4 DEF BrandsOK
  <2> QED
    BY <2>1, <2>2
<1> QED
  BY <1>8, <1>9 DEF BrandsOK

LEMMA WriteBrandingKeepsBrands ==
  ASSUME TypeInv, BrandsOK, NEW w \in Workers, WriteBranding(w)
  PROVE  BrandsOK'
<1>1. JobsOK /\ AroundOK
  BY TypeParts
<1>2. Painter(w) /\ work[w] \in Painting
  BY <1>1, JobOfAwait DEF JobsOK, WriteBranding, Painter
<1>3. PICK t \in Tenants : t = work[w].caller.tenant
  BY <1>2 DEF Painting, Callers
<1>4. PICK b : b = [f \in BrandFields |-> IF f \in DOMAIN work[w].patch
                                          THEN work[w].patch[f] ELSE latest[t][f]]
  OBVIOUS
<1>5. /\ branding' = [branding EXCEPT ![t] = work[w].merged]
      /\ latest' = [latest EXCEPT ![t] = b]
      /\ work' = [work EXCEPT ![w] = Idle] /\ raced' = raced
  BY <1>1, <1>3, <1>4 DEF WriteBranding, AroundOK
<1>6. /\ branding'[t] = work[w].merged /\ latest'[t] = b
      /\ \A u \in Tenants \ {t} : branding'[u] = branding[u]
                                  /\ latest'[u] = latest[u]
  BY <1>1, <1>3, <1>5 DEF AroundOK
<1>7. t \notin raced => b = work[w].merged
  <2>1. SUFFICES ASSUME t \notin raced PROVE b = work[w].merged
    OBVIOUS
  <2>2. branding[t] = latest[t] /\ work[w].merged = Merged(t, work[w].patch)
    BY <1>2, <1>3, <2>1 DEF BrandsOK, NoLostBranding
  <2> QED
    BY <1>4, <2>2 DEF Merged
<1>8. NoLostBranding'
  BY <1>5, <1>6, <1>7 DEF BrandsOK, NoLostBranding
<1>9. /\ \A v \in Workers \ {w} : work'[v] = work[v]
      /\ ~Painter(w)'
  BY <1>1, <1>5, IdleIsOther DEF JobsOK, Painter
<1>10. \A u \in Tenants \ {t} : \A q : Merged(u, q)' = Merged(u, q)
  BY <1>6 DEF Merged
<1>11. ASSUME NEW x \in Workers, Painter(x)', (work[x].caller.tenant \notin raced)'
      PROVE  /\ (work[x].merged = Merged(work[x].caller.tenant, work[x].patch))'
             /\ \A v \in Workers : (Painter(v)
                  /\ work[v].caller.tenant = work[x].caller.tenant)' => v = x
  <2>1. x # w /\ work'[x] = work[x] /\ Painter(x)
    BY <1>9, <1>11 DEF Painter
  <2>2. work[x] \in Painting
    BY <1>1, <2>1, JobOfAwait DEF JobsOK, Painter
  <2>3. PICK u \in Tenants : u = work[x].caller.tenant
    BY <2>2 DEF Painting, Callers
  <2>4. u \notin raced
    BY <1>5, <1>11, <2>1, <2>3
  <2>5. u # t
    BY <1>2, <1>3, <2>1, <2>3, <2>4 DEF BrandsOK
  <2>6. \A v \in Workers : (Painter(v)
          /\ work[v].caller.tenant = work[x].caller.tenant)' =>
            Painter(v) /\ work[v].caller.tenant = work[x].caller.tenant
    BY <1>9, <2>1 DEF Painter
  <2> QED
    BY <1>10, <2>1, <2>3, <2>4, <2>5, <2>6 DEF BrandsOK
<1> QED
  BY <1>8, <1>11 DEF BrandsOK

LEMMA BrandsStay == TypeInv /\ BrandsOK /\ [Next]_vars => BrandsOK'
<1> SUFFICES ASSUME TypeInv, BrandsOK, [Next]_vars PROVE BrandsOK'
  OBVIOUS
<1>0. JobsOK /\ RowsOK /\ RecordsTypeOK /\ Story.callers \subseteq Callers
  BY TypeParts, StoryOK DEF TypeInv, BackofficeTypeOK
<1>1. ASSUME NEW c \in Story.callers, Write(c), AfterMutation(c),
             Surroundings
      PROVE  OtherWork
  <2>1. WriteOK
    BY <1>0, <1>1, WriteTypes
  <2> QED
    BY <1>1, <2>1 DEF WriteOK, OtherWork, Surroundings
<1>2. ASSUME NEW c \in Story.callers, NEW w \in Workers, Begin(w, c),
             Surroundings
      PROVE  OtherWork
  <2>1. PICK j : work' = [work EXCEPT ![w] = j] /\ j.at # "branding"
    <3>1. CASE BeginNumber(w, c)
      <4>1. PICK m, to, n, recent : BeginsNumber(w, c, m, to, n, recent)
        BY <3>1, BeginNumberShape
      <4>2. PICK j : j = [at |-> "insert", caller |-> c, model |-> m, to |-> to,
                          recent |-> recent, number |-> n]
        OBVIOUS
      <4>3. work' = [work EXCEPT ![w] = j]
        BY <4>1, <4>2 DEF BeginsNumber
      <4>4. j.at # "branding"
        BY <4>2
      <4> QED
        BY <4>3, <4>4
    <3>2. CASE BeginPayroll(w, c)
      <4>1. PICK S : work' = [work EXCEPT ![w] =
              [at |-> "slips", caller |-> c, left |-> S, found |-> S,
               slips |-> {}]]
        BY <3>2 DEF BeginPayroll
      <4>2. PICK j : j = [at |-> "slips", caller |-> c, left |-> S,
                          found |-> S, slips |-> {}]
        OBVIOUS
      <4>3. work' = [work EXCEPT ![w] = j]
        BY <4>1, <4>2
      <4>4. j.at # "branding"
        BY <4>2
      <4> QED
        BY <4>3, <4>4
    <3> QED
      BY <1>2, <3>1, <3>2 DEF Begin
  <2> QED
    BY <1>0, <1>2, <2>1 DEF OtherWork, Surroundings, JobsOK
<1>3. ASSUME NEW w \in Workers, ContinueAudited(w)
      PROVE  OtherWork
  <2>1. UNCHANGED brandingVars
    BY <1>3 DEF ContinueAudited, Surroundings
  <2>2. CASE InsertNumbered(w) \/ AnswerPayroll(w)
    <3>1. work' = [work EXCEPT ![w] = Idle]
      BY <2>2 DEF InsertNumbered, AnswerPayroll
    <3> QED
      BY <1>0, <2>1, <3>1, SetOtherJob, IdleIsOther
  <2>3. CASE InsertSlip(w)
    <3>1. PICK e \in Ids : Slips(w, e)
      BY <1>0, <2>3, InsertSlipShape
    <3>2. work[w] \in Paying
      BY <1>0, <2>3, InsertSlipShape
    <3>3. PICK j : /\ work' = [work EXCEPT ![w] = j]
                   /\ j = Idle \/ j = Paid(work[w], e, FreshId)
      BY <3>1 DEF Slips
    <3>4. j.at # "branding"
      BY <3>2, <3>3, IdleIsOther DEF Paying, Paid
    <3> QED
      BY <1>0, <2>1, <3>3, <3>4 DEF OtherWork, JobsOK
  <2> QED
    BY <1>3, <2>2, <2>3 DEF ContinueAudited
<1>4. ASSUME NEW w \in Workers, BeginSeed(w)
      PROVE  OtherWork
  <2>1. PICK j : work' = [work EXCEPT ![w] = j] /\ j.at # "branding"
    <3>1. PICK m : m = [k \in {NoKey} |-> None]
      OBVIOUS
    <3>2. PICK j : j = [at |-> "seed", next |-> 1, made |-> m]
      OBVIOUS
    <3>3. work' = [work EXCEPT ![w] = j]
      BY <1>4, <3>1, <3>2, BeginSeedShape
    <3>4. j.at # "branding"
      BY <3>2
    <3> QED
      BY <3>3, <3>4
  <2> QED
    BY <1>0, <1>4, <2>1, BeginSeedShape DEF OtherWork, JobsOK
<1>5. ASSUME NEW w \in Workers, SeedStep(w)
      PROVE  OtherWork
  <2>1. PICK j : work' = [work EXCEPT ![w] = j] /\ j.at # "branding"
    <3>1. Idle.at # "branding" /\ \A i : Remember(work[w], i).at # "branding"
      BY IdleIsOther DEF Remember
    <3> QED
      BY <1>5, <3>1, SeedShape DEF SeedDoes
  <2> QED
    BY <1>0, <1>5, <2>1, SeedShape DEF OtherWork, JobsOK, SeedDoes
<1>6. ASSUME NEW x \in Contexts, RecordAudit(x)
      PROVE  OtherWork
  BY <1>6 DEF RecordAudit, OtherWork
<1>7. CASE FailOrCrash
  <2>1. /\ \A w \in Workers : work'[w] = Idle \/ work'[w] = work[w]
        /\ UNCHANGED brandingVars
    BY <1>7, FailShape DEF brandingVars
  <2> QED
    BY <2>1, IdleIsOther, OtherWorkKeepsBrands DEF OtherWork
<1>8. CASE UNCHANGED vars
  <2>1. UNCHANGED recordVars /\ UNCHANGED brandingVars
    BY <1>8 DEF vars
  <2> QED
    BY <2>1, OtherWorkKeepsBrands DEF recordVars, OtherWork
<1>9. ASSUME NEW c \in Story.callers, NEW w \in Workers, BeginBranding(w, c)
      PROVE  BrandsOK'
  BY <1>0, <1>9, BeginBrandingKeepsBrands
<1>10. ASSUME NEW w \in Workers, WriteBranding(w)
      PROVE  BrandsOK'
  BY <1>10, WriteBrandingKeepsBrands
<1> QED
  BY <1>1, <1>2, <1>3, <1>4, <1>5, <1>6, <1>7, <1>8, <1>9, <1>10,
     OtherWorkKeepsBrands DEF Next

\* As long as no two updates of a tenant's branding overlapped, every field has
\* the value of the last update that named it, through failures and crashes.
THEOREM BrandingIsKept == Spec => []NoLostBranding
<1>1. Init => BrandsOK
  BY IdleIsOther DEF Init, RecordsInit, BrandsOK, NoLostBranding, Painter
<1>2. BrandsOK => NoLostBranding
  BY DEF BrandsOK
<1> QED
  BY <1>1, <1>2, InitTypes, TypesStay, BrandsStay, PTL DEF Spec

-----------------------------------------------------------------------------
(* No foreign key dangles, and as long as nothing is mixed, a row refers to *)
(* rows of its tenant.                                                     *)

\* Id i has a row of tenant t, if that still means anything.
AtHome(i, t) == mixed \/ t = None \/ rows[i].tenant = t

\* Id i, if it still has a row, has one of model m.
LeadsTo(i, m, t) ==
  i \in spent /\ (rows[i] # None => rows[i].model = m /\ AtHome(i, t))

\* The tenant of a seeded row that is found by its key.
KeyTenant(model) == IF model \in ById THEN None ELSE SeedTenant

\* What a request will refer to leads to rows of the right models.
PendingOK(j) ==
  /\ j.at = "insert" => \A f \in ForeignKeys(j.model) : j.to[f] # None =>
       LeadsTo(j.to[f], Columns[j.model][f].target, j.caller.tenant)
  /\ j.at = "slips" => \A e \in j.left :
       LeadsTo(e, "Employee", j.caller.tenant)
  /\ j.at = "seed" => \A k \in 1..(j.next - 1) :
       LeadsTo(j.made[Seed[k].key], Seed[k].model, KeyTenant(Seed[k].model))

RowsLinked ==
  \A i \in Rows(Ids) : \A f \in ForeignKeys(rows[i].model) :
    rows[i].to[f] # None =>
      /\ rows[i].to[f] \in OfModel(Columns[rows[i].model][f].target)
      /\ AtHome(rows[i].to[f], rows[i].tenant)

LinksOK == RowsLinked /\ \A w \in Workers : PendingOK(work[w])

\* An id keeps its model for good, and its tenant as long as nothing is mixed,
\* and is never used for another row.
IdsKept ==
  /\ spent \subseteq spent' /\ (mixed => mixed')
  /\ \A i \in spent : rows'[i] # None =>
       /\ rows[i] # None /\ rows'[i].model = rows[i].model
       /\ mixed' \/ rows'[i].tenant = rows[i].tenant

\* What a new row refers to is there.
Linked(r) ==
  \A f \in ForeignKeys(r.model) : r.to[f] # None =>
    /\ r.to[f] \in OfModel(Columns[r.model][f].target)
    /\ mixed' \/ r.tenant = None \/ rows[r.to[f]].tenant = r.tenant

LEMMA ForeignKeysOf ==
  ASSUME NEW m
  PROVE  /\ ForeignKeys(m) \subseteq Fields(m)
         /\ \A f \in ForeignKeys(m) : Columns[m][f].onDelete # "Nothing"
BY DEF ForeignKeys

\* Everything that is referred to is scoped.
LEMMA ScopedTargets == \A r \in References : r.target \in SCOPED_MODELS
BY DEF References, OwnedRefs, NeededRefs, LineRefs, LooseRefs, NeededNames,
       LooseNames, Ref, SCOPED_MODELS

\* A caller whose context is its tenant sees scoped rows of that tenant.
LEMMA SeenTenant ==
  ASSUME NEW c \in Callers, c.context = c.tenant, NEW i, Visible(c, i),
         rows[i].model \in SCOPED_MODELS
  PROVE  rows[i].tenant = c.tenant
BY BackofficeAssumption DEF Callers, Visible

LEMMA IdleIsPending == PendingOK(Idle) /\ PendingOK(Idle)'
BY DEF PendingOK, Idle

LEMMA PendingKept ==
  ASSUME NEW j, PendingOK(j), IdsKept
  PROVE  PendingOK(j)'
<1>1. \A i, m, t : LeadsTo(i, m, t) => LeadsTo(i, m, t)'
  BY DEF LeadsTo, AtHome, IdsKept
<1> QED
  BY <1>1 DEF PendingOK

\* The others' requests are still right, and so is this one's next step.
LEMMA LinksKept ==
  ASSUME LinksOK, JobsOK, IdsKept, RowsLinked', NEW w \in Workers, NEW j,
         PendingOK(j)', work' = [work EXCEPT ![w] = j]
  PROVE  LinksOK'
<1>1. \A v \in Workers : work'[v] = IF v = w THEN j ELSE work[v]
  BY DEF JobsOK
<1>2. \A v \in Workers : PendingOK(work[v])
  BY DEF LinksOK
<1>3. ASSUME NEW v \in Workers PROVE PendingOK(work[v])'
  <2>1. CASE v = w
    BY <1>1, <2>1 DEF PendingOK, LeadsTo, AtHome
  <2>2. CASE v # w
    <3>1. PICK q : q = work[v]
      OBVIOUS
    <3>2. PendingOK(q)'
      BY <1>2, <3>1, PendingKept
    <3>3. work'[v] = q
      BY <1>1, <2>2, <3>1
    <3> QED
      BY <3>2, <3>3 DEF PendingOK, LeadsTo, AtHome
  <2> QED
    BY <2>1, <2>2
<1> QED
  BY <1>3 DEF LinksOK

LEMMA LinksKeptByOthers ==
  ASSUME LinksOK, IdsKept, RowsLinked',
         \A w \in Workers : work'[w] = Idle \/ work'[w] = work[w]
  PROVE  LinksOK'
<1>1. ASSUME NEW v \in Workers PROVE PendingOK(work[v])'
  <2>1. PICK q : q = work'[v]
    OBVIOUS
  <2>2. PendingOK(q)'
    <3>1. q = Idle \/ q = work[v]
      BY <2>1
    <3> QED
      BY <3>1, IdleIsPending, PendingKept DEF LinksOK
  <2> QED
    BY <2>1, <2>2 DEF PendingOK, LeadsTo, AtHome
<1> QED
  BY <1>1 DEF LinksOK

LEMMA SameRows ==
  ASSUME RowsLinked, UNCHANGED <<rows, spent>>, mixed => mixed'
  PROVE  IdsKept /\ RowsLinked'
BY DEF IdsKept, RowsLinked, Rows, OfModel, AtHome

LEMMA StoreLinks ==
  ASSUME RowsOK, RowsLinked, mixed => mixed', NEW row, IsRow(row), Linked(row),
         Store(row)
  PROVE  /\ IdsKept /\ RowsLinked'
         /\ FreshId \in spent' /\ rows'[FreshId] = row
<1>1. PICK n \in Ids : n = FreshId
  BY StoreTypes
<1>2. /\ n \notin spent /\ rows[n] = None /\ rows'[n] = row
      /\ \A i \in Ids \ {n} : rows'[i] = rows[i]
      /\ spent' = spent \union {n}
  BY <1>1, StoreTypes
<1>3. IdsKept
  BY <1>2 DEF IdsKept, RowsOK
<1>4. \A m : OfModel(m) \subseteq OfModel(m)'
  BY <1>2 DEF OfModel, Rows
<1>5. \A m : \A k \in OfModel(m) : rows'[k] = rows[k]
  BY <1>2, OfModelRows
<1>6. ASSUME NEW i \in Ids, rows'[i] # None,
             NEW f \in ForeignKeys(rows'[i].model), rows'[i].to[f] # None
      PROVE  /\ rows'[i].to[f] \in OfModel(Columns[rows'[i].model][f].target)
             /\ \/ mixed' \/ rows'[i].tenant = None
                \/ rows'[rows'[i].to[f]].tenant = rows'[i].tenant
  <2>1. CASE i = n
    <3>1. /\ row.to[f] \in OfModel(Columns[row.model][f].target)
          /\ mixed' \/ row.tenant = None \/ rows[row.to[f]].tenant = row.tenant
      BY <1>2, <1>6, <2>1 DEF Linked
    <3> QED
      BY <1>2, <1>5, <2>1, <3>1
  <2>2. CASE i # n
    <3>1. /\ rows[i].to[f] \in OfModel(Columns[rows[i].model][f].target)
          /\ AtHome(rows[i].to[f], rows[i].tenant)
      BY <1>2, <1>6, <2>2 DEF RowsLinked, Rows
    <3> QED
      BY <1>2, <1>5, <2>2, <3>1 DEF AtHome
  <2> QED
    BY <2>1, <2>2
<1>7. RowsLinked'
  BY <1>4, <1>6 DEF RowsLinked, Rows, AtHome
<1> QED
  BY <1>1, <1>2, <1>3, <1>7

LEMMA ChangeLinks ==
  ASSUME RowsOK, RowsLinked, mixed => mixed', NEW i \in Ids, rows[i] # None,
         NEW q, IsRow(q), q.model = rows[i].model, Linked(q),
         mixed' \/ q.tenant = rows[i].tenant,
         rows' = [rows EXCEPT ![i] = q], spent' = spent
  PROVE  IdsKept /\ RowsLinked'
<1>1. /\ rows'[i] = q /\ \A j \in Ids \ {i} : rows'[j] = rows[j]
      /\ q # None
  BY RowParts DEF RowsOK
<1>2. IdsKept
  BY <1>1 DEF IdsKept, RowsOK
<1>3. \A m : OfModel(m) \subseteq OfModel(m)'
  BY <1>1 DEF OfModel, Rows
<1>4. \A m : \A k \in OfModel(m) :
        mixed' \/ rows'[k].tenant = rows[k].tenant
  BY <1>1, OfModelRows
<1>5. ASSUME NEW j \in Ids, rows'[j] # None,
             NEW f \in ForeignKeys(rows'[j].model), rows'[j].to[f] # None
      PROVE  /\ rows'[j].to[f] \in OfModel(Columns[rows'[j].model][f].target)
             /\ \/ mixed' \/ rows'[j].tenant = None
                \/ rows'[rows'[j].to[f]].tenant = rows'[j].tenant
  <2>1. CASE j = i
    <3>1. /\ q.to[f] \in OfModel(Columns[q.model][f].target)
          /\ mixed' \/ q.tenant = None \/ rows[q.to[f]].tenant = q.tenant
      BY <1>1, <1>5, <2>1 DEF Linked
    <3> QED
      BY <1>1, <1>4, <2>1, <3>1
  <2>2. CASE j # i
    <3>1. /\ rows[j].to[f] \in OfModel(Columns[rows[j].model][f].target)
          /\ AtHome(rows[j].to[f], rows[j].tenant)
      BY <1>1, <1>5, <2>2 DEF RowsLinked, Rows
    <3> QED
      BY <1>1, <1>4, <2>2, <3>1 DEF AtHome
  <2> QED
    BY <2>1, <2>2
<1>6. RowsLinked'
  BY <1>3, <1>5 DEF RowsLinked, Rows, AtHome
<1> QED
  BY <1>2, <1>6

\* Deleting leaves no reference to what it deletes: those that restrict refuse
\* it, those that cascade go too, the others are cleared.  What goes because of
\* a reference owns nothing itself.
LEMMA DeleteLinks ==
  ASSUME RowsOK, RowsLinked, NEW c, NEW i \in Ids, NEW doomed \in SUBSET Ids,
         Deletes(c, i, doomed)
  PROVE  IdsKept /\ RowsLinked'
<1>1. /\ rows[i] # None
      /\ doomed = {i} \union Dependents({i}, "Cascade")
      /\ Dependents(doomed, "Restrict") \subseteq doomed
      /\ \A j \in Ids : rows'[j] = IF j \in doomed \/ rows[j] = None THEN None
                                  ELSE Unlinked(j, doomed)
      /\ spent' = spent /\ mixed' = mixed
  BY DEF Deletes
<1>2. ASSUME NEW j \in Ids, rows'[j] # None
      PROVE  /\ rows[j] # None /\ j \notin doomed
             /\ rows'[j] = Unlinked(j, doomed)
             /\ rows'[j].model = rows[j].model
             /\ rows'[j].tenant = rows[j].tenant
  <2>1. /\ rows[j] # None /\ j \notin doomed
        /\ rows'[j] = Unlinked(j, doomed)
    BY <1>1, <1>2
  <2>2. /\ Unlinked(j, doomed).model = rows[j].model
        /\ Unlinked(j, doomed).tenant = rows[j].tenant
    BY <2>1, UnlinkedTypes
  <2> QED
    BY <2>1, <2>2
<1>3. IdsKept
  BY <1>1, <1>2 DEF IdsKept, RowsOK
<1>4. ASSUME NEW j \in Ids, rows[j] # None, NEW f \in ForeignKeys(rows[j].model)
      PROVE  /\ Columns[rows[j].model][f].onDelete \in
                  {"Cascade", "Restrict", "SetNull"}
             /\ Columns[rows[j].model][f].onDelete = "Cascade" =>
                  /\ rows[j].model \in Owned
                  /\ Columns[rows[j].model][f].target \notin Owned
  <2>1. rows[j].model \in Models
    BY <1>4, RowParts DEF RowsOK
  <2>2. /\ Columns[rows[j].model][f] \in References
        /\ Columns[rows[j].model][f].model = rows[j].model
    BY <1>4, <2>1, ForeignKeysOf, ColumnsAreReferences
  <2> QED
    BY <1>4, <2>2, ForeignKeysOf, OwnedReferences
<1>5. ASSUME NEW j \in Ids, rows'[j] # None,
             NEW f \in ForeignKeys(rows'[j].model), rows'[j].to[f] # None
      PROVE  /\ (rows[j].to[f] \in OfModel(Columns[rows[j].model][f].target))'
             /\ AtHome(rows[j].to[f], rows[j].tenant)'
  <2>1. /\ rows[j] # None /\ j \notin doomed
        /\ f \in ForeignKeys(rows[j].model) /\ f \in Fields(rows[j].model)
        /\ rows'[j] = Unlinked(j, doomed) /\ rows'[j].model = rows[j].model
        /\ rows'[j].tenant = rows[j].tenant
    BY <1>2, <1>5, ForeignKeysOf
  <2>2. /\ rows'[j].to[f] = rows[j].to[f]
        /\ ~(/\ Columns[rows[j].model][f].onDelete = "SetNull"
             /\ rows[j].to[f] \in doomed)
    BY <1>5, <2>1, UnlinkedTypes
  <2>3. PICK k : k = rows[j].to[f]
    OBVIOUS
  <2>4. /\ k \in Ids /\ rows[k] # None
        /\ rows[k].model = Columns[rows[j].model][f].target
        /\ AtHome(k, rows[j].tenant)
    BY <1>5, <2>1, <2>2, <2>3, OfModelRows DEF RowsLinked, Rows
  <2>5. k \notin doomed
    <3>1. SUFFICES ASSUME k \in doomed PROVE FALSE
      OBVIOUS
    <3>2. CASE Columns[rows[j].model][f].onDelete = "Restrict"
      <4>1. j \in Dependents(doomed, "Restrict")
        BY <2>1, <2>3, <3>1, <3>2 DEF Dependents, Rows
      <4> QED
        BY <1>1, <2>1, <4>1
    <3>3. CASE Columns[rows[j].model][f].onDelete = "Cascade"
      <4>1. rows[k].model \notin Owned
        BY <1>4, <2>1, <2>4, <3>3
      <4>2. k \notin Dependents({i}, "Cascade")
        BY <1>4, <4>1 DEF Dependents, Rows, ForeignKeys
      <4>3. k = i
        BY <1>1, <3>1, <4>2
      <4>4. j \in Dependents({i}, "Cascade")
        BY <2>1, <2>3, <3>3, <4>3 DEF Dependents, Rows
      <4> QED
        BY <1>1, <2>1, <4>4
    <3> QED
      BY <1>4, <2>1, <2>2, <2>3, <3>1, <3>2, <3>3
  <2>6. /\ rows'[k] = Unlinked(k, doomed)
        /\ Unlinked(k, doomed).model = rows[k].model
        /\ Unlinked(k, doomed).tenant = rows[k].tenant
        /\ Unlinked(k, doomed) # None
    BY <1>1, <2>4, <2>5, UnlinkedTypes, RowParts
  <2>7. (rows[j].to[f] \in OfModel(Columns[rows[j].model][f].target))'
    BY <2>1, <2>2, <2>3, <2>4, <2>6 DEF OfModel, Rows
  <2>8. AtHome(rows[j].to[f], rows[j].tenant)'
    BY <1>1, <2>1, <2>2, <2>3, <2>4, <2>6 DEF AtHome
  <2> QED
    BY <2>7, <2>8
<1>6. RowsLinked'
  BY <1>5 DEF RowsLinked, Rows
<1> QED
  BY <1>3, <1>6

\* What a body refers to is there.
LEMMA BodiesLinked ==
  ASSUME RecordsTypeOK, NEW c \in Callers, NEW m \in Models,
         NEW to \in Bodies(c, m), NEW r, r.model = m, r.to = to,
         r.tenant \in {None, c.tenant}, c.context # c.tenant => mixed'
  PROVE  Linked(r)
<1> SUFFICES ASSUME NEW f \in ForeignKeys(m), to[f] # None
             PROVE  /\ to[f] \in OfModel(Columns[m][f].target)
                    /\ \/ mixed' \/ r.tenant = None
                       \/ rows[to[f]].tenant = r.tenant
  BY DEF Linked
<1>1. f \in Fields(m) /\ Columns[m][f] \in References
  BY ForeignKeysOf, ColumnsAreReferences
<1>2. to[f] \in OfModel(Columns[m][f].target) /\ Visible(c, to[f])
  BY <1>1, BodiesTypes
<1>3. rows[to[f]].model \in SCOPED_MODELS
  BY <1>1, <1>2, OfModelRows, ScopedTargets
<1>4. c.context = c.tenant => rows[to[f]].tenant = c.tenant
  BY <1>2, <1>3, SeenTenant
<1> QED
  BY <1>2, <1>4

\* Nobody else has the key of the new row, if it has one.
FirstOfKey(r) ==
  \/ r.key = None
  \/ /\ r.model \in ById \union ByKey
     /\ Keyed(r.model, r.tenant, r.key) = {}

\* A new row that is no numbered document.
Adds(r) ==
  /\ FirstOfKey(r)
  /\ IsRow(r) /\ Linked(r) /\ r.model \notin NumberModels
  /\ Store(r) /\ disturbed' = disturbed /\ (mixed => mixed')

\* No row changes but in its status.
Alike ==
  /\ spent' = spent /\ disturbed' = disturbed /\ mixed' = mixed
  /\ \A i \in Ids :
       /\ rows'[i] = None <=> rows[i] = None
       /\ rows[i] # None =>
            /\ rows'[i].model = rows[i].model /\ rows'[i].to = rows[i].to
            /\ rows'[i].tenant = rows[i].tenant
            /\ rows'[i].number = rows[i].number
            /\ rows'[i].recent = rows[i].recent
            /\ rows'[i].key = rows[i].key

\* No model with keys lacks a tenant column.
LEMMA KeyedModels ==
  ASSUME NEW m \in ById \union ByKey
  PROVE  m \notin Untenanted
BY DEF ById, ByKey, Untenanted

\* The writes of one query.
LEMMA WriteKinds ==
  ASSUME RecordsTypeOK, NEW c \in Callers, Write(c)
  PROVE  /\ \/ \E r : Adds(r)
            \/ Alike
            \/ \E i \in Ids : \E to, s, recent, t, key, number :
                 Updates(c, i, to, s, recent, t, key, number)
            \/ \E i \in Ids : \E doomed \in SUBSET Ids : Deletes(c, i, doomed)
         /\ UNCHANGED <<work, paidRuns>>
<1>0. RowsOK /\ Story.routes \subseteq AllRoutes /\ Story.keys \subseteq Keys
  BY RowsTyped, StoryOK
<1>1. CASE Create(c)
  <2>0. PICK r \in Offered("create") :
          \E to \in Bodies(c, r.model), key \in BodyKeys(r.model) :
          /\ KeyFree(r.model, c.tenant, key, None)
          /\ Store(Row(r.model, c.tenant, to, TRUE, None, key))
          /\ Mix(c)
          /\ UNCHANGED <<work, story, disturbed, crossed, reached, paidRuns, faults>>
    BY <1>1, Zenon DEF Create
  <2>1. PICK to \in Bodies(c, r.model), key \in BodyKeys(r.model) :
          /\ KeyFree(r.model, c.tenant, key, None)
          /\ Store(Row(r.model, c.tenant, to, TRUE, None, key))
          /\ Mix(c)
          /\ UNCHANGED <<work, story, disturbed, crossed, reached, paidRuns, faults>>
    BY <2>0, Zenon
  <2>2. r.model \in Models /\ c.tenant \in Tenants
    BY <1>0, ModelsOfRoutes DEF Offered, Callers
  <2>3. /\ to \in Targets(r.model) /\ key \in Nullable(Keys)
        /\ key # None => r.model \in ById \union ByKey
    BY <2>2, BodiesTypes, BodyKeysTypes
  <2>4. PICK q : q = Row(r.model, c.tenant, to, TRUE, None, key)
    OBVIOUS
  <2>5. /\ IsRow(q) /\ q.model = r.model /\ q.to = to /\ q.key = key
        /\ q.tenant = IF r.model \in Untenanted THEN None ELSE c.tenant
    <3>1. IsRow(Row(r.model, c.tenant, to, TRUE, None, key))
      BY <2>2, <2>3, RowIsRow, NullIsNullable
    <3>2. /\ q.model = r.model /\ q.to = to /\ q.key = key
          /\ q.tenant = IF r.model \in Untenanted THEN None ELSE c.tenant
      BY <2>4 DEF Row
    <3> QED
      BY <2>4, <3>1, <3>2
  <2>6. mixed' = (mixed \/ c.context # c.tenant)
    BY <2>1 DEF Mix
  <2>7. Linked(q)
    BY <2>1, <2>2, <2>5, <2>6, BodiesLinked
  <2>8. FirstOfKey(q)
    <3>1. CASE key = None
      BY <2>5, <3>1 DEF FirstOfKey
    <3>2. CASE key # None
      <4>1. q.tenant = c.tenant
        BY <2>3, <2>5, <3>2, KeyedModels
      <4>2. Keyed(r.model, c.tenant, key) \subseteq {None}
        BY <2>1, <3>2 DEF KeyFree
      <4>3. None \notin Keyed(r.model, c.tenant, key)
        BY OfModelRows, BackofficeAssumption DEF Keyed
      <4> QED
        BY <2>3, <2>5, <3>2, <4>1, <4>2, <4>3 DEF FirstOfKey
    <3> QED
      BY <3>1, <3>2
  <2>9. r.model \notin NumberModels
    BY <1>0, RoutesOfNumbers DEF Offered
  <2>10. Adds(q)
    BY <2>1, <2>4, <2>5, <2>6, <2>7, <2>8, <2>9 DEF Adds
  <2> QED
    BY <2>1, <2>10
<1>2. CASE Update(c)
  <2>1. PICK i \in Ids : \E to, s, recent, t, key, number :
          Updates(c, i, to, s, recent, t, key, number)
    BY <1>0, <1>2, UpdateShape
  <2>2. UNCHANGED <<work, paidRuns>>
    BY <2>1 DEF Updates
  <2> QED
    BY <2>1, <2>2
<1>3. CASE SetStatus(c)
  <2>1. PICK i \in Ids : \E s \in Statuses : Marks(c, i, s)
    BY <1>3, SetStatusShape
  <2>2. PICK s \in Statuses : Marks(c, i, s)
    BY <2>1
  <2>3. rows[i] # None /\ IsRow(rows[i])
    BY <1>0, <2>2 DEF RowsOK, Marks
  <2>4. PICK q : q = [rows[i] EXCEPT !.status = s]
    OBVIOUS
  <2>5. SameButStatus(q, rows[i])
    BY <2>3, <2>4, MarkedRow
  <2>6. rows' = [rows EXCEPT ![i] = q] /\ q # None
    BY <1>0, <2>2, <2>3, <2>4, MarkedRow, RowParts DEF RowsOK, Marks
  <2>7. Alike
    BY <1>0, <2>2, <2>3, <2>5, <2>6 DEF Alike, SameButStatus, RowsOK, Marks
  <2> QED
    BY <2>2, <2>7 DEF Marks
<1>4. CASE Delete(c)
  BY <1>4, DeleteShape DEF Deletes
<1>5. CASE Install(c)
  <2>1. PICK r \in Offered("install"), key \in Story.keys :
          LET found == Keyed(r.model, c.tenant, key)
          IN /\ \/ /\ found = {}
                   /\ Store(Row(r.model, c.tenant, <<>>, TRUE, None, key))
                \/ /\ rows' = [j \in Ids |-> IF j \in found
                         THEN [rows[j] EXCEPT !.status = "first"] ELSE rows[j]]
                   /\ UNCHANGED spent
             /\ UNCHANGED <<work, disturbed, mixed, paidRuns>>
    BY <1>5 DEF Install, tenancyVars
  <2>2. PICK found : found = Keyed(r.model, c.tenant, key)
    OBVIOUS
  <2>3. found \in SUBSET Ids /\ \A i \in found : rows[i] # None
    BY <2>2, OfModelRows DEF Keyed
  <2>4. CASE found = {} /\ Store(Row(r.model, c.tenant, <<>>, TRUE, None, key))
    <3>1. r.model = "Plugin" /\ c.tenant \in Tenants /\ key \in Nullable(Keys)
      BY <1>0, RoutesOfNumbers, NullIsNullable DEF Offered, Callers
    <3>2. <<>> \in Targets("Plugin") /\ "Plugin" \in Models
          /\ Fields("Plugin") = {}
      BY FieldsOfModels DEF Targets, Plain
    <3>3. PICK q : q = Row(r.model, c.tenant, <<>>, TRUE, None, key)
      OBVIOUS
    <3>4. /\ IsRow(q) /\ q.model = "Plugin" /\ q.key = key
          /\ q.tenant = c.tenant
      <4>1. IsRow(Row("Plugin", c.tenant, <<>>, TRUE, None, key))
        BY <3>1, <3>2, RowIsRow, NullIsNullable
      <4>2. q.model = "Plugin" /\ q.key = key /\ q.tenant = c.tenant
        BY <3>1, <3>3 DEF Row, Untenanted
      <4> QED
        BY <3>1, <3>3, <4>1, <4>2
    <3>5. Linked(q)
      BY <3>2, <3>4, ForeignKeysOf DEF Linked
    <3>6. FirstOfKey(q)
      BY <2>2, <2>4, <3>1, <3>4 DEF FirstOfKey, ByKey
    <3>7. Adds(q)
      BY <2>1, <2>4, <3>3, <3>4, <3>5, <3>6 DEF Adds, NumberModels
    <3> QED
      BY <2>1, <3>7
  <2>5. CASE /\ rows' = [j \in Ids |-> IF j \in found
                         THEN [rows[j] EXCEPT !.status = "first"] ELSE rows[j]]
             /\ UNCHANGED spent
    <3>1. ASSUME NEW j \in Ids
          PROVE  /\ rows'[j] = None <=> rows[j] = None
                 /\ rows[j] # None => SameButStatus(rows'[j], rows[j])
      <4>1. CASE j \in found
        <5>1. PICK q : q = [rows[j] EXCEPT !.status = "first"]
          OBVIOUS
        <5>2. SameButStatus(q, rows[j]) /\ q # None
          BY <1>0, <2>3, <4>1, <5>1, MarkedRow, RowParts DEF RowsOK, Statuses
        <5> QED
          BY <2>3, <2>5, <4>1, <5>1, <5>2
      <4>2. CASE j \notin found
        BY <2>5, <4>2 DEF SameButStatus
      <4> QED
        BY <4>1, <4>2
    <3>2. Alike
      BY <2>1, <2>5, <3>1 DEF Alike, SameButStatus
    <3> QED
      BY <2>1, <3>2
  <2> QED
    BY <2>1, <2>2, <2>4, <2>5
<1> QED
  BY <1>1, <1>2, <1>3, <1>4, <1>5 DEF Write

LEMMA WriteLinks ==
  ASSUME RecordsTypeOK, RowsLinked, NEW c \in Callers, Write(c)
  PROVE  IdsKept /\ RowsLinked' /\ UNCHANGED work
<1>0. RowsOK /\ UNCHANGED work
  BY RowsTyped, WriteKinds
<1>1. ASSUME NEW r, Adds(r)
      PROVE  IdsKept /\ RowsLinked'
  BY <1>0, <1>1, StoreLinks DEF Adds
<1>2. CASE Alike
  <2>1. IdsKept
    BY <1>0, <1>2 DEF Alike, IdsKept, RowsOK
  <2>2. \A m : OfModel(m) \subseteq OfModel(m)'
    BY <1>2 DEF Alike, OfModel, Rows
  <2>3. \A m : \A k \in OfModel(m) : rows'[k].tenant = rows[k].tenant
    BY <1>2, OfModelRows DEF Alike
  <2>4. ASSUME NEW j \in Ids, rows'[j] # None,
               NEW f \in ForeignKeys(rows'[j].model), rows'[j].to[f] # None
        PROVE  /\ rows'[j].to[f] \in OfModel(Columns[rows'[j].model][f].target)
               /\ \/ mixed' \/ rows'[j].tenant = None
                  \/ rows'[rows'[j].to[f]].tenant = rows'[j].tenant
    <3>1. /\ rows[j] # None /\ rows'[j].model = rows[j].model
          /\ rows'[j].to = rows[j].to /\ rows'[j].tenant = rows[j].tenant
          /\ mixed' = mixed
      BY <1>2, <2>4 DEF Alike
    <3>2. /\ rows[j].to[f] \in OfModel(Columns[rows[j].model][f].target)
          /\ AtHome(rows[j].to[f], rows[j].tenant)
      BY <2>4, <3>1 DEF RowsLinked, Rows
    <3> QED
      BY <2>3, <3>1, <3>2 DEF AtHome
  <2>5. ASSUME NEW j \in Ids, rows'[j] # None,
               NEW f \in ForeignKeys(rows'[j].model), rows'[j].to[f] # None
        PROVE  (/\ rows[j].to[f] \in OfModel(Columns[rows[j].model][f].target)
                /\ AtHome(rows[j].to[f], rows[j].tenant))'
    BY <2>2, <2>4, <2>5 DEF AtHome
  <2>6. RowsLinked'
    BY <2>5 DEF RowsLinked, Rows
  <2> QED
    BY <1>0, <2>1, <2>6
<1>3. ASSUME NEW i \in Ids, NEW to, NEW s, NEW recent, NEW t, NEW key,
             NEW number, Updates(c, i, to, s, recent, t, key, number)
      PROVE  IdsKept /\ RowsLinked'
  <2>1. PICK q : q = Updated(rows[i], to, s, recent, t, key, number)
    OBVIOUS
  <2>2. /\ IsRow(q) /\ q.model = rows[i].model /\ q.to = to /\ q.tenant = t
        /\ rows' = [rows EXCEPT ![i] = q] /\ rows[i].model \in SCOPED_MODELS
    BY <1>3, <2>1, UpdateTypes
  <2>3. /\ rows[i] # None /\ to \in Patched(c, i) /\ Visible(c, i)
        /\ mixed' = (mixed \/ c.context # c.tenant \/ t # rows[i].tenant)
        /\ spent' = spent
    BY <1>3 DEF Updates
  <2>4. IsRow(rows[i]) /\ rows[i].model \in Models
    BY <1>0, <2>3, RowParts DEF RowsOK
  <2>5. ASSUME NEW f \in ForeignKeys(rows[i].model), to[f] # None
        PROVE  /\ to[f] \in OfModel(Columns[rows[i].model][f].target)
               /\ mixed' \/ t = None \/ rows[to[f]].tenant = t
    <3>1. /\ f \in Fields(rows[i].model)
          /\ Columns[rows[i].model][f] \in References
      BY <2>4, ForeignKeysOf, ColumnsAreReferences
    <3>2. CASE to[f] = rows[i].to[f]
      <4>1. /\ to[f] \in OfModel(Columns[rows[i].model][f].target)
            /\ AtHome(to[f], rows[i].tenant)
        BY <2>3, <2>5, <3>2 DEF RowsLinked, Rows
      <4> QED
        BY <2>3, <4>1 DEF AtHome
    <3>3. CASE to[f] # rows[i].to[f]
      <4>1. /\ to[f] \in OfModel(Columns[rows[i].model][f].target)
            /\ Visible(c, to[f])
        BY <1>0, <2>3, <2>5, <3>1, <3>3, PatchedTypes
      <4>2. rows[to[f]].model \in SCOPED_MODELS
        BY <3>1, <4>1, OfModelRows, ScopedTargets
      <4>3. c.context = c.tenant => /\ rows[to[f]].tenant = c.tenant
                                    /\ rows[i].tenant = c.tenant
        BY <2>2, <2>3, <4>1, <4>2, SeenTenant
      <4> QED
        BY <2>3, <4>1, <4>3
    <3> QED
      BY <3>2, <3>3
  <2>6. Linked(q)
    BY <2>2, <2>5 DEF Linked
  <2> QED
    BY <1>0, <2>2, <2>3, <2>6, ChangeLinks
<1>4. ASSUME NEW i \in Ids, NEW doomed \in SUBSET Ids, Deletes(c, i, doomed)
      PROVE  IdsKept /\ RowsLinked'
  BY <1>0, <1>4, DeleteLinks
<1> QED
  BY <1>0, <1>1, <1>2, <1>3, <1>4, WriteKinds

\* The columns of the seed's rows lead to what earlier steps made.
SeedLink(n) ==
  \A f \in DOMAIN Seed[n].to :
    \/ Seed[n].to[f] = NoKey
    \/ \E k \in 1..(n - 1) :
         /\ Seed[n].to[f] = Seed[k].key
         /\ Seed[k].model = Columns[Seed[n].model][f].target
         /\ Seed[k].model \notin ById

LEMMA SeedLinks == \A n \in 1..9 : SeedLink(n)
<1>1. \A n \in 1..9 : n # 2 /\ n # 6 => DOMAIN Seed[n].to = {}
  <2>1. \A n \in 1..9 : n # 2 /\ n # 6 => Seed[n].to = Nothing
    BY SeedTable, SeedRowFields
  <2> QED
    BY <2>1, NothingIsEmpty
<1>2. SeedLink(2)
  <2>1. Seed[2].to = [parent |-> NoKey]
    BY SeedTable, SeedRowFields
  <2> QED
    BY <2>1 DEF SeedLink
<1>3. SeedLink(6)
  <2>1. /\ Seed[6].model = "StockMove"
        /\ Seed[6].to = [product |-> "COFFEE-LRG", to |-> "WH-MAIN",
                         from |-> NoKey]
        /\ Seed[4].key = "WH-MAIN" /\ Seed[4].model = "Warehouse"
        /\ Seed[5].key = "COFFEE-LRG" /\ Seed[5].model = "Product"
    BY SeedTable, SeedRowFields
  <2>2. "StockMove" \in Models /\ Fields("StockMove") = {"product", "from", "to"}
    BY FieldsOfModels
  <2>3. /\ Columns["StockMove"]["product"].target = "Product"
        /\ Columns["StockMove"]["to"].target = "Warehouse"
    BY <2>2, ColumnsAreReferences, PlainReferences
  <2>4. /\ DOMAIN Seed[6].to = {"product", "to", "from"}
        /\ Seed[6].to["product"] = "COFFEE-LRG" /\ Seed[6].to["to"] = "WH-MAIN"
        /\ Seed[6].to["from"] = NoKey
    BY <2>1
  <2>5. ASSUME NEW f \in {"product", "to", "from"}
        PROVE  \/ Seed[6].to[f] = NoKey
               \/ \E k \in 1..(6 - 1) :
                    /\ Seed[6].to[f] = Seed[k].key
                    /\ Seed[k].model = Columns[Seed[6].model][f].target
                    /\ Seed[k].model \notin ById
    BY <2>1, <2>3, <2>4 DEF ById
  <2> QED
    BY <2>4, <2>5 DEF SeedLink
<1> QED
  BY <1>1, <1>2, <1>3 DEF SeedLink

\* The keys of the seed are distinct.
LEMMA SeedKeys == \A k, n \in 1..9 : Seed[k].key = Seed[n].key => k = n
<1>1. /\ Seed[1].key = "company" /\ Seed[2].key = "1000"
      /\ Seed[3].key = "vat15" /\ Seed[4].key = "WH-MAIN"
      /\ Seed[5].key = "COFFEE-LRG" /\ Seed[6].key = "opening-stock"
      /\ Seed[7].key = "cust1" /\ Seed[8].key = "emp1" /\ Seed[9].key = "pos1"
  BY SeedTable, SeedRowFields
<1> QED
  BY <1>1

LEMMA SeedTenanted == \A n \in 1..9 : Seed[n].model \notin Untenanted
BY SeedTable, SeedRowFields DEF Untenanted

LEMMA SeedStepLinks ==
  ASSUME TypeInv, LinksOK, NEW w \in Workers, SeedStep(w)
  PROVE  LinksOK'
<1>1. /\ RowsOK /\ JobsOK /\ SeedDoes(w) /\ RowsLinked /\ PendingOK(work[w])
      /\ mixed' = mixed
  BY TypeParts, SeedShape DEF LinksOK, SeedDoes, tenancyVars
<1>2. PICK j : j = work[w]
  OBVIOUS
<1>3. /\ IsSeeding(j) /\ j.at = "seed" /\ PendingOK(j) /\ j.next \in 1..9
      /\ j.made[NoKey] = None
  BY <1>1, <1>2, JobOfAwait, SeedSteps DEF JobsOK, SeedDoes, IsSeeding
<1>4. ASSUME NEW i, IdsKept,
             LeadsTo(i, Seed[j.next].model, KeyTenant(Seed[j.next].model))'
      PROVE  PendingOK(Remember(j, i))'
  <2>1. CASE j.next = 9
    BY <2>1, IdleIsPending, SeedSteps DEF Remember
  <2>2. CASE j.next # 9
    <3>1. PICK key : key = Seed[j.next].key
      OBVIOUS
    <3>2. PICK m : m = [k \in DOMAIN j.made \union {key} |->
                          IF k = key THEN i ELSE j.made[k]]
      OBVIOUS
    <3>3. PICK q : q = [at |-> "seed", next |-> j.next + 1, made |-> m]
      OBVIOUS
    <3>4. Remember(j, i) = q
      BY <2>2, <3>1, <3>2, <3>3, SeedSteps DEF Remember
    <3>5. q.at = "seed" /\ q.next - 1 = j.next /\ q.made = m
      BY <1>3, <3>3
    <3>6. ASSUME NEW k \in 1..j.next
          PROVE  LeadsTo(m[Seed[k].key], Seed[k].model, KeyTenant(Seed[k].model))'
      <4>1. CASE k = j.next
        BY <1>4, <3>1, <3>2, <4>1
      <4>2. CASE k # j.next
        <5>1. k \in 1..(j.next - 1) /\ k \in 1..9
          BY <1>3, <4>2
        <5>2. Seed[k].key \in DOMAIN j.made /\ Seed[k].key # key
          BY <1>3, <3>1, <4>2, <5>1, SeedKeys DEF IsSeeding
        <5>3. m[Seed[k].key] = j.made[Seed[k].key]
          BY <3>2, <5>2
        <5>4. PendingOK(j)'
          BY <1>3, <1>4, PendingKept
        <5>5. LeadsTo(j.made[Seed[k].key], Seed[k].model,
                      KeyTenant(Seed[k].model))'
          BY <1>3, <5>1, <5>4 DEF PendingOK
        <5> QED
          BY <5>3, <5>5
      <4> QED
        BY <4>1, <4>2
    <3>7. PendingOK(q)'
      BY <3>5, <3>6 DEF PendingOK
    <3> QED
      BY <3>4, <3>7
  <2> QED
    BY <2>1, <2>2
<1>5. CASE work' = [work EXCEPT ![w] = Idle] /\ UNCHANGED <<rows, spent>>
  BY <1>1, <1>5, SameRows, LinksKept, IdleIsPending
<1>6. ASSUME NEW i \in Found(Seed[j.next]), UNCHANGED <<rows, spent>>,
             work' = [work EXCEPT ![w] = Remember(j, i)]
      PROVE  LinksOK'
  <2>1. /\ i \in OfModel(Seed[j.next].model)
        /\ Seed[j.next].model \in ById \/ rows[i].tenant = SeedTenant
    BY DEF Found, Keyed
  <2>2. LeadsTo(i, Seed[j.next].model, KeyTenant(Seed[j.next].model))'
    BY <1>1, <1>6, <2>1, OfModelRows
       DEF LeadsTo, RowsOK, AtHome, KeyTenant
  <2>3. IdsKept /\ RowsLinked'
    BY <1>1, <1>6, SameRows
  <2>4. PendingOK(Remember(j, i))'
    BY <1>4, <2>2, <2>3
  <2>5. PICK q : q = Remember(j, i)
    OBVIOUS
  <2> QED
    BY <1>1, <1>6, <2>3, <2>4, <2>5, LinksKept
<1>7. CASE /\ KeysHold(Seed[j.next].model, SeedTo(j))
           /\ Store(SeedRowOf(j))
           /\ work' = [work EXCEPT ![w] = Remember(j, FreshId)]
  <2>1. IsRow(SeedRowOf(j)) /\ Seed[j.next].model \in Models
        /\ SeedTo(j) \in Targets(Seed[j.next].model)
    BY <1>3, SeedJob
  <2>2. PICK r : r = SeedRowOf(j)
    OBVIOUS
  <2>3. /\ r.model = Seed[j.next].model /\ r.to = SeedTo(j)
        /\ r.tenant = SeedTenant
    BY <1>3, <2>2, SeedTenanted DEF SeedRowOf, Row
  <2>4. Linked(r)
    <3> SUFFICES ASSUME NEW f \in ForeignKeys(r.model), r.to[f] # None
                 PROVE  /\ r.to[f] \in OfModel(Columns[r.model][f].target)
                        /\ mixed' \/ rows[r.to[f]].tenant = r.tenant
      BY DEF Linked
    <3>1. f \in DOMAIN Seed[j.next].to
      BY <1>3, <2>3, SeedSteps, ForeignKeysOf DEF StepOK
    <3>2. r.to[f] = j.made[Seed[j.next].to[f]]
      BY <2>3, <3>1 DEF SeedTo
    <3>3. Seed[j.next].to[f] # NoKey
      BY <1>3, <3>2
    <3>4. PICK k \in 1..(j.next - 1) :
            /\ Seed[j.next].to[f] = Seed[k].key
            /\ Seed[k].model = Columns[Seed[j.next].model][f].target
            /\ Seed[k].model \notin ById
      BY <1>3, <3>1, <3>3, SeedLinks DEF SeedLink
    <3>5. LeadsTo(r.to[f], Columns[r.model][f].target, SeedTenant)
      BY <1>3, <2>3, <3>2, <3>4 DEF PendingOK, KeyTenant
    <3>6. rows[r.to[f]] # None
      BY <1>7, <2>3 DEF KeysHold
    <3>7. SeedTenant # None
      BY BackofficeAssumption
    <3> QED
      BY <1>1, <2>3, <3>5, <3>6, <3>7 DEF LeadsTo, OfModel, Rows, RowsOK, AtHome
  <2>5. /\ IdsKept /\ RowsLinked'
        /\ FreshId \in spent' /\ rows'[FreshId] = r
    BY <1>1, <1>7, <2>1, <2>2, <2>4, StoreLinks
  <2>6. PICK n : n = FreshId
    OBVIOUS
  <2>7. LeadsTo(n, Seed[j.next].model, KeyTenant(Seed[j.next].model))'
    BY <2>3, <2>5, <2>6 DEF LeadsTo, AtHome, KeyTenant
  <2>8. PendingOK(Remember(j, n))'
    BY <1>4, <2>5, <2>7
  <2>9. PICK q : q = Remember(j, n)
    OBVIOUS
  <2> QED
    BY <1>1, <1>7, <2>5, <2>6, <2>8, <2>9, LinksKept
<1> QED
  BY <1>1, <1>2, <1>5, <1>6, <1>7 DEF SeedDoes

\* Counting and finding employees leave the rows alone.
LEMMA BeginLinks ==
  ASSUME TypeInv, LinksOK, NEW c \in Callers, NEW w \in Workers, Begin(w, c)
  PROVE  LinksOK'
<1>1. RowsOK /\ JobsOK /\ RecordsTypeOK /\ RowsLinked
  BY TypeParts DEF TypeInv, BackofficeTypeOK, LinksOK
<1>2. CASE BeginNumber(w, c)
  <2>1. PICK r \in Offered("number") : \E to \in Bodies(c, r.model),
          recent \in BOOLEAN : \E number :
            BeginsNumber(w, c, r.model, to, number, recent)
    BY <1>2, BeginNumberShape
  <2>2. PICK to \in Bodies(c, r.model), recent \in BOOLEAN : \E number :
          BeginsNumber(w, c, r.model, to, number, recent)
    BY <2>1
  <2>3. PICK number : BeginsNumber(w, c, r.model, to, number, recent)
    BY <2>2
  <2>4. r.model \in Models
    BY <1>1, StoryOK, ModelsOfRoutes DEF Offered
  <2>5. PICK j : j = [at |-> "insert", caller |-> c, model |-> r.model,
                      to |-> to, recent |-> recent, number |-> number]
    OBVIOUS
  <2>6. /\ work' = [work EXCEPT ![w] = j] /\ UNCHANGED <<rows, spent>>
        /\ mixed' = (mixed \/ c.context # c.tenant)
    BY <2>3, <2>5 DEF BeginsNumber, Mix
  <2>7. j.at = "insert" /\ j.model = r.model /\ j.to = to /\ j.caller = c
    BY <2>5
  <2>8. ASSUME NEW f \in ForeignKeys(r.model), to[f] # None
        PROVE  LeadsTo(to[f], Columns[r.model][f].target, c.tenant)'
    <3>1. f \in Fields(r.model) /\ Columns[r.model][f] \in References
      BY <2>4, ForeignKeysOf, ColumnsAreReferences
    <3>2. to[f] \in OfModel(Columns[r.model][f].target) /\ Visible(c, to[f])
      BY <1>1, <2>4, <2>8, <3>1, BodiesTypes
    <3>3. /\ to[f] \in Ids /\ rows[to[f]] # None
          /\ rows[to[f]].model = Columns[r.model][f].target
      BY <3>2, OfModelRows
    <3>4. c.context = c.tenant => rows[to[f]].tenant = c.tenant
      BY <3>1, <3>2, <3>3, ScopedTargets, SeenTenant
    <3> QED
      BY <1>1, <2>6, <3>3, <3>4 DEF LeadsTo, RowsOK, AtHome
  <2>9. PendingOK(j)'
    BY <2>7, <2>8 DEF PendingOK
  <2>10. IdsKept /\ RowsLinked'
    BY <1>1, <2>6, SameRows
  <2> QED
    BY <1>1, <2>6, <2>9, <2>10, LinksKept
<1>3. CASE BeginPayroll(w, c)
  <2>1. PICK S : /\ S = {i \in OfModel("Employee") : /\ Visible(c, i)
                                                    /\ rows[i].status = "first"}
                 /\ work' = [work EXCEPT ![w] = [at |-> "slips", caller |-> c,
                      left |-> S, found |-> S, slips |-> {}]]
                 /\ UNCHANGED <<rows, spent>>
                 /\ mixed' = (mixed \/ c.context # c.tenant)
    BY <1>3 DEF BeginPayroll, Mix
  <2>2. PICK j : j = [at |-> "slips", caller |-> c, left |-> S, found |-> S,
                      slips |-> {}]
    OBVIOUS
  <2>3. ASSUME NEW e \in S
        PROVE  LeadsTo(e, "Employee", c.tenant)'
    <3>1. e \in OfModel("Employee") /\ Visible(c, e)
      BY <2>1, <2>3
    <3>2. e \in Ids /\ rows[e] # None /\ rows[e].model = "Employee"
      BY <3>1, OfModelRows
    <3>3. "Employee" \in SCOPED_MODELS
      BY DEF SCOPED_MODELS
    <3>4. c.context = c.tenant => rows[e].tenant = c.tenant
      BY <3>1, <3>2, <3>3, SeenTenant
    <3> QED
      BY <1>1, <2>1, <3>2, <3>4 DEF LeadsTo, RowsOK, AtHome
  <2>4. j.at = "slips" /\ j.left = S /\ j.caller = c
    BY <2>2
  <2>5. PendingOK(j)'
    BY <2>3, <2>4 DEF PendingOK
  <2>6. IdsKept /\ RowsLinked'
    BY <1>1, <2>1, SameRows
  <2> QED
    BY <1>1, <2>1, <2>2, <2>5, <2>6, LinksKept
<1> QED
  BY <1>2, <1>3 DEF Begin

LEMMA ContinueLinks ==
  ASSUME TypeInv, LinksOK, NEW w \in Workers, Continue(w)
  PROVE  LinksOK'
<1>1. RowsOK /\ JobsOK /\ RowsLinked /\ mixed' = mixed
  BY TypeParts DEF LinksOK, Continue, InsertNumbered, InsertSlip, AnswerPayroll,
                   tenancyVars
<1>2. PICK j : j = work[w]
  OBVIOUS
<1>3. PendingOK(j) /\ JobOK(j)
  BY <1>1, <1>2 DEF LinksOK, JobsOK
<1>4. CASE InsertNumbered(w)
  <2>1. j \in Inserting /\ j.to \in Targets(j.model) /\ j.at = "insert"
    BY <1>2, <1>3, <1>4, JobOfAwait DEF InsertNumbered
  <2>2. work' = [work EXCEPT ![w] = Idle]
    BY <1>4 DEF InsertNumbered
  <2>3. IdsKept /\ RowsLinked'
    <3>1. CASE KeysHold(j.model, j.to) /\ Store(NewDocument(w))
      <4>1. PICK r : r = NewDocument(w)
        OBVIOUS
      <4>2. /\ r.model = j.model /\ r.to = j.to
            /\ r.tenant \in {None, j.caller.tenant}
        BY <1>2, <4>1 DEF NewDocument, Row
      <4>3. IsRow(r)
        BY <1>2, <2>1, <4>1, NewDocumentIsRow
      <4>4. Linked(r)
        <5>1. ASSUME NEW f \in ForeignKeys(j.model), j.to[f] # None
              PROVE  /\ j.to[f] \in OfModel(Columns[j.model][f].target)
                     /\ \/ mixed' \/ r.tenant = None
                        \/ rows[j.to[f]].tenant = r.tenant
          <6>1. LeadsTo(j.to[f], Columns[j.model][f].target, j.caller.tenant)
            BY <1>3, <2>1, <5>1 DEF PendingOK
          <6>2. rows[j.to[f]] # None
            BY <3>1, <5>1 DEF KeysHold
          <6> QED
            BY <1>1, <4>2, <6>1, <6>2 DEF LeadsTo, OfModel, Rows, RowsOK, AtHome
        <5> QED
          BY <4>2, <5>1 DEF Linked
      <4> QED
        BY <1>1, <3>1, <4>1, <4>3, <4>4, StoreLinks
    <3>2. CASE UNCHANGED <<rows, spent>>
      BY <1>1, <3>2, SameRows
    <3> QED
      BY <1>2, <1>4, <3>1, <3>2 DEF InsertNumbered, NewDocument
  <2> QED
    BY <1>1, <2>2, <2>3, IdleIsPending, LinksKept
<1>5. CASE InsertSlip(w)
  <2>1. PICK e \in Ids : Slips(w, e)
    BY <1>1, <1>5, InsertSlipShape
  <2>2. j \in Paying /\ j.at = "slips" /\ e \in j.left
    BY <1>1, <1>2, <1>5, <2>1, InsertSlipShape DEF Slips
  <2>3. LeadsTo(e, "Employee", j.caller.tenant)
    BY <1>3, <2>2 DEF PendingOK
  <2>4. CASE /\ rows[e] # None
             /\ Store(Slip(w, e))
             /\ work' = [work EXCEPT ![w] = Paid(j, e, FreshId)]
    <3>1. "Payslip" \in Models /\ Fields("Payslip") = {"employee"}
      BY FieldsOfModels DEF Owned
    <3>2. Columns["Payslip"]["employee"].target = "Employee"
      BY <3>1, ColumnsAreReferences, PlainReferences
    <3>3. PICK r, to : r = Slip(w, e) /\ to = [employee |-> e]
      OBVIOUS
    <3>4. /\ r.model = "Payslip" /\ r.to = to /\ to["employee"] = e
          /\ r.tenant \in {None, j.caller.tenant}
      BY <1>2, <3>3 DEF Slip, Row
    <3>5. IsRow(r)
      <4>1. to \in Targets("Payslip")
        BY <3>1, <3>3 DEF Targets, Nullable
      <4>2. j.caller.tenant \in Tenants
        BY <2>2 DEF Paying, Callers
      <4>3. IsRow(Row("Payslip", j.caller.tenant, to, TRUE, None, None))
        BY <3>1, <4>1, <4>2, RowIsRow, NullIsNullable
      <4> QED
        BY <1>2, <3>3, <4>3 DEF Slip
    <3>6. Linked(r)
      <4>1. ForeignKeys("Payslip") \subseteq {"employee"}
        BY <3>1, ForeignKeysOf
      <4>2. e \in OfModel("Employee") /\ AtHome(e, j.caller.tenant)
        BY <1>1, <2>1, <2>3, <2>4 DEF LeadsTo, OfModel, Rows
      <4> QED
        BY <1>1, <3>2, <3>4, <4>1, <4>2 DEF Linked, AtHome
    <3>7. IdsKept /\ RowsLinked' /\ FreshId \in Ids
      BY <1>1, <2>4, <3>3, <3>5, <3>6, StoreLinks, StoreTypes
    <3>8. PICK q : q = Paid(j, e, FreshId)
      OBVIOUS
    <3>9. q.at = "slips" /\ q.left \subseteq j.left /\ q.caller = j.caller
      BY <2>2, <3>7, <3>8, PaidJob DEF Paying
    <3>10. PendingOK(j)'
      BY <1>3, <3>7, PendingKept
    <3>11. PendingOK(q)'
      BY <2>2, <3>9, <3>10 DEF PendingOK
    <3> QED
      BY <1>1, <2>4, <3>7, <3>8, <3>11, LinksKept
  <2>5. CASE work' = [work EXCEPT ![w] = Idle] /\ UNCHANGED <<rows, spent>>
    BY <1>1, <2>5, SameRows, LinksKept, IdleIsPending
  <2> QED
    BY <1>2, <2>1, <2>4, <2>5 DEF Slips
<1>6. CASE AnswerPayroll(w)
  <2>1. work' = [work EXCEPT ![w] = Idle] /\ UNCHANGED <<rows, spent>>
    BY <1>6 DEF AnswerPayroll
  <2> QED
    BY <1>1, <2>1, SameRows, LinksKept, IdleIsPending
<1> QED
  BY <1>4, <1>5, <1>6 DEF Continue

LEMMA LinksStay == TypeInv /\ LinksOK /\ [Next]_vars => LinksOK'
<1> SUFFICES ASSUME TypeInv, LinksOK, [Next]_vars PROVE LinksOK'
  OBVIOUS
<1>0. /\ JobsOK /\ RowsOK /\ RecordsTypeOK /\ Story.callers \subseteq Callers
      /\ RowsLinked
  BY TypeParts, StoryOK DEF TypeInv, BackofficeTypeOK, LinksOK
<1>1. ASSUME NEW c \in Story.callers, Write(c)
      PROVE  LinksOK'
  BY <1>0, <1>1, WriteLinks, LinksKeptByOthers
<1>2. ASSUME NEW c \in Story.callers, NEW w \in Workers, Begin(w, c)
      PROVE  LinksOK'
  BY <1>0, <1>2, BeginLinks
<1>3. ASSUME NEW w \in Workers, ContinueAudited(w)
      PROVE  LinksOK'
  BY <1>3, ContinueLinks DEF ContinueAudited, Continue
<1>4. ASSUME NEW w \in Workers, NEW j, work' = [work EXCEPT ![w] = j],
             PendingOK(j), UNCHANGED <<rows, spent, mixed>>
      PROVE  LinksOK'
  <2>1. IdsKept /\ RowsLinked' /\ PendingOK(j)'
    BY <1>0, <1>4, SameRows, PendingKept
  <2> QED
    BY <1>0, <1>4, <2>1, LinksKept
<1>5. ASSUME NEW w \in Workers, NEW c \in Story.callers, BeginBranding(w, c)
      PROVE  LinksOK'
  <2>1. PICK patch \in Patches :
          work' = [work EXCEPT ![w] = [at |-> "branding", caller |-> c,
                     patch |-> patch, merged |-> Merged(c.tenant, patch)]]
    BY <1>5 DEF BeginBranding
  <2>2. PICK j : j = [at |-> "branding", caller |-> c, patch |-> patch,
                      merged |-> Merged(c.tenant, patch)]
    OBVIOUS
  <2>3. j.at = "branding"
    BY <2>2
  <2>4. PendingOK(j)
    BY <2>3 DEF PendingOK
  <2>5. UNCHANGED <<rows, spent, mixed>>
    BY <1>5 DEF BeginBranding, tenancyVars
  <2> QED
    BY <1>4, <2>1, <2>2, <2>4, <2>5
<1>6. ASSUME NEW w \in Workers, WriteBranding(w)
      PROVE  LinksOK'
  <2>1. work' = [work EXCEPT ![w] = Idle] /\ UNCHANGED <<rows, spent, mixed>>
    BY <1>6 DEF WriteBranding, tenancyVars
  <2> QED
    BY <1>4, <2>1, IdleIsPending
<1>7. ASSUME NEW w \in Workers, BeginSeed(w)
      PROVE  LinksOK'
  <2>1. PICK m : m = [k \in {NoKey} |-> None]
    OBVIOUS
  <2>2. PICK j : j = [at |-> "seed", next |-> 1, made |-> m]
    OBVIOUS
  <2>3. work' = [work EXCEPT ![w] = j] /\ UNCHANGED <<rows, spent, mixed>>
    BY <1>7, <2>1, <2>2, BeginSeedShape DEF tenancyVars
  <2>4. j.at = "seed" /\ 1..(j.next - 1) = {}
    BY <2>2
  <2>5. PendingOK(j)
    BY <2>4 DEF PendingOK
  <2> QED
    BY <1>4, <2>3, <2>5
<1>8. ASSUME NEW w \in Workers, SeedStep(w)
      PROVE  LinksOK'
  BY <1>8, SeedStepLinks
<1>9. ASSUME NEW x \in Contexts, RecordAudit(x)
      PROVE  LinksOK'
  <2>1. UNCHANGED <<rows, spent, work, mixed>>
    BY <1>9 DEF RecordAudit, tenancyVars
  <2> QED
    BY <1>0, <2>1, SameRows, LinksKeptByOthers
<1>10. CASE FailOrCrash
  <2>1. /\ \A w \in Workers : work'[w] = Idle \/ work'[w] = work[w]
        /\ UNCHANGED <<rows, spent, mixed>>
    BY <1>10, FailShape DEF tenancyVars
  <2> QED
    BY <1>0, <2>1, SameRows, LinksKeptByOthers
<1>11. CASE UNCHANGED vars
  <2>1. UNCHANGED recordVars
    BY <1>11 DEF vars
  <2>2. UNCHANGED <<rows, spent, work, mixed>>
    BY <2>1 DEF recordVars
  <2> QED
    BY <1>0, <2>2, SameRows, LinksKeptByOthers
<1> QED
  BY <1>1, <1>2, <1>3, <1>5, <1>6, <1>7, <1>8, <1>9, <1>10, <1>11 DEF Next

LEMMA InitLinks == Init => LinksOK
<1> SUFFICES ASSUME Init PROVE LinksOK
  OBVIOUS
<1>0. /\ rows = [i \in Ids |-> IF i \in DOMAIN Story.rows
                              THEN Story.rows[i] ELSE None]
      /\ DOMAIN Story.rows \subseteq Ids
  <2>1. story \in DOMAIN Stories
    BY DEF Init, RecordsInit
  <2>2. DOMAIN Story.rows \subseteq Ids
    BY <2>1, BackofficeAssumption DEF Story
  <2> QED
    BY <2>2 DEF Init, RecordsInit
<1>1. PICK g : g = Story.rows
  OBVIOUS
<1>2. /\ rows = [i \in Ids |-> IF i \in DOMAIN g THEN g[i] ELSE None]
      /\ DOMAIN g \subseteq Ids
  BY <1>0, <1>1
<1>3. \A i \in DOMAIN g : IsRow(g[i])
  BY <1>1, BackofficeAssumption DEF Init, RecordsInit, Story
<1>4. \A i \in DOMAIN g : \A f \in Fields(g[i].model) :
        g[i].to[f] # None =>
          /\ g[i].to[f] \in DOMAIN g
          /\ g[g[i].to[f]].model = Columns[g[i].model][f].target
          /\ g[i].tenant # None => g[g[i].to[f]].tenant = g[i].tenant
  BY <1>1, BackofficeAssumption DEF Init, RecordsInit, Story
<1>5. RowsLinked
  BY <1>2, <1>3, <1>4, RowParts, ForeignKeysOf
     DEF RowsLinked, Rows, OfModel, AtHome
<1>6. \A w \in Workers : PendingOK(work[w])
  BY IdleIsPending DEF Init, RecordsInit
<1> QED
  BY <1>5, <1>6 DEF LinksOK

\* Whatever is created, patched, moved and deleted at the same time, by users,
\* by the payroll and by the seed, every foreign key of a row leads to a row of
\* the model it names.
THEOREM NothingEverDangles == Spec => []NothingDangles
<1>1. LinksOK => NothingDangles
  BY DEF LinksOK, RowsLinked, NothingDangles
<1> QED
  BY <1>1, InitTypes, TypesStay, InitLinks, LinksStay, PTL DEF Spec

-----------------------------------------------------------------------------
(* An answered payroll is complete.                                        *)

\* Row i is a slip of employee e.
SlipOf(i, e, t) ==
  /\ i \in Ids /\ rows[i] # None /\ rows[i].model = "Payslip"
  /\ rows[i].to.employee = e /\ rows[i].tenant = t

HasSlip(e, slips, t) == \E i \in slips : SlipOf(i, e, t)

\* What request j has paid, and what an answered run has.
PaymentOK(j) ==
  j.at = "slips" =>
    /\ j.found \subseteq spent
    /\ \A e \in j.found \ j.left :
         rows[e] # None => HasSlip(e, j.slips, j.caller.tenant)

RunOK(run) ==
  /\ run.found \subseteq spent
  /\ \A e \in run.found : rows[e] # None => HasSlip(e, run.slips, run.tenant)

SlipsOK ==
  /\ \A w \in Workers : PaymentOK(work[w])
  /\ \A run \in paidRuns : RunOK(run)

\* Slips stay as long as their employee.
SlipsKept ==
  /\ spent \subseteq spent'
  /\ \A e \in spent : rows'[e] # None =>
       /\ rows[e] # None
       /\ \A i, t : SlipOf(i, e, t) => SlipOf(i, e, t)'

LEMMA HasSlipKept ==
  ASSUME SlipsKept, NEW e \in spent, rows'[e] # None, NEW slips, NEW t,
         rows[e] # None => HasSlip(e, slips, t)
  PROVE  HasSlip(e, slips, t)'
BY DEF SlipsKept, HasSlip

LEMMA PaymentKept ==
  ASSUME SlipsKept, NEW j, PaymentOK(j)
  PROVE  PaymentOK(j)'
<1> SUFFICES ASSUME j.at = "slips"
             PROVE  /\ j.found \subseteq spent'
                    /\ \A e \in j.found \ j.left :
                         rows'[e] # None => HasSlip(e, j.slips, j.caller.tenant)'
  BY DEF PaymentOK
<1>1. /\ j.found \subseteq spent
      /\ \A e \in j.found \ j.left :
           rows[e] # None => HasSlip(e, j.slips, j.caller.tenant)
  BY DEF PaymentOK
<1>2. PICK slips, t : slips = j.slips /\ t = j.caller.tenant
  OBVIOUS
<1>3. \A e \in j.found \ j.left : rows'[e] # None => HasSlip(e, slips, t)'
  BY <1>1, <1>2, HasSlipKept
<1> QED
  BY <1>1, <1>2, <1>3 DEF SlipsKept

LEMMA RunKept ==
  ASSUME SlipsKept, NEW run, RunOK(run)
  PROVE  RunOK(run)'
<1>1. PICK slips, t : slips = run.slips /\ t = run.tenant
  OBVIOUS
<1>2. \A e \in run.found : rows'[e] # None => HasSlip(e, slips, t)'
  BY <1>1, HasSlipKept DEF RunOK
<1> QED
  BY <1>1, <1>2 DEF RunOK, SlipsKept

LEMMA SameSlips ==
  ASSUME UNCHANGED <<rows, spent>>
  PROVE  SlipsKept
BY DEF SlipsKept, SlipOf

LEMMA StoreSlips ==
  ASSUME RowsOK, NEW row, IsRow(row), Store(row)
  PROVE  SlipsKept
BY StoreTypes DEF SlipsKept, SlipOf, RowsOK

\* A request goes on, the others are as before.
LEMMA SlipsKeptByStep ==
  ASSUME SlipsOK, JobsOK, SlipsKept, UNCHANGED paidRuns, NEW w \in Workers, NEW j,
         PaymentOK(j)', work' = [work EXCEPT ![w] = j]
  PROVE  SlipsOK'
<1>1. \A v \in Workers : work'[v] = IF v = w THEN j ELSE work[v]
  BY DEF JobsOK
<1>2. ASSUME NEW v \in Workers PROVE PaymentOK(work[v])'
  <2>1. PICK q : q = work'[v]
    OBVIOUS
  <2>2. PaymentOK(q)'
    <3>1. q = j \/ q = work[v]
      BY <1>1, <2>1
    <3> QED
      BY <3>1, PaymentKept DEF SlipsOK
  <2> QED
    BY <2>1, <2>2 DEF PaymentOK
<1> QED
  BY <1>2, RunKept DEF SlipsOK

LEMMA IdleHasPaid == PaymentOK(Idle)'
BY DEF PaymentOK, Idle

LEMMA SlipsKeptByOthers ==
  ASSUME SlipsOK, SlipsKept, UNCHANGED paidRuns,
         \A w \in Workers : work'[w] = Idle \/ work'[w] = work[w]
  PROVE  SlipsOK'
<1>1. ASSUME NEW v \in Workers PROVE PaymentOK(work[v])'
  <2>1. PICK q : q = work'[v]
    OBVIOUS
  <2>2. PaymentOK(q)'
    <3>1. q = Idle \/ q = work[v]
      BY <2>1
    <3> QED
      BY <3>1, PaymentKept, IdleHasPaid DEF SlipsOK
  <2> QED
    BY <2>1, <2>2 DEF PaymentOK
<1> QED
  BY <1>1, RunKept DEF SlipsOK

LEMMA WriteSlips ==
  ASSUME RecordsTypeOK, NEW c \in Callers, Write(c)
  PROVE  SlipsKept
<1>0. RowsOK /\ Story.routes \subseteq AllRoutes
  BY RowsTyped, StoryOK
<1>1. ASSUME NEW r, Adds(r)
      PROVE  SlipsKept
  BY <1>0, <1>1, StoreSlips DEF Adds
<1>2. CASE Alike
  BY <1>0, <1>2 DEF Alike, SlipsKept, SlipOf, RowsOK
<1>3. ASSUME NEW i \in Ids, NEW to, NEW s, NEW recent, NEW t, NEW key,
             NEW number, Updates(c, i, to, s, recent, t, key, number)
      PROVE  SlipsKept
  <2>1. rows[i] # None /\ rows[i].model # "Payslip"
    BY <1>0, <1>3, RoutesOfNumbers DEF Updates, Offered
  <2>2. spent' = spent /\ \A j \in Ids \ {i} : rows'[j] = rows[j]
    BY <1>0, <1>3 DEF Updates, RowsOK
  <2> QED
    BY <1>0, <2>1, <2>2 DEF SlipsKept, SlipOf, RowsOK
<1>4. ASSUME NEW x \in Ids, NEW doomed \in SUBSET Ids, Deletes(c, x, doomed)
      PROVE  SlipsKept
  <2>1. /\ rows[x].model # "Payslip" /\ spent' = spent
        /\ doomed = {x} \union Dependents({x}, "Cascade")
        /\ \A j \in Ids : rows'[j] = IF j \in doomed \/ rows[j] = None THEN None
                                    ELSE Unlinked(j, doomed)
    BY <1>0, <1>4, RoutesOfNumbers DEF Deletes, Offered
  <2>2. "Payslip" \in Models /\ Fields("Payslip") = {"employee"}
    BY FieldsOfModels DEF Owned
  <2>3. ASSUME NEW e \in spent, rows'[e] # None, NEW i, NEW t, SlipOf(i, e, t)
        PROVE  SlipOf(i, e, t)'
    <3>1. e \in Ids /\ e \notin doomed
      BY <1>0, <2>1, <2>3 DEF RowsOK
    <3>2. i \in Ids /\ rows[i] # None /\ i \notin doomed
      BY <2>1, <2>2, <2>3, <3>1 DEF SlipOf, Dependents, Rows
    <3>3. PICK q : q = Unlinked(i, doomed)
      OBVIOUS
    <3>4. /\ rows'[i] = q /\ q # None /\ q.model = rows[i].model
          /\ q.tenant = rows[i].tenant /\ q.to.employee = rows[i].to.employee
      <4>1. /\ rows[i].model = "Payslip" /\ rows[i].to["employee"] = e
        BY <2>3 DEF SlipOf
      <4>2. /\ IsRow(q) /\ q.model = rows[i].model /\ q.tenant = rows[i].tenant
            /\ q.to["employee"] =
                 IF /\ Columns[rows[i].model]["employee"].onDelete = "SetNull"
                    /\ rows[i].to["employee"] \in doomed
                 THEN None ELSE rows[i].to["employee"]
        BY <1>0, <2>2, <3>2, <3>3, <4>1, UnlinkedTypes
      <4> QED
        BY <2>1, <3>1, <3>2, <3>3, <4>1, <4>2, RowParts
    <3> QED
      BY <2>3, <3>2, <3>4 DEF SlipOf
  <2>4. \A e \in spent : rows'[e] # None => rows[e] # None
    BY <1>0, <2>1 DEF RowsOK
  <2> QED
    BY <2>1, <2>3, <2>4 DEF SlipsKept
<1> QED
  BY <1>1, <1>2, <1>3, <1>4, WriteKinds

LEMMA InsertSlipSlips ==
  ASSUME RowsOK, JobsOK, SlipsOK, NEW w \in Workers, InsertSlip(w)
  PROVE  SlipsOK'
<1>1. PICK e \in Ids : Slips(w, e)
  BY InsertSlipShape
<1>2. PICK j : j = work[w]
  OBVIOUS
<1>3. /\ j \in Paying /\ j.at = "slips" /\ e \in j.left /\ PaymentOK(j)
      /\ UNCHANGED paidRuns
  BY <1>1, <1>2, InsertSlipShape DEF Slips, SlipsOK
<1>4. CASE work' = [work EXCEPT ![w] = Idle] /\ UNCHANGED <<rows, spent>>
  BY <1>3, <1>4, SameSlips, IdleHasPaid, SlipsKeptByStep
<1>5. CASE /\ Store(Slip(w, e))
           /\ work' = [work EXCEPT ![w] = Paid(j, e, FreshId)]
  <2>1. "Payslip" \in Models /\ Fields("Payslip") = {"employee"}
        /\ "Payslip" \notin Untenanted
    BY FieldsOfModels DEF Owned, Untenanted
  <2>2. PICK r, to, t : r = Slip(w, e) /\ to = [employee |-> e]
                        /\ t = j.caller.tenant
    OBVIOUS
  <2>3. r.model = "Payslip" /\ r.to = to /\ to.employee = e /\ r.tenant = t
    BY <1>2, <2>1, <2>2 DEF Slip, Row
  <2>4. IsRow(r)
    <3>1. to \in Targets("Payslip")
      BY <2>1, <2>2 DEF Targets, Nullable
    <3>2. t \in Tenants
      BY <1>3, <2>2 DEF Paying, Callers
    <3>3. IsRow(Row("Payslip", t, to, TRUE, None, None))
      BY <2>1, <3>1, <3>2, RowIsRow, NullIsNullable
    <3> QED
      BY <1>2, <2>2, <3>3 DEF Slip
  <2>5. PICK n \in Ids : n = FreshId
    BY <1>5, <2>2, <2>4, StoreTypes
  <2>6. SlipsKept /\ rows'[n] = r /\ r # None
    BY <1>5, <2>2, <2>4, <2>5, StoreSlips, StoreTypes, RowParts
  <2>7. SlipOf(n, e, t)'
    BY <2>3, <2>5, <2>6 DEF SlipOf
  <2>8. PICK q : q = Paid(j, e, n)
    OBVIOUS
  <2>9. /\ q.caller = j.caller /\ q.found = j.found
        /\ q.left = j.left \ {e} /\ q.slips = j.slips \union {n}
    BY <1>3, <2>5, <2>8, PaidJob
  <2>10. PaymentOK(j)'
    BY <1>3, <2>6, PaymentKept
  <2>11. ASSUME NEW x \in q.found \ q.left, rows'[x] # None
         PROVE  HasSlip(x, q.slips, q.caller.tenant)'
    <3>1. CASE x = e
      BY <2>2, <2>7, <2>9, <3>1 DEF HasSlip
    <3>2. CASE x # e
      BY <1>3, <2>9, <2>10, <2>11, <3>2 DEF HasSlip, PaymentOK
    <3> QED
      BY <3>1, <3>2
  <2>12. PaymentOK(q)'
    BY <1>3, <2>9, <2>10, <2>11 DEF PaymentOK
  <2> QED
    BY <1>3, <1>5, <2>5, <2>6, <2>8, <2>12, SlipsKeptByStep
<1> QED
  BY <1>1, <1>2, <1>4, <1>5 DEF Slips

LEMMA AnswerPayrollSlips ==
  ASSUME JobsOK, SlipsOK, NEW w \in Workers, AnswerPayroll(w)
  PROVE  SlipsOK'
<1>1. PICK j : j = work[w]
  OBVIOUS
<1>2. /\ j.at = "slips" /\ j.left = {} /\ work' = [work EXCEPT ![w] = Idle]
      /\ UNCHANGED <<rows, spent>> /\ PaymentOK(j)
  BY <1>1 DEF AnswerPayroll, SlipsOK
<1>3. PICK run : /\ run = [tenant |-> j.caller.tenant, found |-> j.found,
                          slips |-> j.slips]
                 /\ paidRuns' = paidRuns \union {run}
  BY <1>1 DEF AnswerPayroll
<1>4. /\ run.tenant = j.caller.tenant /\ run.found = j.found
      /\ run.slips = j.slips
  BY <1>3
<1>5. RunOK(run)
  BY <1>2, <1>4 DEF RunOK, PaymentOK
<1>6. SlipsKept
  BY <1>2, SameSlips
<1>7. \A r \in paidRuns' : RunOK(r)'
  BY <1>3, <1>5, <1>6, RunKept DEF SlipsOK
<1>8. ASSUME NEW v \in Workers PROVE PaymentOK(work[v])'
  <2>1. PICK q : q = work'[v]
    OBVIOUS
  <2>2. PaymentOK(q)'
    <3>1. q = Idle \/ q = work[v]
      BY <1>2, <2>1 DEF JobsOK
    <3> QED
      BY <1>6, <3>1, PaymentKept, IdleHasPaid DEF SlipsOK
  <2> QED
    BY <2>1, <2>2 DEF PaymentOK
<1> QED
  BY <1>7, <1>8 DEF SlipsOK

LEMMA SlipsStay == TypeInv /\ SlipsOK /\ [Next]_vars => SlipsOK'
<1> SUFFICES ASSUME TypeInv, SlipsOK, [Next]_vars PROVE SlipsOK'
  OBVIOUS
<1>0. JobsOK /\ RowsOK /\ RecordsTypeOK /\ Story.callers \subseteq Callers
  BY TypeParts, StoryOK DEF TypeInv, BackofficeTypeOK
<1>1. ASSUME NEW c \in Story.callers, Write(c)
      PROVE  SlipsOK'
  BY <1>0, <1>1, WriteSlips, WriteKinds, SlipsKeptByOthers
<1>2. ASSUME NEW w \in Workers, NEW j, work' = [work EXCEPT ![w] = j],
             j.at # "slips", SlipsKept, UNCHANGED paidRuns
      PROVE  SlipsOK'
  <2>1. PaymentOK(j)'
    BY <1>2 DEF PaymentOK
  <2> QED
    BY <1>0, <1>2, <2>1, SlipsKeptByStep
<1>3. Idle.at # "slips"
  BY DEF Idle
<1>4. ASSUME NEW c \in Story.callers, NEW w \in Workers, BeginNumber(w, c)
      PROVE  SlipsOK'
  <2>1. PICK m, to, n, recent : BeginsNumber(w, c, m, to, n, recent)
    BY <1>4, BeginNumberShape
  <2>2. PICK j : j = [at |-> "insert", caller |-> c, model |-> m, to |-> to,
                      recent |-> recent, number |-> n]
    OBVIOUS
  <2>3. /\ work' = [work EXCEPT ![w] = j]
        /\ UNCHANGED <<rows, spent>> /\ UNCHANGED paidRuns
    BY <2>1, <2>2 DEF BeginsNumber
  <2>4. j.at # "slips"
    BY <2>2
  <2> QED
    BY <1>2, <2>3, <2>4, SameSlips
<1>5. ASSUME NEW c \in Story.callers, NEW w \in Workers, BeginPayroll(w, c)
      PROVE  SlipsOK'
  <2>1. PICK S : /\ S = {i \in OfModel("Employee") : /\ Visible(c, i)
                                                    /\ rows[i].status = "first"}
                 /\ work' = [work EXCEPT ![w] = [at |-> "slips", caller |-> c,
                      left |-> S, found |-> S, slips |-> {}]]
                 /\ UNCHANGED <<rows, spent>> /\ UNCHANGED paidRuns
    BY <1>5 DEF BeginPayroll
  <2>2. PICK j : j = [at |-> "slips", caller |-> c, left |-> S, found |-> S,
                      slips |-> {}]
    OBVIOUS
  <2>3. S \subseteq spent
    BY <1>0, <2>1, OfModelRows DEF RowsOK
  <2>4. j.found = S /\ j.found \ j.left = {}
    BY <2>2
  <2>5. PaymentOK(j)'
    BY <2>1, <2>3, <2>4 DEF PaymentOK
  <2> QED
    BY <1>0, <2>1, <2>2, <2>5, SameSlips, SlipsKeptByStep
<1>6. ASSUME NEW c \in Story.callers, NEW w \in Workers, BeginBranding(w, c)
      PROVE  SlipsOK'
  <2>1. PICK patch \in Patches :
          work' = [work EXCEPT ![w] = [at |-> "branding", caller |-> c,
                     patch |-> patch, merged |-> Merged(c.tenant, patch)]]
    BY <1>6 DEF BeginBranding
  <2>2. PICK j : j = [at |-> "branding", caller |-> c, patch |-> patch,
                      merged |-> Merged(c.tenant, patch)]
    OBVIOUS
  <2>3. j.at # "slips"
    BY <2>2
  <2>4. UNCHANGED <<rows, spent>> /\ UNCHANGED paidRuns
    BY <1>6 DEF BeginBranding
  <2> QED
    BY <1>2, <2>1, <2>2, <2>3, <2>4, SameSlips
<1>7. ASSUME NEW w \in Workers, InsertNumbered(w)
      PROVE  SlipsOK'
  <2>1. work' = [work EXCEPT ![w] = Idle] /\ UNCHANGED paidRuns
    BY <1>7 DEF InsertNumbered
  <2>2. SlipsKept
    <3>1. CASE UNCHANGED <<rows, spent>>
      BY <3>1, SameSlips
    <3>2. CASE Store(NewDocument(w))
      <4>1. work[w] \in Inserting /\ work[w].to \in Targets(work[w].model)
        BY <1>0, <1>7, JobOfAwait DEF InsertNumbered, JobsOK
      <4>2. IsRow(NewDocument(w))
        BY <4>1, NewDocumentIsRow
      <4> QED
        BY <1>0, <3>2, <4>2, StoreSlips
    <3> QED
      BY <1>7, <3>1, <3>2 DEF InsertNumbered, NewDocument
  <2> QED
    BY <1>2, <1>3, <2>1, <2>2
<1>8. ASSUME NEW w \in Workers, ContinueAudited(w)
      PROVE  SlipsOK'
  BY <1>0, <1>7, <1>8, InsertSlipSlips, AnswerPayrollSlips DEF ContinueAudited
<1>9. ASSUME NEW w \in Workers, WriteBranding(w)
      PROVE  SlipsOK'
  <2>1. /\ work' = [work EXCEPT ![w] = Idle] /\ UNCHANGED <<rows, spent>>
        /\ UNCHANGED paidRuns
    BY <1>9 DEF WriteBranding
  <2> QED
    BY <1>2, <1>3, <2>1, SameSlips
<1>10. ASSUME NEW w \in Workers, BeginSeed(w)
      PROVE  SlipsOK'
  <2>1. PICK m : m = [k \in {NoKey} |-> None]
    OBVIOUS
  <2>2. PICK j : j = [at |-> "seed", next |-> 1, made |-> m]
    OBVIOUS
  <2>3. /\ work' = [work EXCEPT ![w] = j] /\ UNCHANGED <<rows, spent>>
        /\ UNCHANGED paidRuns
    BY <1>10, <2>1, <2>2, BeginSeedShape
  <2>4. j.at # "slips"
    BY <2>2
  <2> QED
    BY <1>2, <2>3, <2>4, SameSlips
<1>11. ASSUME NEW w \in Workers, SeedStep(w)
      PROVE  SlipsOK'
  <2>1. SeedDoes(w) /\ UNCHANGED paidRuns
    BY <1>11, SeedShape DEF SeedDoes
  <2>2. PICK j : work' = [work EXCEPT ![w] = j]
                 /\ (j = Idle \/ \E i : j = Remember(work[w], i))
    BY <2>1 DEF SeedDoes
  <2>3. j.at # "slips"
    <3>1. \A i : Remember(work[w], i).at # "slips"
      BY <1>3 DEF Remember
    <3> QED
      BY <1>3, <2>2, <3>1
  <2>4. SlipsKept
    <3>1. IsRow(SeedRowOf(work[w]))
      BY <1>0, <2>1, JobOfAwait, SeedJob DEF JobsOK, SeedDoes
    <3> QED
      BY <1>0, <2>1, <3>1, SameSlips, StoreSlips DEF SeedDoes
  <2> QED
    BY <1>2, <2>1, <2>2, <2>3, <2>4
<1>12. ASSUME NEW x \in Contexts, RecordAudit(x)
      PROVE  SlipsOK'
  <2>1. UNCHANGED <<rows, spent>> /\ UNCHANGED work /\ UNCHANGED paidRuns
    BY <1>12 DEF RecordAudit
  <2> QED
    BY <2>1, SameSlips, SlipsKeptByOthers
<1>13. CASE FailOrCrash
  <2>1. /\ \A w \in Workers : work'[w] = Idle \/ work'[w] = work[w]
        /\ UNCHANGED <<rows, spent>> /\ UNCHANGED paidRuns
    BY <1>13, FailShape
  <2> QED
    BY <2>1, SameSlips, SlipsKeptByOthers
<1>14. CASE UNCHANGED vars
  <2>1. UNCHANGED recordVars
    BY <1>14 DEF vars
  <2>2. UNCHANGED <<rows, spent>> /\ UNCHANGED work /\ UNCHANGED paidRuns
    BY <2>1 DEF recordVars
  <2> QED
    BY <2>2, SameSlips, SlipsKeptByOthers
<1> QED
  BY <1>1, <1>4, <1>5, <1>6, <1>8, <1>9, <1>10, <1>11, <1>12, <1>13, <1>14
     DEF Next, Begin

\* An answered payroll has a slip for every employee it found and who is still
\* there, whoever is hired, changed and deleted meanwhile.
THEOREM PayrollsAreComplete == Spec => []PayrollIsComplete
<1>1. Init => SlipsOK
  <2> SUFFICES ASSUME Init PROVE SlipsOK
    OBVIOUS
  <2>1. paidRuns = {} /\ \A w \in Workers : work[w].at # "slips"
    BY DEF Init, RecordsInit, Idle
  <2> QED
    BY <2>1 DEF SlipsOK, PaymentOK
<1>2. SlipsOK => PayrollIsComplete
  BY DEF SlipsOK, RunOK, HasSlip, SlipOf, PayrollIsComplete
<1> QED
  BY <1>1, <1>2, InitTypes, TypesStay, SlipsStay, PTL DEF Spec

-----------------------------------------------------------------------------
(* Numbers made by a count.                                                *)

\* Row i is a document of model m of tenant t.
IsDoc(i, m, t) == rows[i] # None /\ rows[i].model = m /\ rows[i].tenant = t

\* A request that names its own tenant, what it counts, and how many.
OwnCaller(t) == [tenant |-> t, context |-> t]

Docs(m, t) == CountedRows(OwnCaller(t), m)

Tally(m, t) == Count(OwnCaller(t), m)

LEMMA DocsOf ==
  ASSUME NEW m \in NumberModels, NEW t \in Tenants
  PROVE  /\ Docs(m, t) =
              {i \in Ids : IsDoc(i, m, t) /\ (m \in Undated \/ rows[i].recent)}
         /\ Numbered(m, t) = {i \in Ids : IsDoc(i, m, t) /\ rows[i].number # None}
<1>1. t # None /\ OwnCaller(t).context = t /\ m \in SCOPED_MODELS
  BY BackofficeAssumption DEF OwnCaller, NumberModels, SCOPED_MODELS
<1>2. \A i : rows[i].model = m =>
        (Visible(OwnCaller(t), i) <=> rows[i].tenant = t)
  BY <1>1 DEF Visible
<1> QED
  BY <1>2 DEF Docs, CountedRows, Numbered, OfModel, Rows, IsDoc

LEMMA DocsOfNext ==
  ASSUME NEW m \in NumberModels, NEW t \in Tenants
  PROVE  /\ Docs(m, t)' = {i \in Ids : IsDoc(i, m, t)'
                                       /\ (m \in Undated \/ rows'[i].recent)}
         /\ Numbered(m, t)' = {i \in Ids : IsDoc(i, m, t)'
                                           /\ rows'[i].number # None}
<1>1. t # None /\ OwnCaller(t).context = t /\ m \in SCOPED_MODELS
  BY BackofficeAssumption DEF OwnCaller, NumberModels, SCOPED_MODELS
<1>2. \A i : rows'[i].model = m =>
        (Visible(OwnCaller(t), i)' <=> rows'[i].tenant = t)
  BY <1>1 DEF Visible
<1> QED
  BY <1>2 DEF Docs, CountedRows, Numbered, OfModel, Rows, IsDoc

LEMMA TallyOf ==
  ASSUME NEW m, NEW t
  PROVE  /\ Tally(m, t) = Cardinality(Docs(m, t)) /\ Tally(m, t) \in Nat
         /\ Tally(m, t)' = Cardinality(Docs(m, t)')
         /\ Docs(m, t) \in SUBSET Ids
<1>1. Tally(m, t) = Cardinality(Docs(m, t)) /\ Tally(m, t) \in Nat
      /\ Docs(m, t) \in SUBSET Ids
  BY CountType DEF Tally, Docs
<1>2. Tally(m, t)' = Cardinality(Docs(m, t)')
  BY DEF Tally, Docs, Count, CountedRows
<1> QED
  BY <1>1, <1>2

Waits(j, m, t) == j.at = "insert" /\ j.model = m /\ j.caller.tenant = t

\* Numbers are distinct and up to the count; one request at most is about to
\* insert, with the number after.
NumbersOK(m, t) ==
  /\ \A i \in Numbered(m, t) : rows[i].number \in 1..Tally(m, t)
  /\ \A i, k \in Numbered(m, t) : rows[i].number = rows[k].number => i = k

WaitingOK(m, t) ==
  \A w \in Workers : Waits(work[w], m, t) =>
    /\ work[w].number \in {None, Tally(m, t) + 1}
    /\ \A v \in Workers : Waits(work[v], m, t) => v = w

CountingOK == \A m \in NumberModels, t \in Tenants :
  <<m, t>> \notin disturbed => NumbersOK(m, t) /\ WaitingOK(m, t)

\* The documents of (m, t) and their numbers are as before.
DocsKept(m, t) == \A i \in Ids :
  /\ IsDoc(i, m, t)' <=> IsDoc(i, m, t)
  /\ IsDoc(i, m, t) => /\ rows'[i].number = rows[i].number
                       /\ rows'[i].recent = rows[i].recent

LEMMA DocsKeptCount ==
  ASSUME NEW m \in NumberModels, NEW t \in Tenants, DocsKept(m, t)
  PROVE  /\ Tally(m, t)' = Tally(m, t)
         /\ Numbered(m, t)' = Numbered(m, t)
         /\ \A i \in Numbered(m, t) : rows'[i].number = rows[i].number
<1>1. ASSUME NEW i \in Ids
      PROVE  /\ i \in Docs(m, t)' <=> i \in Docs(m, t)
             /\ i \in Numbered(m, t)' <=> i \in Numbered(m, t)
  <2>1. CASE IsDoc(i, m, t)
    <3>1. IsDoc(i, m, t)' /\ rows'[i].number = rows[i].number
          /\ rows'[i].recent = rows[i].recent
      BY <2>1 DEF DocsKept
    <3> QED
      BY <2>1, <3>1, DocsOf, DocsOfNext
  <2>2. CASE ~IsDoc(i, m, t)
    <3>1. ~IsDoc(i, m, t)'
      BY <2>2 DEF DocsKept
    <3> QED
      BY <2>2, <3>1, DocsOf, DocsOfNext
  <2> QED
    BY <2>1, <2>2
<1>2. /\ Docs(m, t)' \subseteq Ids /\ Docs(m, t) \subseteq Ids
      /\ Numbered(m, t)' \subseteq Ids /\ Numbered(m, t) \subseteq Ids
  BY DocsOf, DocsOfNext
<1>3. Docs(m, t)' = Docs(m, t) /\ Numbered(m, t)' = Numbered(m, t)
  BY <1>1, <1>2
<1>4. \A i \in Numbered(m, t) : rows'[i].number = rows[i].number
  BY DocsOf DEF DocsKept
<1> QED
  BY <1>3, <1>4, TallyOf

LEMMA NumbersKept ==
  ASSUME NEW m \in NumberModels, NEW t \in Tenants, DocsKept(m, t),
         NumbersOK(m, t)
  PROVE  NumbersOK(m, t)'
BY DocsKeptCount DEF NumbersOK

\* A step that starts no insert and keeps the documents it does not disturb.
LEMMA CountingKept ==
  ASSUME CountingOK, disturbed \subseteq disturbed',
         \A m \in NumberModels, t \in Tenants :
           <<m, t>> \notin disturbed' => DocsKept(m, t),
         \A w \in Workers : work'[w].at = "insert" => work'[w] = work[w]
  PROVE  CountingOK'
<1> SUFFICES ASSUME NEW m \in NumberModels, NEW t \in Tenants,
                    <<m, t>> \notin disturbed'
             PROVE  NumbersOK(m, t)' /\ WaitingOK(m, t)'
  BY DEF CountingOK
<1>1. NumbersOK(m, t) /\ WaitingOK(m, t) /\ DocsKept(m, t)
  BY DEF CountingOK
<1>2. Tally(m, t)' = Tally(m, t)
  BY <1>1, DocsKeptCount
<1>3. \A w \in Workers : Waits(work[w], m, t)' =>
        Waits(work[w], m, t) /\ work'[w] = work[w]
  BY DEF Waits
<1>4. WaitingOK(m, t)'
  BY <1>1, <1>2, <1>3 DEF WaitingOK
<1> QED
  BY <1>1, <1>4, NumbersKept

LEMMA SameDocs ==
  ASSUME UNCHANGED rows, NEW m, NEW t
  PROVE  DocsKept(m, t)
BY DEF DocsKept, IsDoc

LEMMA StoreDocs ==
  ASSUME RowsOK, NEW r, IsRow(r), Store(r), NEW m, NEW t,
         r.model # m \/ r.tenant # t
  PROVE  DocsKept(m, t)
BY StoreTypes DEF DocsKept, IsDoc

LEMMA WriteCounts ==
  ASSUME RecordsTypeOK, CountingOK, NEW c \in Callers, Write(c)
  PROVE  CountingOK'
<1>0. /\ RowsOK /\ Story.routes \subseteq AllRoutes /\ UNCHANGED work
  BY RowsTyped, StoryOK, WriteKinds
<1>1. ASSUME disturbed \subseteq disturbed',
             \A m \in NumberModels, t \in Tenants :
               <<m, t>> \notin disturbed' => DocsKept(m, t)
      PROVE  CountingOK'
  BY <1>0, <1>1, CountingKept
<1>2. ASSUME NEW r, Adds(r)
      PROVE  CountingOK'
  BY <1>0, <1>1, <1>2, StoreDocs DEF Adds
<1>3. CASE Alike
  BY <1>1, <1>3 DEF Alike, DocsKept, IsDoc
<1>4. ASSUME NEW i \in Ids, NEW to, NEW s, NEW recent, NEW t, NEW key,
             NEW number, Updates(c, i, to, s, recent, t, key, number)
      PROVE  CountingOK'
  <2>1. PICK q : q = Updated(rows[i], to, s, recent, t, key, number)
    OBVIOUS
  <2>2. /\ IsRow(q) /\ q.model = rows[i].model /\ q.recent = recent
        /\ q.tenant = t /\ q.number = number
        /\ rows' = [rows EXCEPT ![i] = q]
    BY <1>4, <2>1, UpdateTypes
  <2>3. q # None /\ rows[i] # None
    BY <1>4, <2>2, RowParts DEF Updates
  <2>4. rows'[i] = q /\ \A j \in Ids \ {i} : rows'[j] = rows[j]
    BY <1>0, <2>2 DEF RowsOK
  <2>5. /\ disturbed \subseteq disturbed'
        /\ \/ /\ recent = rows[i].recent /\ t = rows[i].tenant
              /\ number = rows[i].number
           \/ /\ <<rows[i].model, rows[i].tenant>> \in disturbed'
              /\ <<rows[i].model, t>> \in disturbed'
    BY <1>4 DEF Updates
  <2>6. ASSUME NEW m \in NumberModels, NEW u \in Tenants,
               <<m, u>> \notin disturbed'
        PROVE  DocsKept(m, u)
    <3>1. CASE /\ recent = rows[i].recent /\ t = rows[i].tenant
               /\ number = rows[i].number
      BY <2>2, <2>3, <2>4, <3>1 DEF DocsKept, IsDoc
    <3>2. CASE /\ <<rows[i].model, rows[i].tenant>> \in disturbed'
               /\ <<rows[i].model, t>> \in disturbed'
      <4>1. ~IsDoc(i, m, u) /\ ~IsDoc(i, m, u)'
        BY <2>2, <2>4, <2>6, <3>2 DEF IsDoc
      <4> QED
        BY <2>4, <4>1 DEF DocsKept, IsDoc
    <3> QED
      BY <2>5, <3>1, <3>2
  <2> QED
    BY <1>1, <2>5, <2>6
<1>5. ASSUME NEW x \in Ids, NEW doomed \in SUBSET Ids, Deletes(c, x, doomed)
      PROVE  CountingOK'
  <2>1. /\ rows[x] # None
        /\ doomed = {x} \union Dependents({x}, "Cascade")
        /\ \A j \in Ids : rows'[j] = IF j \in doomed \/ rows[j] = None THEN None
                                    ELSE Unlinked(j, doomed)
    BY <1>5 DEF Deletes
  <2>2. /\ disturbed \subseteq disturbed'
        /\ rows[x].tenant # None =>
             <<rows[x].model, rows[x].tenant>> \in disturbed'
    BY <1>5 DEF Deletes, Disturb
  <2>3. \A j \in Dependents({x}, "Cascade") : rows[j].model \notin NumberModels
    <3>1. SUFFICES ASSUME NEW j \in Dependents({x}, "Cascade")
                   PROVE  rows[j].model \notin NumberModels
      OBVIOUS
    <3>2. PICK f \in Fields(rows[j].model) :
            Columns[rows[j].model][f].onDelete = "Cascade"
      BY DEF Dependents
    <3>3. rows[j].model \in Models
      BY <1>0, RowParts DEF Dependents, Rows, RowsOK
    <3>4. rows[j].model \in Owned
      BY <3>2, <3>3, ColumnsAreReferences, OwnedReferences
    <3> QED
      BY <3>4 DEF Owned, NumberModels
  <2>4. ASSUME NEW m \in NumberModels, NEW t \in Tenants,
               <<m, t>> \notin disturbed'
        PROVE  DocsKept(m, t)
    <3>1. \A j \in doomed : ~IsDoc(j, m, t)
      <4>1. ~IsDoc(x, m, t)
        BY <2>2, <2>4, BackofficeAssumption DEF IsDoc
      <4> QED
        BY <2>1, <2>3, <2>4, <4>1 DEF IsDoc
    <3>2. ASSUME NEW j \in Ids \ doomed, rows[j] # None
          PROVE  /\ rows'[j] # None /\ rows'[j].model = rows[j].model
                 /\ rows'[j].tenant = rows[j].tenant
                 /\ rows'[j].number = rows[j].number
                 /\ rows'[j].recent = rows[j].recent
      <4>1. rows'[j] = Unlinked(j, doomed)
        BY <2>1, <3>2
      <4> QED
        BY <1>0, <3>2, <4>1, UnlinkedTypes, RowParts
    <3> QED
      BY <2>1, <3>1, <3>2 DEF DocsKept, IsDoc
  <2> QED
    BY <1>1, <2>2, <2>4
<1> QED
  BY <1>2, <1>3, <1>4, <1>5, WriteKinds

LEMMA BeginCounts ==
  ASSUME TypeInv, CountingOK, NEW c \in Callers, NEW w \in Workers,
         BeginNumber(w, c)
  PROVE  CountingOK'
<1>0. JobsOK
  BY TypeParts
<1>1. PICK m0, to, n, recent : BeginsNumber(w, c, m0, to, n, recent)
  BY BeginNumberShape
<1>2. PICK j : j = [at |-> "insert", caller |-> c, model |-> m0, to |-> to,
                    recent |-> recent, number |-> n]
  OBVIOUS
<1>3. j.model = m0 /\ j.caller = c /\ j.at = "insert" /\ j.number = n
  BY <1>2
<1>4. /\ work'[w] = j /\ \A v \in Workers \ {w} : work'[v] = work[v]
      /\ UNCHANGED <<rows, spent>>
  BY <1>0, <1>1, <1>2 DEF BeginsNumber, JobsOK
<1>5. /\ disturbed \subseteq disturbed'
      /\ <<m0, c.tenant>> \notin disturbed' =>
           /\ c.context = c.tenant /\ n \in {None, Count(c, m0) + 1}
           /\ \A v \in Workers : ~Waits(work[v], m0, c.tenant)
  BY <1>1 DEF BeginsNumber, Waits
<1> SUFFICES ASSUME NEW m \in NumberModels, NEW t \in Tenants,
                    <<m, t>> \notin disturbed'
             PROVE  NumbersOK(m, t)' /\ WaitingOK(m, t)'
  BY DEF CountingOK
<1>6. NumbersOK(m, t) /\ WaitingOK(m, t) /\ DocsKept(m, t)
  BY <1>4, <1>5, SameDocs DEF CountingOK
<1>7. Tally(m, t)' = Tally(m, t) /\ NumbersOK(m, t)'
  BY <1>6, DocsKeptCount, NumbersKept
<1>8. CASE m = m0 /\ t = c.tenant
  <2>1. /\ c.context = t /\ \A v \in Workers : ~Waits(work[v], m, t)
        /\ n \in {None, Count(c, m) + 1}
    BY <1>5, <1>8
  <2>2. \A i : Visible(c, i) <=> Visible(OwnCaller(t), i)
    BY <2>1 DEF Visible, OwnCaller
  <2>3. Count(c, m) = Tally(m, t)
    BY <2>2 DEF Count, Tally
  <2>4. WaitingOK(m, t)'
    BY <1>3, <1>4, <1>7, <1>8, <2>1, <2>3 DEF WaitingOK, Waits
  <2> QED
    BY <1>7, <2>4
<1>9. CASE m # m0 \/ t # c.tenant
  <2>1. ~Waits(j, m, t)
    BY <1>3, <1>9 DEF Waits
  <2>2. \A v \in Workers : Waits(work[v], m, t)' =>
          Waits(work[v], m, t) /\ work'[v] = work[v]
    BY <1>4, <2>1 DEF Waits
  <2>3. WaitingOK(m, t)'
    BY <1>6, <1>7, <2>2 DEF WaitingOK
  <2> QED
    BY <1>7, <2>3
<1> QED
  BY <1>8, <1>9

LEMMA InsertCounts ==
  ASSUME TypeInv, CountingOK, NEW w \in Workers, InsertNumbered(w)
  PROVE  CountingOK'
<1>0. JobsOK /\ RowsOK
  BY TypeParts
<1>1. PICK j : j = work[w]
  OBVIOUS
<1>2. /\ j.at = "insert" /\ j \in Inserting /\ j.to \in Targets(j.model)
      /\ work' = [work EXCEPT ![w] = Idle] /\ disturbed \subseteq disturbed'
  BY <1>0, <1>1, JobOfAwait DEF JobsOK, InsertNumbered
<1>3. /\ work'[w] = Idle /\ Idle.at # "insert"
      /\ \A v \in Workers \ {w} : work'[v] = work[v]
  BY <1>0, <1>2 DEF JobsOK, Idle
<1>4. CASE UNCHANGED <<rows, spent>>
  BY <1>2, <1>3, <1>4, SameDocs, CountingKept
<1>5. CASE /\ Store(NewDocument(w))
           /\ disturbed' = IF j.recent \/ j.model \in Undated THEN disturbed
                           ELSE disturbed \union {<<j.model, j.caller.tenant>>}
  <2>1. PICK r : r = NewDocument(w)
    OBVIOUS
  <2>2. IsRow(r)
    BY <1>1, <1>2, <2>1, NewDocumentIsRow
  <2>3. /\ r.model = j.model /\ r.tenant = j.caller.tenant
        /\ r.recent = j.recent /\ r.number = j.number
    <3>1. j.model \notin Untenanted
      BY <1>2 DEF Inserting, NumberModels, Untenanted
    <3> QED
      BY <1>1, <2>1, <3>1 DEF NewDocument, Row
  <2>4. PICK n \in Ids : n = FreshId
    BY <1>0, <1>5, <2>1, <2>2, StoreTypes
  <2>5. /\ rows[n] = None /\ rows'[n] = r /\ r # None
        /\ \A i \in Ids \ {n} : rows'[i] = rows[i]
    BY <1>0, <1>5, <2>1, <2>2, <2>4, StoreTypes, RowParts
  <2> SUFFICES ASSUME NEW m \in NumberModels, NEW t \in Tenants,
                      <<m, t>> \notin disturbed'
               PROVE  NumbersOK(m, t)' /\ WaitingOK(m, t)'
    BY DEF CountingOK
  <2>6. NumbersOK(m, t) /\ WaitingOK(m, t)
    BY <1>2 DEF CountingOK
  <2>7. CASE r.model # m \/ r.tenant # t
    <3>1. DocsKept(m, t)
      BY <1>0, <1>5, <2>1, <2>2, <2>7, StoreDocs
    <3>2. Tally(m, t)' = Tally(m, t) /\ NumbersOK(m, t)'
      BY <2>6, <3>1, DocsKeptCount, NumbersKept
    <3>3. \A v \in Workers : Waits(work[v], m, t)' =>
            Waits(work[v], m, t) /\ work'[v] = work[v]
      BY <1>3 DEF Waits
    <3>4. WaitingOK(m, t)'
      BY <2>6, <3>2, <3>3 DEF WaitingOK
    <3> QED
      BY <3>2, <3>4
  <2>8. CASE r.model = m /\ r.tenant = t
    <3>1. m \in Undated \/ r.recent
      BY <1>5, <2>3, <2>8
    <3>2. Docs(m, t)' = Docs(m, t) \union {n} /\ n \notin Docs(m, t)
      BY <2>5, <2>8, <3>1, DocsOf, DocsOfNext DEF IsDoc
    <3>3. Tally(m, t)' = Tally(m, t) + 1 /\ Tally(m, t) \in Nat
      <4>1. IsFiniteSet(Docs(m, t))
        BY TallyOf, BackofficeAssumption, FS_Subset
      <4> QED
        BY <3>2, <4>1, TallyOf, FS_AddElement
    <3>4. Waits(work[w], m, t)
      BY <1>1, <1>2, <2>3, <2>8 DEF Waits
    <3>5. r.number \in {None, Tally(m, t) + 1}
      BY <1>1, <2>3, <2>6, <3>4 DEF WaitingOK
    <3>6. /\ \A i \in Numbered(m, t)' : i # n => i \in Numbered(m, t)
                                            /\ rows'[i].number = rows[i].number
          /\ n \in Numbered(m, t)' => rows'[n].number = Tally(m, t) + 1
      BY <2>5, <3>5, DocsOf, DocsOfNext DEF IsDoc
    <3>7. NumbersOK(m, t)'
      <4>1. \A i \in Numbered(m, t) : rows[i].number \in 1..Tally(m, t)
        BY <2>6 DEF NumbersOK
      <4>2. \A i \in Numbered(m, t)' : rows'[i].number \in 1..Tally(m, t)'
        BY <3>3, <3>6, <4>1
      <4>3. \A i, k \in Numbered(m, t)' :
              rows'[i].number = rows'[k].number => i = k
        BY <2>6, <3>3, <3>6, <4>1 DEF NumbersOK
      <4> QED
        BY <4>2, <4>3 DEF NumbersOK
    <3>8. \A v \in Workers : ~Waits(work[v], m, t)'
      BY <1>3, <2>6, <3>4 DEF WaitingOK, Waits
    <3> QED
      BY <3>7, <3>8 DEF WaitingOK
  <2> QED
    BY <2>7, <2>8
<1> QED
  BY <1>1, <1>4, <1>5 DEF InsertNumbered, NewDocument

LEMMA SlipCounts ==
  ASSUME TypeInv, CountingOK, NEW w \in Workers, InsertSlip(w)
  PROVE  CountingOK'
<1>0. JobsOK /\ RowsOK
  BY TypeParts
<1>1. PICK e \in Ids : Slips(w, e)
  BY <1>0, InsertSlipShape
<1>2. work[w] \in Paying /\ disturbed' = disturbed
  BY <1>0, <1>1, InsertSlipShape DEF Slips
<1>3. CASE UNCHANGED <<rows, spent>> /\ work' = [work EXCEPT ![w] = Idle]
  <2>1. \A v \in Workers : work'[v].at = "insert" => work'[v] = work[v]
    BY <1>0, <1>3 DEF JobsOK, Idle
  <2> QED
    BY <1>2, <1>3, <2>1, SameDocs, CountingKept
<1>4. CASE /\ Store(Slip(w, e))
           /\ work' = [work EXCEPT ![w] = Paid(work[w], e, FreshId)]
  <2>1. PICK r : r = Slip(w, e)
    OBVIOUS
  <2>2. "Payslip" \in Models /\ Fields("Payslip") = {"employee"}
        /\ "Payslip" \notin NumberModels
    BY FieldsOfModels DEF Owned, NumberModels
  <2>3. [employee |-> e] \in Targets("Payslip") /\ work[w].caller.tenant \in Tenants
    BY <1>2, <2>2 DEF Targets, Nullable, Paying, Callers
  <2>4. IsRow(r)
    BY <2>1, <2>2, <2>3, RowIsRow, NullIsNullable DEF Slip
  <2>5. r.model = "Payslip"
    BY <2>1 DEF Slip, Row
  <2>6. \A m \in NumberModels, t \in Tenants : DocsKept(m, t)
    BY <1>0, <1>4, <2>1, <2>2, <2>4, <2>5, StoreDocs
  <2>7. FreshId \in Ids
    BY <1>0, <1>4, <2>1, <2>4, StoreTypes
  <2>8. Paid(work[w], e, FreshId).at = "slips"
    BY <1>2, <2>7, PaidJob DEF Paying
  <2>9. \A v \in Workers : work'[v].at = "insert" => work'[v] = work[v]
    BY <1>0, <1>4, <2>8 DEF JobsOK
  <2> QED
    BY <1>2, <2>6, <2>9, CountingKept
<1> QED
  BY <1>1, <1>3, <1>4 DEF Slips

LEMMA SeedCounts ==
  ASSUME TypeInv, CountingOK, NEW w \in Workers, SeedStep(w)
  PROVE  CountingOK'
<1>0. JobsOK /\ RowsOK /\ SeedDoes(w)
  BY TypeParts, SeedShape
<1>1. IsSeeding(work[w]) /\ disturbed' = disturbed
  BY <1>0, JobOfAwait DEF JobsOK, SeedDoes
<1>2. PICK j : work' = [work EXCEPT ![w] = j]
               /\ (j = Idle \/ \E i : j = Remember(work[w], i))
  BY <1>0 DEF SeedDoes
<1>3. j.at # "insert"
  <2>1. Idle.at # "insert"
    BY DEF Idle
  <2>2. \A i : Remember(work[w], i).at # "insert"
    BY <2>1 DEF Remember
  <2> QED
    BY <1>2, <2>1, <2>2
<1>4. \A v \in Workers : work'[v].at = "insert" => work'[v] = work[v]
  BY <1>0, <1>2, <1>3 DEF JobsOK
<1>5. CASE UNCHANGED <<rows, spent>>
  BY <1>1, <1>4, <1>5, SameDocs, CountingKept
<1>6. CASE Store(SeedRowOf(work[w]))
  <2>1. PICK r : r = SeedRowOf(work[w])
    OBVIOUS
  <2>2. IsRow(r) /\ r.model \notin NumberModels
    <3>1. IsRow(r) /\ Seed[work[w].next].model \notin NumberModels
      BY <1>1, <2>1, SeedJob
    <3>2. r.model = Seed[work[w].next].model
      BY <2>1 DEF SeedRowOf, Row
    <3> QED
      BY <3>1, <3>2
  <2>3. \A m \in NumberModels, t \in Tenants : DocsKept(m, t)
    BY <1>0, <1>6, <2>1, <2>2, StoreDocs
  <2> QED
    BY <1>1, <1>4, <2>3, CountingKept
<1> QED
  BY <1>0, <1>5, <1>6 DEF SeedDoes

LEMMA CountsStay == TypeInv /\ CountingOK /\ [Next]_vars => CountingOK'
<1> SUFFICES ASSUME TypeInv, CountingOK, [Next]_vars PROVE CountingOK'
  OBVIOUS
<1>0. /\ RecordsTypeOK /\ JobsOK
      /\ Story.callers \subseteq Callers
  BY TypeParts, StoryOK DEF TypeInv, BackofficeTypeOK
<1>1. ASSUME NEW c \in Story.callers, Write(c)
      PROVE  CountingOK'
  BY <1>0, <1>1, WriteCounts
<1>2. ASSUME UNCHANGED <<rows, disturbed>>,
             \A v \in Workers : work'[v].at = "insert" => work'[v] = work[v]
      PROVE  CountingOK'
  BY <1>2, SameDocs, CountingKept
<1>3. ASSUME NEW w \in Workers, NEW j, work' = [work EXCEPT ![w] = j],
             j.at # "insert", UNCHANGED <<rows, disturbed>>
      PROVE  CountingOK'
  <2>1. \A v \in Workers : work'[v].at = "insert" => work'[v] = work[v]
    BY <1>0, <1>3 DEF JobsOK
  <2> QED
    BY <1>2, <1>3, <2>1
<1>4. Idle.at # "insert"
  BY DEF Idle
<1>5. ASSUME NEW c \in Story.callers, NEW w \in Workers, BeginNumber(w, c)
      PROVE  CountingOK'
  BY <1>0, <1>5, BeginCounts
<1>6. ASSUME NEW c \in Story.callers, NEW w \in Workers, BeginPayroll(w, c)
      PROVE  CountingOK'
  <2>1. PICK S : /\ work' = [work EXCEPT ![w] = [at |-> "slips", caller |-> c,
                      left |-> S, found |-> S, slips |-> {}]]
                 /\ UNCHANGED <<rows, disturbed>>
    BY <1>6 DEF BeginPayroll
  <2>2. PICK j : j = [at |-> "slips", caller |-> c, left |-> S, found |-> S,
                      slips |-> {}]
    OBVIOUS
  <2>3. j.at # "insert"
    BY <2>2
  <2> QED
    BY <1>3, <2>1, <2>2, <2>3
<1>7. ASSUME NEW c \in Story.callers, NEW w \in Workers, BeginBranding(w, c)
      PROVE  CountingOK'
  <2>1. PICK patch \in Patches :
          work' = [work EXCEPT ![w] = [at |-> "branding", caller |-> c,
                     patch |-> patch, merged |-> Merged(c.tenant, patch)]]
    BY <1>7 DEF BeginBranding
  <2>2. PICK j : j = [at |-> "branding", caller |-> c, patch |-> patch,
                      merged |-> Merged(c.tenant, patch)]
    OBVIOUS
  <2>3. j.at # "insert" /\ UNCHANGED <<rows, disturbed>>
    BY <1>7, <2>2 DEF BeginBranding
  <2> QED
    BY <1>3, <2>1, <2>2, <2>3
<1>8. ASSUME NEW w \in Workers, ContinueAudited(w)
      PROVE  CountingOK'
  <2>1. CASE AnswerPayroll(w)
    <3>1. work' = [work EXCEPT ![w] = Idle] /\ UNCHANGED <<rows, disturbed>>
      BY <2>1 DEF AnswerPayroll
    <3> QED
      BY <1>3, <1>4, <3>1
  <2> QED
    BY <1>8, <2>1, InsertCounts, SlipCounts DEF ContinueAudited
<1>9. ASSUME NEW w \in Workers, WriteBranding(w)
      PROVE  CountingOK'
  <2>1. work' = [work EXCEPT ![w] = Idle] /\ UNCHANGED <<rows, disturbed>>
    BY <1>9 DEF WriteBranding
  <2> QED
    BY <1>3, <1>4, <2>1
<1>10. ASSUME NEW w \in Workers, BeginSeed(w)
       PROVE  CountingOK'
  <2>1. PICK m : m = [k \in {NoKey} |-> None]
    OBVIOUS
  <2>2. PICK j : j = [at |-> "seed", next |-> 1, made |-> m]
    OBVIOUS
  <2>3. work' = [work EXCEPT ![w] = j] /\ UNCHANGED <<rows, disturbed>>
    BY <1>10, <2>1, <2>2, BeginSeedShape
  <2>4. j.at # "insert"
    BY <2>2
  <2> QED
    BY <1>3, <2>3, <2>4
<1>11. ASSUME NEW w \in Workers, SeedStep(w)
       PROVE  CountingOK'
  BY <1>11, SeedCounts
<1>12. ASSUME NEW x \in Contexts, RecordAudit(x)
       PROVE  CountingOK'
  <2>1. UNCHANGED <<rows, disturbed>> /\ UNCHANGED work
    BY <1>12 DEF RecordAudit
  <2> QED
    BY <1>2, <2>1
<1>13. CASE FailOrCrash
  BY <1>2, <1>4, <1>13, FailShape
<1>14. CASE UNCHANGED vars
  <2>1. UNCHANGED recordVars
    BY <1>14 DEF vars
  <2>2. UNCHANGED <<rows, disturbed>> /\ UNCHANGED work
    BY <2>1 DEF recordVars
  <2> QED
    BY <1>2, <2>2
<1> QED
  BY <1>1, <1>5, <1>6, <1>7, <1>8, <1>9, <1>10, <1>11, <1>12, <1>13, <1>14
     DEF Next, Begin

\* Numbers made by a count are distinct and the next one is free, unless an
\* overlap, a deletion, a new date, number or tenant of a document, a date of
\* last year, a number of the client's own or another context disturbed them:
\* whatever fails between a count and its insert.
THEOREM NumbersStayDistinct == Spec => []CountedNumbers
<1>1. Init => CountingOK
  <2> SUFFICES ASSUME Init, NEW m \in NumberModels, NEW t \in Tenants
               PROVE  NumbersOK(m, t) /\ WaitingOK(m, t)
    BY DEF CountingOK
  <2>1. \A i \in Ids : rows[i] # None => rows[i].number = None
    BY BackofficeAssumption DEF Init, RecordsInit, Story
  <2>2. Numbered(m, t) = {}
    BY <2>1, DocsOf DEF IsDoc
  <2>3. \A w \in Workers : work[w].at # "insert"
    BY DEF Init, RecordsInit, Idle
  <2> QED
    BY <2>2, <2>3 DEF NumbersOK, WaitingOK, Waits
<1>2. TypeInv /\ CountingOK => CountedNumbers
  <2> SUFFICES ASSUME TypeInv, CountingOK,
                      NEW r \in Offered("number"), NEW t \in Tenants,
                      <<r.model, t>> \notin disturbed
               PROVE  /\ \A i, j \in Numbered(r.model, t) :
                           rows[i].number = rows[j].number => i = j
                      /\ ~Taken(r.model, t, Tally(r.model, t) + 1)
    BY DEF CountedNumbers, Tally, OwnCaller
  <2>1. r.model \in NumberModels
    BY StoryOK, RoutesOfNumbers DEF Offered, TypeInv, BackofficeTypeOK
  <2>2. NumbersOK(r.model, t)
    BY <2>1 DEF CountingOK
  <2>3. Tally(r.model, t) \in Nat
    BY TallyOf
  <2> QED
    BY <2>2, <2>3 DEF NumbersOK, Taken
<1> QED
  BY <1>1, <1>2, InitTypes, TypesStay, CountsStay, PTL DEF Spec

-----------------------------------------------------------------------------
(* Rows of other tenants.                                                  *)

\* Rows that belong to the caller are not foreign to it.
LEMMA HomeIsNotForeign ==
  ASSUME NEW c, NEW S, c.context = c.tenant => \A j \in S : Owner(j) = c.tenant
  PROVE  Foreign(c, S) = {}
BY DEF Foreign

\* A row a caller of its own context sees is the caller's, or a leave.
LEMMA CrossingIsLeave ==
  ASSUME NEW c \in Callers, NEW i, Visible(c, i),
         rows[i].model \in SCOPED_MODELS \union {"Leave"}
  PROVE  Foreign(c, {i}) \subseteq {"Leave"}
<1>1. c.tenant # None
  BY BackofficeAssumption DEF Callers
<1>2. CASE c.context # c.tenant
  BY <1>2 DEF Foreign
<1>3. CASE c.context = c.tenant /\ rows[i].model \in SCOPED_MODELS
  <2>1. Owner(i) = c.tenant
    BY <1>1, <1>3, SeenTenant DEF Owner
  <2> QED
    BY <2>1, HomeIsNotForeign
<1>4. CASE rows[i].model = "Leave"
  BY <1>4 DEF Foreign
<1> QED
  BY <1>2, <1>3, <1>4

\* What depends on rows S depends on a row of its own tenant.
LEMMA DependentAtHome ==
  ASSUME RowsOK, RowsLinked, ~mixed, NEW S \in SUBSET Ids, NEW rule,
         rule # "Nothing", NEW j \in Dependents(S, rule)
  PROVE  /\ j \in Ids /\ rows[j] # None /\ rows[j].model \in Models
         /\ rows[j].tenant = None <=> rows[j].model \in Untenanted
         /\ \E f \in Fields(rows[j].model) :
              /\ Columns[rows[j].model][f].onDelete = rule
              /\ rows[j].to[f] \in S
              /\ \/ rows[j].tenant = None
                 \/ rows[rows[j].to[f]].tenant = rows[j].tenant
<1>1. /\ j \in Rows(Ids) /\ j \in Ids /\ rows[j] # None
      /\ \E f \in Fields(rows[j].model) :
           /\ Columns[rows[j].model][f].onDelete = rule /\ rows[j].to[f] \in S
  BY DEF Dependents, Rows
<1>2. PICK f \in Fields(rows[j].model) :
        /\ Columns[rows[j].model][f].onDelete = rule /\ rows[j].to[f] \in S
  BY <1>1
<1>3. f \in ForeignKeys(rows[j].model)
  BY <1>2 DEF ForeignKeys
<1>4. rows[j].to[f] # None
  BY <1>2, BackofficeAssumption
<1>5. AtHome(rows[j].to[f], rows[j].tenant)
  BY <1>1, <1>3, <1>4 DEF RowsLinked
<1>6. /\ rows[j].model \in Models
      /\ rows[j].tenant = None <=> rows[j].model \in Untenanted
  BY <1>1, RowParts DEF RowsOK
<1> QED
  BY <1>1, <1>2, <1>5, <1>6 DEF AtHome

\* A model without a tenant column has one reference.
LEMMA UntenantedFields ==
  ASSUME NEW m \in Models \intersect Untenanted
  PROVE  /\ \A f, g \in Fields(m) : f = g
         /\ \A f \in Fields(m) : Columns[m][f].onDelete = "Cascade"
<1>1. \A r \in References : r.model = m =>
        /\ r.onDelete = "Cascade"
        /\ r.field = IF m = "Leave" THEN "employee" ELSE "company"
  BY OwnedReferences DEF Untenanted
<1> QED
  BY <1>1, ColumnsAreReferences

\* As long as nothing is mixed, a delete takes and clears rows of its tenant.
LEMMA ReachesNobody ==
  ASSUME RecordsTypeOK, RowsLinked, ~mixed, NEW c \in Callers, NEW x \in Ids,
         NEW doomed \in SUBSET Ids, Deletes(c, x, doomed)
  PROVE  Foreign(c, (doomed \union Dependents(doomed, "SetNull")) \ {x}) = {}
<1>0. RowsOK /\ c.tenant # None
  BY RowsTyped, BackofficeAssumption DEF Callers
<1>1. /\ rows[x].model \in SCOPED_MODELS /\ Visible(c, x)
      /\ doomed = {x} \union Dependents({x}, "Cascade")
  BY StoryOK, ScopedRoutes DEF Deletes, Offered
<1> SUFFICES ASSUME c.context = c.tenant,
                    NEW j \in doomed \union Dependents(doomed, "SetNull")
             PROVE  Owner(j) = c.tenant
  BY HomeIsNotForeign
<1>2. rows[x].tenant = c.tenant
  BY <1>1, SeenTenant
<1>3. ASSUME NEW k \in doomed
      PROVE  Owner(k) = c.tenant
  <2>1. CASE k = x
    BY <1>0, <1>2, <2>1 DEF Owner
  <2>2. CASE k \in Dependents({x}, "Cascade")
    <3>1. /\ rows[k].model \in Models
          /\ rows[k].tenant = None <=> rows[k].model \in Untenanted
          /\ \E f \in Fields(rows[k].model) :
               /\ rows[k].to[f] \in {x}
               /\ \/ rows[k].tenant = None
                  \/ rows[rows[k].to[f]].tenant = rows[k].tenant
      BY <1>0, <2>2, DependentAtHome
    <3>2. PICK f \in Fields(rows[k].model) :
            /\ rows[k].to[f] = x
            /\ \/ rows[k].tenant = None
               \/ rows[x].tenant = rows[k].tenant
      BY <3>1
    <3>3. CASE rows[k].tenant # None
      BY <1>2, <3>2, <3>3 DEF Owner
    <3>4. CASE rows[k].tenant = None
      <4>1. (CHOOSE g \in Fields(rows[k].model) : TRUE) = f
        BY <3>1, <3>2, <3>4, UntenantedFields
      <4> QED
        BY <1>2, <3>2, <3>4, <4>1 DEF Owner
    <3> QED
      BY <3>3, <3>4
  <2> QED
    BY <1>1, <2>1, <2>2
<1>4. CASE j \in Dependents(doomed, "SetNull")
  <2>1. /\ rows[j].model \in Models
        /\ rows[j].tenant = None <=> rows[j].model \in Untenanted
        /\ \E f \in Fields(rows[j].model) :
             /\ Columns[rows[j].model][f].onDelete = "SetNull"
             /\ rows[j].to[f] \in doomed
             /\ \/ rows[j].tenant = None
                \/ rows[rows[j].to[f]].tenant = rows[j].tenant
    BY <1>0, <1>4, DependentAtHome
  <2>2. PICK f \in Fields(rows[j].model) :
             /\ Columns[rows[j].model][f].onDelete = "SetNull"
             /\ rows[j].to[f] \in doomed
             /\ \/ rows[j].tenant = None
                \/ rows[rows[j].to[f]].tenant = rows[j].tenant
    BY <2>1
  <2>3. rows[j].tenant # None
    BY <2>1, <2>2, UntenantedFields
  <2>4. Owner(rows[j].to[f]) = c.tenant
    BY <1>3, <2>2
  <2> QED
    BY <2>2, <2>3, <2>4 DEF Owner
<1> QED
  BY <1>3, <1>4

\* A step that crosses to leaves alone, and reaches nobody unless mixed.
LEMMA TenantsKept ==
  ASSUME OthersUntouched, crossed' \subseteq crossed \union {"Leave"},
         mixed => mixed', ~mixed => reached' = reached
  PROVE  OthersUntouched'
BY DEF OthersUntouched

LEMMA WriteCrossesNothing ==
  ASSUME RecordsTypeOK, RowsLinked, OthersUntouched, NEW c \in Callers, Write(c)
  PROVE  OthersUntouched'
<1>0. \A r \in Story.routes : r.model \in SCOPED_MODELS \union {"Leave"}
  BY StoryOK, ScopedRoutes
<1>1. CASE Update(c)
  <2>0. PICK i \in Ids : \E to, s, recent, t, key, number :
          Updates(c, i, to, s, recent, t, key, number)
    BY <1>1, RowsTyped, UpdateShape
  <2>1. PICK to, s, recent, t, key, number :
          Updates(c, i, to, s, recent, t, key, number)
    BY <2>0, Zenon
  <2>2. /\ Visible(c, i) /\ \E r \in Story.routes : r.model = rows[i].model
        /\ crossed' = crossed \union Foreign(c, {i})
        /\ reached' = reached /\ (mixed => mixed')
    BY <2>1 DEF Updates, Offered
  <2> QED
    BY <1>0, <2>2, CrossingIsLeave, TenantsKept
<1>2. CASE SetStatus(c)
  <2>1. PICK i \in Ids : \E s \in Statuses : Marks(c, i, s)
    BY <1>2, SetStatusShape
  <2>2. /\ Visible(c, i) /\ \E r \in Story.routes : r.model = rows[i].model
        /\ crossed' = crossed \union Foreign(c, {i})
        /\ reached' = reached /\ (mixed => mixed')
    BY <2>1 DEF Marks, Offered
  <2> QED
    BY <1>0, <2>2, CrossingIsLeave, TenantsKept
<1>3. CASE Delete(c)
  <2>1. PICK x \in Ids : \E doomed \in SUBSET Ids : Deletes(c, x, doomed)
    BY <1>3, DeleteShape
  <2>2. PICK doomed \in SUBSET Ids : Deletes(c, x, doomed)
    BY <2>1
  <2>3. /\ Visible(c, x) /\ \E r \in Story.routes : r.model = rows[x].model
        /\ crossed' = crossed \union Foreign(c, {x}) /\ mixed' = mixed
        /\ reached' = reached \union
             Foreign(c, (doomed \union Dependents(doomed, "SetNull")) \ {x})
    BY <2>2 DEF Deletes, Offered
  <2>4. ~mixed => reached' = reached
    BY <2>2, <2>3, ReachesNobody
  <2> QED
    BY <1>0, <2>3, <2>4, CrossingIsLeave, TenantsKept
<1>4. CASE Create(c) \/ Install(c)
  <2>1. CASE Create(c)
    <3>1. UNCHANGED <<crossed, reached>> /\ Mix(c)
      BY <2>1, Zenon DEF Create
    <3> QED
      BY <3>1, TenantsKept DEF Mix
  <2>2. CASE Install(c)
    <3>1. UNCHANGED tenancyVars
      BY <2>2, Zenon DEF Install
    <3> QED
      BY <3>1, TenantsKept DEF tenancyVars
  <2> QED
    BY <1>4, <2>1, <2>2
<1> QED
  BY <1>1, <1>2, <1>3, <1>4 DEF Write

\* As long as a client names the tenant of its token, it writes and deletes
\* rows of other tenants in one model only, the one without a tenant column,
\* and unless somebody wrote from another context or moved a row to another
\* tenant, its deletes take no row of another tenant along and clear none.
THEOREM OthersStayUntouched == Spec => []OthersUntouched
<1>1. Init => OthersUntouched
  BY DEF Init, RecordsInit, OthersUntouched
<1>2. TypeInv /\ LinksOK /\ OthersUntouched /\ [Next]_vars => OthersUntouched'
  <2> SUFFICES ASSUME TypeInv, LinksOK, OthersUntouched, [Next]_vars
               PROVE  OthersUntouched'
    OBVIOUS
  <2>1. ASSUME UNCHANGED <<crossed, reached>>, mixed => mixed'
        PROVE  OthersUntouched'
    BY <2>1, TenantsKept
  <2>2. ASSUME NEW c \in Story.callers, Write(c)
        PROVE  OthersUntouched'
    BY <2>2, WriteCrossesNothing, StoryOK DEF TypeInv, BackofficeTypeOK, LinksOK
  <2>3. ASSUME NEW c \in Story.callers, NEW w \in Workers,
               BeginPayroll(w, c) \/ BeginBranding(w, c)
        PROVE  OthersUntouched'
    BY <2>1, <2>3 DEF BeginPayroll, BeginBranding, Mix, tenancyVars
  <2>4. ASSUME NEW c \in Story.callers, NEW w \in Workers, BeginNumber(w, c)
        PROVE  OthersUntouched'
    BY <2>1, <2>4, BeginNumberShape DEF BeginsNumber, Mix
  <2>5. ASSUME NEW w \in Workers, ContinueAudited(w) \/ WriteBranding(w)
        PROVE  OthersUntouched'
    BY <2>1, <2>5
       DEF ContinueAudited, InsertNumbered, InsertSlip, AnswerPayroll,
           WriteBranding, tenancyVars
  <2>6. ASSUME NEW w \in Workers, BeginSeed(w) \/ SeedStep(w)
        PROVE  OthersUntouched'
    BY <2>1, <2>6 DEF BeginSeed, SeedStep, tenancyVars
  <2>7. ASSUME NEW x \in Contexts, RecordAudit(x)
        PROVE  OthersUntouched'
    BY <2>1, <2>7 DEF RecordAudit, tenancyVars
  <2>8. CASE FailOrCrash
    BY <2>1, <2>8 DEF FailOrCrash, Fail, tenancyVars
  <2>9. CASE UNCHANGED vars
    BY <2>1, <2>9 DEF vars, recordVars
  <2> QED
    BY <2>2, <2>3, <2>4, <2>5, <2>6, <2>7, <2>8, <2>9 DEF Next, Begin
<1> QED
  BY <1>1, <1>2, InitTypes, TypesStay, InitLinks, LinksStay, PTL DEF Spec

-----------------------------------------------------------------------------
(* The seed again.                                                         *)

\* The rows step n of the seed looks up, or adds to.
Upserted(n) == Keyed(Seed[n].model, SeedTenant, Seed[n].key)

\* A run of the seed has the opening stock still to book.
Ahead == \E w \in Workers : work[w].at = "seed" /\ work[w].next <= 6

\* Each step but the stock's has made one row at most, and no more stock is
\* booked and to be booked than runs were started; they do not overlap.
SeedingOK ==
  /\ \A n \in 1..9 \ {6} : \A i, k \in Upserted(n) : i = k
  /\ Cardinality(Upserted(6)) + (IF Ahead THEN 1 ELSE 0) <= seeds
  /\ \A v, w \in Workers : work[v].at = "seed" /\ work[w].at = "seed" => v = w

\* A row gets a key of the seed only when no other row has it.
KeysKept == \A n \in 1..9 :
  \/ Upserted(n)' \subseteq Upserted(n)
  \/ n # 6 /\ \A i, k \in Upserted(n)' : i = k

\* A row that has no key, or the one it had.
NoNewKey(i) ==
  \/ rows'[i] = None \/ rows'[i].key = None
  \/ /\ rows[i] # None /\ rows'[i].model = rows[i].model
     /\ rows'[i].tenant = rows[i].tenant /\ rows'[i].key = rows[i].key

LEMMA SeedModels ==
  \A n \in 1..9 : /\ Seed[n].model = "StockMove" <=> n = 6
                  /\ Seed[n].key # None
<1>1. /\ Seed[1].model = "Company" /\ Seed[2].model = "Account"
      /\ Seed[3].model = "Tax" /\ Seed[4].model = "Warehouse"
      /\ Seed[5].model = "Product" /\ Seed[6].model = "StockMove"
      /\ Seed[7].model = "Partner" /\ Seed[8].model = "Employee"
      /\ Seed[9].model = "PosSession"
  BY SeedTable, SeedRowFields
<1>2. \A n \in 1..9 : Seed[n].key # None
  BY SeedSteps, SeedAssumption, BackofficeAssumption
<1> QED
  BY <1>1, <1>2

LEMMA UpsertedOf ==
  ASSUME NEW n
  PROVE  /\ Upserted(n) =
              {i \in Ids : /\ rows[i] # None /\ rows[i].model = Seed[n].model
                           /\ Seed[n].model \in ById \/ rows[i].tenant = SeedTenant
                           /\ rows[i].key = Seed[n].key}
         /\ Upserted(n)' =
              {i \in Ids : /\ rows'[i] # None /\ rows'[i].model = Seed[n].model
                           /\ Seed[n].model \in ById \/ rows'[i].tenant = SeedTenant
                           /\ rows'[i].key = Seed[n].key}
         /\ IsFiniteSet(Upserted(n)) /\ Cardinality(Upserted(n)) \in Nat
<1>1. Upserted(n) \in SUBSET Ids
  BY DEF Upserted, Keyed, OfModel, Rows
<1>2. IsFiniteSet(Upserted(n)) /\ Cardinality(Upserted(n)) \in Nat
  BY <1>1, BackofficeAssumption, FS_Subset, FS_CardinalityType
<1> QED
  BY <1>2 DEF Upserted, Keyed, OfModel, Rows

LEMMA UpsertedKept ==
  ASSUME KeysKept
  PROVE  /\ \A n \in 1..9 : \/ Upserted(n)' \subseteq Upserted(n)
                            \/ \A i, k \in Upserted(n)' : i = k
         /\ Cardinality(Upserted(6)') \in Nat
         /\ Cardinality(Upserted(6)') <= Cardinality(Upserted(6))
<1>1. Upserted(6)' \subseteq Upserted(6)
  BY DEF KeysKept
<1>2. IsFiniteSet(Upserted(6)) /\ Cardinality(Upserted(6)) \in Nat
  BY UpsertedOf
<1>3. /\ Cardinality(Upserted(6)') \in Nat
      /\ Cardinality(Upserted(6)') <= Cardinality(Upserted(6))
  <2>1. PICK A, B : A = Upserted(6) /\ B = Upserted(6)'
    OBVIOUS
  <2>2. IsFiniteSet(B) /\ Cardinality(B) <= Cardinality(A)
    BY <1>1, <1>2, <2>1, FS_Subset
  <2>3. Cardinality(B) \in Nat
    BY <2>2, FS_CardinalityType
  <2> QED
    BY <2>1, <2>2, <2>3
<1> QED
  BY <1>3 DEF KeysKept

LEMMA SeedingKept ==
  ASSUME SeedingOK, KeysKept, seeds \in Nat, seeds' = seeds,
         \A w \in Workers : work'[w].at = "seed" => work'[w] = work[w]
  PROVE  SeedingOK'
<1>1. \A n \in 1..9 \ {6} : \A i, k \in Upserted(n)' : i = k
  BY UpsertedKept DEF SeedingOK
<1>2. Cardinality(Upserted(6)') + (IF Ahead' THEN 1 ELSE 0) <= seeds'
  <2>1. Ahead' => Ahead
    BY DEF Ahead
  <2>2. /\ Cardinality(Upserted(6)') \in Nat /\ Cardinality(Upserted(6)) \in Nat
        /\ Cardinality(Upserted(6)') <= Cardinality(Upserted(6))
    BY UpsertedKept, UpsertedOf
  <2> QED
    BY <2>1, <2>2 DEF SeedingOK
<1> QED
  BY <1>1, <1>2 DEF SeedingOK

\* Where no row gets a key, none is found that was not.
LEMMA NoNewKeys ==
  ASSUME \A i \in Ids : NoNewKey(i)
  PROVE  KeysKept
<1>1. ASSUME NEW n \in 1..9, NEW i \in Upserted(n)'
      PROVE  i \in Upserted(n)
  <2>1. /\ i \in Ids /\ rows'[i] # None /\ rows'[i].key = Seed[n].key
        /\ Seed[n].key # None
    BY UpsertedOf, SeedModels
  <2>2. /\ rows[i] # None /\ rows'[i].model = rows[i].model
        /\ rows'[i].tenant = rows[i].tenant /\ rows'[i].key = rows[i].key
    BY <2>1 DEF NoNewKey
  <2> QED
    BY <2>1, <2>2, UpsertedOf
<1> QED
  BY <1>1 DEF KeysKept

LEMMA SameKeys ==
  ASSUME UNCHANGED rows
  PROVE  KeysKept
BY NoNewKeys DEF NoNewKey

LEMMA StoreKeys ==
  ASSUME RowsOK, NEW r, IsRow(r), Store(r), r.key = None
  PROVE  KeysKept
BY StoreTypes, NoNewKeys DEF NoNewKey

\* Stock moves have no key of a client's.
LEMMA KeysOfStock == "StockMove" \notin ById \union ByKey
BY DEF ById, ByKey

\* One row changes, and if it has a key, it is the only one that has it.
LEMMA OneKey ==
  ASSUME NEW x \in Ids, \A j \in Ids \ {x} : rows'[j] = rows[j],
         rows'[x] # None,
         \/ NoNewKey(x)
         \/ /\ rows'[x].model # "StockMove"
            /\ Keyed(rows'[x].model, rows'[x].tenant, rows'[x].key) \subseteq {x}
  PROVE  KeysKept
<1>1. CASE NoNewKey(x)
  BY <1>1, NoNewKeys DEF NoNewKey
<1>2. CASE /\ rows'[x].model # "StockMove"
           /\ Keyed(rows'[x].model, rows'[x].tenant, rows'[x].key) \subseteq {x}
  <2> SUFFICES ASSUME NEW n \in 1..9
               PROVE  \/ Upserted(n)' \subseteq Upserted(n)
                      \/ n # 6 /\ \A i, k \in Upserted(n)' : i = k
    BY DEF KeysKept
  <2>1. ASSUME NEW i \in Upserted(n)', i # x
        PROVE  i \in Upserted(n)
    BY <2>1, UpsertedOf
  <2>2. CASE x \notin Upserted(n)'
    BY <2>1, <2>2
  <2>3. CASE x \in Upserted(n)'
    <3>1. /\ rows'[x].model = Seed[n].model /\ rows'[x].key = Seed[n].key
          /\ Seed[n].model \in ById \/ rows'[x].tenant = SeedTenant
      BY <2>3, UpsertedOf
    <3>2. n # 6
      BY <1>2, <3>1, SeedModels
    <3>3. Upserted(n) \subseteq {x}
      BY <1>2, <3>1 DEF Upserted, Keyed
    <3> QED
      BY <2>1, <3>2, <3>3
  <2> QED
    BY <2>2, <2>3
<1> QED
  BY <1>1, <1>2

LEMMA WriteKeys ==
  ASSUME RecordsTypeOK, NEW c \in Callers, Write(c)
  PROVE  KeysKept
<1>0. RowsOK
  BY RowsTyped
<1>1. ASSUME NEW r, Adds(r)
      PROVE  KeysKept
  <2>1. IsRow(r) /\ Store(r) /\ FirstOfKey(r)
    BY <1>1 DEF Adds
  <2>2. PICK x \in Ids : x = FreshId
    BY <1>0, <2>1, StoreTypes
  <2>3. /\ rows'[x] = r /\ r # None
        /\ \A i \in Ids \ {x} : rows'[i] = rows[i]
    BY <1>0, <2>1, <2>2, StoreTypes, RowParts
  <2>4. CASE r.key = None
    BY <1>0, <2>1, <2>4, StoreKeys
  <2>5. CASE /\ r.model \in ById \union ByKey
             /\ Keyed(r.model, r.tenant, r.key) = {}
    BY <2>3, <2>5, KeysOfStock, OneKey
  <2> QED
    BY <2>1, <2>4, <2>5 DEF FirstOfKey
<1>2. CASE Alike
  BY <1>2, NoNewKeys DEF Alike, NoNewKey
<1>3. ASSUME NEW i \in Ids, NEW to, NEW s, NEW recent, NEW t, NEW key,
             NEW number, Updates(c, i, to, s, recent, t, key, number)
      PROVE  KeysKept
  <2>1. PICK q : q = Updated(rows[i], to, s, recent, t, key, number)
    OBVIOUS
  <2>2. /\ IsRow(q) /\ q.model = rows[i].model /\ q.tenant = t /\ q.key = key
        /\ rows' = [rows EXCEPT ![i] = q]
    BY <1>3, <2>1, UpdateTypes
  <2>3. /\ rows'[i] = q /\ q # None
        /\ \A j \in Ids \ {i} : rows'[j] = rows[j]
    BY <1>0, <2>2, RowParts DEF RowsOK
  <2>4. /\ KeyFree(rows[i].model, t, key, i)
        /\ \E r \in Offered("update") : r.model = rows[i].model
    BY <1>3 DEF Updates
  <2>5. rows[i].model # "StockMove"
    BY <2>4, StoryOK, RoutesOfNumbers DEF Offered
  <2>6. CASE key = None
    BY <2>2, <2>3, <2>6, OneKey DEF NoNewKey
  <2>7. CASE Keyed(rows[i].model, t, key) \subseteq {i}
    BY <2>2, <2>3, <2>5, <2>7, OneKey
  <2> QED
    BY <2>4, <2>6, <2>7 DEF KeyFree
<1>4. ASSUME NEW x \in Ids, NEW doomed \in SUBSET Ids, Deletes(c, x, doomed)
      PROVE  KeysKept
  <2>1. \A j \in Ids : rows'[j] = IF j \in doomed \/ rows[j] = None THEN None
                                 ELSE Unlinked(j, doomed)
    BY <1>4 DEF Deletes
  <2>2. ASSUME NEW j \in Ids, rows'[j] # None
        PROVE  /\ rows[j] # None /\ rows'[j].model = rows[j].model
               /\ rows'[j].tenant = rows[j].tenant /\ rows'[j].key = rows[j].key
    <3>1. rows[j] # None /\ rows'[j] = Unlinked(j, doomed)
      BY <2>1, <2>2
    <3> QED
      BY <1>0, <3>1, UnlinkedTypes
  <2> QED
    BY <2>2, NoNewKeys DEF NoNewKey
<1>5. ASSUME NEW i \in Ids, \E to, s, recent, t, key, number :
               Updates(c, i, to, s, recent, t, key, number)
      PROVE  KeysKept
  BY <1>3, <1>5
<1> QED
  BY <1>1, <1>2, <1>4, <1>5, WriteKinds

LEMMA InsertKeys ==
  ASSUME TypeInv, NEW w \in Workers, InsertNumbered(w)
  PROVE  KeysKept
<1>0. JobsOK /\ RowsOK
  BY TypeParts
<1>1. CASE Store(NewDocument(w))
  <2>1. work[w] \in Inserting /\ work[w].to \in Targets(work[w].model)
    BY <1>0, JobOfAwait DEF InsertNumbered, JobsOK
  <2>2. IsRow(NewDocument(w)) /\ NewDocument(w).key = None
    BY <2>1, NewDocumentIsRow DEF NewDocument, Row
  <2> QED
    BY <1>0, <1>1, <2>2, StoreKeys
<1> QED
  BY <1>1, SameKeys DEF InsertNumbered, NewDocument

LEMMA SlipKeys ==
  ASSUME TypeInv, NEW w \in Workers, InsertSlip(w)
  PROVE  KeysKept
<1>0. JobsOK /\ RowsOK
  BY TypeParts
<1>1. PICK e \in Ids : Slips(w, e)
  BY <1>0, InsertSlipShape
<1>2. CASE Store(Slip(w, e))
  <2>1. "Payslip" \in Models /\ Fields("Payslip") = {"employee"}
    BY FieldsOfModels DEF Owned
  <2>2. [employee |-> e] \in Targets("Payslip") /\ work[w].caller.tenant \in Tenants
    BY <1>0, <2>1, InsertSlipShape DEF Targets, Nullable, Paying, Callers
  <2>3. Slip(w, e).key = None
    BY DEF Slip, Row
  <2>4. IsRow(Slip(w, e))
    BY <2>1, <2>2, RowIsRow, NullIsNullable DEF Slip
  <2> QED
    BY <1>0, <1>2, <2>3, <2>4, StoreKeys
<1> QED
  BY <1>1, <1>2, SameKeys DEF Slips

\* A run of the seed starts when no other is under way.
LEMMA BeginSeeding ==
  ASSUME TypeInv, SeedingOK, NEW w \in Workers, BeginSeed(w)
  PROVE  SeedingOK'
<1>0. JobsOK /\ seeds \in Nat
  BY TypeParts DEF TypeInv, BackofficeTypeOK
<1>1. PICK m : m = [k \in {NoKey} |-> None]
  OBVIOUS
<1>2. PICK j : j = [at |-> "seed", next |-> 1, made |-> m]
  OBVIOUS
<1>3. /\ work' = [work EXCEPT ![w] = j] /\ UNCHANGED rows /\ seeds' = seeds + 1
  BY <1>1, <1>2, BeginSeedShape
<1>4. \A v \in Workers : work[v].at # "seed"
  BY Zenon DEF BeginSeed
<1>5. /\ \A v \in Workers \ {w} : work'[v] = work[v]
  BY <1>0, <1>3 DEF JobsOK
<1>6. ~Ahead
  BY <1>4 DEF Ahead
<1>7. \A n : Upserted(n)' = Upserted(n)
  BY <1>3, UpsertedOf
<1>8. Cardinality(Upserted(6)') + (IF Ahead' THEN 1 ELSE 0) <= seeds'
  BY <1>0, <1>3, <1>6, <1>7, UpsertedOf DEF SeedingOK
<1> QED
  BY <1>4, <1>5, <1>7, <1>8 DEF SeedingOK

\* One step of a run: it goes on, and adds a row only where it found none.
LEMMA StepSeeding ==
  ASSUME TypeInv, SeedingOK, NEW w \in Workers, SeedStep(w)
  PROVE  SeedingOK'
<1>0. JobsOK /\ RowsOK /\ seeds \in Nat /\ SeedDoes(w)
  BY TypeParts, SeedShape DEF TypeInv, BackofficeTypeOK
<1>1. PICK j : j = work[w]
  OBVIOUS
<1>2. /\ IsSeeding(j) /\ j.at = "seed" /\ j.next \in 1..9 /\ seeds' = seeds
  BY <1>0, <1>1, JobOfAwait, SeedSteps DEF JobsOK, SeedDoes, IsSeeding
<1>3. PICK q : /\ work' = [work EXCEPT ![w] = q]
               /\ (q = Idle \/ \E i : q = Remember(j, i))
  BY <1>0, <1>1 DEF SeedDoes
<1>4. q.at = "seed" => q.next = j.next + 1
  <2>1. Idle.at # "seed"
    BY DEF Idle
  <2>2. ASSUME NEW i
        PROVE  Remember(j, i).at = "seed" => Remember(j, i).next = j.next + 1
    BY <2>1 DEF Remember
  <2> QED
    BY <1>3, <2>1, <2>2
<1>5. work'[w] = q /\ \A v \in Workers \ {w} : work'[v] = work[v]
  BY <1>0, <1>3 DEF JobsOK
<1>6. /\ \A v \in Workers : work[v].at = "seed" => v = w
      /\ \A v \in Workers : work'[v].at = "seed" => v = w
  BY <1>1, <1>2, <1>5 DEF SeedingOK
<1>7. /\ Ahead <=> j.next <= 6
      /\ Ahead' => j.next + 1 <= 6
  BY <1>1, <1>2, <1>4, <1>5, <1>6 DEF Ahead
<1>8. Cardinality(Upserted(6)) \in Nat
  BY UpsertedOf
<1>9. CASE UNCHANGED <<rows, spent>>
  <2>1. \A n : Upserted(n)' = Upserted(n)
    BY <1>9, UpsertedOf
  <2>2. Cardinality(Upserted(6)') + (IF Ahead' THEN 1 ELSE 0) <= seeds'
    BY <1>0, <1>2, <1>7, <1>8, <2>1 DEF SeedingOK
  <2> QED
    BY <1>6, <2>1, <2>2 DEF SeedingOK
<1>10. CASE Found(Seed[j.next]) = {} /\ Store(SeedRowOf(j))
  <2>1. PICK r : r = SeedRowOf(j)
    OBVIOUS
  <2>2. IsRow(r) /\ Seed[j.next].model \in Models \ NumberModels
    BY <1>2, <2>1, SeedJob
  <2>3. r.model = Seed[j.next].model /\ r.key = Seed[j.next].key
    BY <2>1 DEF SeedRowOf, Row
  <2>4. PICK x \in Ids : x = FreshId
    BY <1>0, <1>10, <2>1, <2>2, StoreTypes
  <2>5. /\ rows[x] = None /\ rows'[x] = r
        /\ \A i \in Ids \ {x} : rows'[i] = rows[i]
    BY <1>0, <1>10, <2>1, <2>2, <2>4, StoreTypes
  <2>6. \A n \in 1..9 \ {j.next} : Upserted(n)' = Upserted(n)
    <3> SUFFICES ASSUME NEW n \in 1..9 \ {j.next}
                 PROVE  Upserted(n)' = Upserted(n)
      OBVIOUS
    <3>1. r.key # Seed[n].key
      BY <1>2, <2>3, SeedKeys
    <3>2. x \notin Upserted(n)' /\ x \notin Upserted(n)
      BY <2>5, <3>1, UpsertedOf
    <3>3. ASSUME NEW i \in Ids \ {x}
          PROVE  i \in Upserted(n)' <=> i \in Upserted(n)
      BY <2>5, UpsertedOf
    <3>4. Upserted(n)' \subseteq Ids /\ Upserted(n) \subseteq Ids
      BY UpsertedOf
    <3> QED
      BY <3>2, <3>3, <3>4
  <2>7. Upserted(j.next)' \subseteq Upserted(j.next) \union {x}
    BY <2>5, UpsertedOf
  <2>8. CASE j.next = 6
    <3>1. x \notin Upserted(6)
      BY <2>5, UpsertedOf
    <3>2. /\ IsFiniteSet(Upserted(6) \union {x})
          /\ Cardinality(Upserted(6) \union {x}) = Cardinality(Upserted(6)) + 1
      BY <3>1, UpsertedOf, FS_AddElement
    <3>3. /\ Cardinality(Upserted(6)') <= Cardinality(Upserted(6)) + 1
          /\ Cardinality(Upserted(6)') \in Nat
      BY <2>7, <2>8, <3>2, FS_Subset, FS_CardinalityType
    <3>4. Cardinality(Upserted(6)') + (IF Ahead' THEN 1 ELSE 0) <= seeds'
      BY <1>0, <1>2, <1>7, <1>8, <2>8, <3>3 DEF SeedingOK
    <3> QED
      BY <1>6, <2>6, <2>8, <3>4 DEF SeedingOK
  <2>9. CASE j.next # 6
    <3>1. Upserted(j.next) = {}
      BY <1>2, <1>10, <2>9, SeedModels DEF Found, Upserted
    <3>2. \A i, k \in Upserted(j.next)' : i = k
      BY <2>7, <3>1
    <3>3. Cardinality(Upserted(6)') + (IF Ahead' THEN 1 ELSE 0) <= seeds'
      <4>1. Upserted(6)' = Upserted(6)
        BY <2>6, <2>9
      <4> QED
        BY <1>0, <1>2, <1>7, <1>8, <4>1 DEF SeedingOK
    <3> QED
      BY <1>6, <2>6, <3>2, <3>3 DEF SeedingOK
  <2> QED
    BY <2>8, <2>9
<1> QED
  BY <1>0, <1>1, <1>9, <1>10 DEF SeedDoes

LEMMA SeedsStay == TypeInv /\ SeedingOK /\ [Next]_vars => SeedingOK'
<1> SUFFICES ASSUME TypeInv, SeedingOK, [Next]_vars PROVE SeedingOK'
  OBVIOUS
<1>0. /\ RecordsTypeOK /\ JobsOK /\ seeds \in Nat
      /\ Story.callers \subseteq Callers
  BY TypeParts, StoryOK DEF TypeInv, BackofficeTypeOK
<1>1. Idle.at # "seed"
  BY DEF Idle
<1>2. ASSUME NEW w \in Workers, NEW j, work' = [work EXCEPT ![w] = j],
             j.at # "seed", KeysKept, seeds' = seeds
      PROVE  SeedingOK'
  <2>1. \A v \in Workers : work'[v].at = "seed" => work'[v] = work[v]
    BY <1>0, <1>2 DEF JobsOK
  <2> QED
    BY <1>0, <1>2, <2>1, SeedingKept
<1>3. ASSUME KeysKept, seeds' = seeds,
             \A w \in Workers : work'[w] = Idle \/ work'[w] = work[w]
      PROVE  SeedingOK'
  BY <1>0, <1>1, <1>3, SeedingKept
<1>4. ASSUME NEW c \in Story.callers, Write(c), Surroundings
      PROVE  SeedingOK'
  BY <1>0, <1>3, <1>4, WriteKeys, WriteKinds DEF Surroundings
<1>5. ASSUME NEW c \in Story.callers, NEW w \in Workers, BeginNumber(w, c),
             Surroundings
      PROVE  SeedingOK'
  <2>1. PICK m, to, n, recent : BeginsNumber(w, c, m, to, n, recent)
    BY <1>5, BeginNumberShape
  <2>2. PICK j : j = [at |-> "insert", caller |-> c, model |-> m, to |-> to,
                      recent |-> recent, number |-> n]
    OBVIOUS
  <2>3. work' = [work EXCEPT ![w] = j] /\ UNCHANGED rows
    BY <2>1, <2>2 DEF BeginsNumber
  <2>4. j.at # "seed" /\ seeds' = seeds
    BY <1>5, <2>2 DEF Surroundings
  <2> QED
    BY <1>2, <2>3, <2>4, SameKeys
<1>6. ASSUME NEW c \in Story.callers, NEW w \in Workers, BeginPayroll(w, c),
             Surroundings
      PROVE  SeedingOK'
  <2>1. PICK S : /\ work' = [work EXCEPT ![w] = [at |-> "slips", caller |-> c,
                      left |-> S, found |-> S, slips |-> {}]]
                 /\ UNCHANGED rows
    BY <1>6 DEF BeginPayroll
  <2>2. PICK j : j = [at |-> "slips", caller |-> c, left |-> S, found |-> S,
                      slips |-> {}]
    OBVIOUS
  <2>3. j.at # "seed" /\ seeds' = seeds
    BY <1>6, <2>2 DEF Surroundings
  <2> QED
    BY <1>2, <2>1, <2>2, <2>3, SameKeys
<1>7. ASSUME NEW c \in Story.callers, NEW w \in Workers, BeginBranding(w, c)
      PROVE  SeedingOK'
  <2>1. PICK patch \in Patches :
          work' = [work EXCEPT ![w] = [at |-> "branding", caller |-> c,
                     patch |-> patch, merged |-> Merged(c.tenant, patch)]]
    BY <1>7 DEF BeginBranding
  <2>2. PICK j : j = [at |-> "branding", caller |-> c, patch |-> patch,
                      merged |-> Merged(c.tenant, patch)]
    OBVIOUS
  <2>3. j.at # "seed" /\ UNCHANGED <<rows, seeds>>
    BY <1>7, <2>2 DEF BeginBranding
  <2> QED
    BY <1>2, <2>1, <2>2, <2>3, SameKeys
<1>8. ASSUME NEW w \in Workers, ContinueAudited(w)
      PROVE  SeedingOK'
  <2>0. seeds' = seeds
    BY <1>8 DEF ContinueAudited, Surroundings
  <2>1. CASE InsertNumbered(w)
    <3>1. work' = [work EXCEPT ![w] = Idle]
      BY <2>1 DEF InsertNumbered
    <3> QED
      BY <1>1, <1>2, <2>0, <2>1, <3>1, InsertKeys
  <2>2. CASE InsertSlip(w)
    <3>1. PICK e \in Ids : Slips(w, e)
      BY <1>0, <2>2, InsertSlipShape
    <3>2. CASE work' = [work EXCEPT ![w] = Idle]
      BY <1>1, <1>2, <2>0, <2>2, <3>2, SlipKeys
    <3>3. CASE work' = [work EXCEPT ![w] = Paid(work[w], e, FreshId)]
      <4>1. work[w].at = "slips" /\ work[w] \in Paying
        BY <1>0, <2>2, InsertSlipShape DEF Paying
      <4>2. Paid(work[w], e, FreshId).at # "seed"
        BY <4>1 DEF Paying, Paid
      <4> QED
        BY <1>2, <2>0, <2>2, <3>3, <4>2, SlipKeys
    <3> QED
      BY <3>1, <3>2, <3>3 DEF Slips
  <2>3. CASE AnswerPayroll(w)
    <3>1. work' = [work EXCEPT ![w] = Idle] /\ UNCHANGED rows
      BY <2>3 DEF AnswerPayroll
    <3> QED
      BY <1>1, <1>2, <2>0, <3>1, SameKeys
  <2> QED
    BY <1>8, <2>1, <2>2, <2>3 DEF ContinueAudited
<1>9. ASSUME NEW w \in Workers, WriteBranding(w)
      PROVE  SeedingOK'
  <2>1. work' = [work EXCEPT ![w] = Idle] /\ UNCHANGED <<rows, seeds>>
    BY <1>9 DEF WriteBranding
  <2> QED
    BY <1>1, <1>2, <2>1, SameKeys
<1>10. ASSUME NEW x \in Contexts, RecordAudit(x)
       PROVE  SeedingOK'
  <2>1. UNCHANGED <<rows, seeds>> /\ UNCHANGED work
    BY <1>10 DEF RecordAudit
  <2> QED
    BY <1>3, <2>1, SameKeys
<1>11. CASE FailOrCrash
  BY <1>3, <1>11, FailShape, SameKeys
<1>12. CASE UNCHANGED vars
  <2>1. UNCHANGED recordVars /\ seeds' = seeds
    BY <1>12 DEF vars
  <2>2. UNCHANGED rows /\ UNCHANGED work
    BY <2>1 DEF recordVars
  <2> QED
    BY <1>3, <2>1, <2>2, SameKeys
<1> QED
  BY <1>4, <1>5, <1>6, <1>7, <1>8, <1>9, <1>10, <1>11, <1>12,
     BeginSeeding, StepSeeding DEF Next, Begin

\* Running the seed again doubles nothing it looks up by key, wherever it was
\* stopped and whatever users make, patch, move or delete meanwhile; the opening
\* stock is booked once per run.
THEOREM SeedIsRepeatable == Spec => []SeedAgain
<1>1. Init => SeedingOK
  <2> SUFFICES ASSUME Init PROVE SeedingOK
    OBVIOUS
  <2>1. \A i \in Ids : rows[i] # None => \A n \in 1..9 : rows[i].key # Seed[n].key
    BY SeedSteps, SeedAssumption DEF Init, RecordsInit, Story
  <2>2. \A n \in 1..9 : Upserted(n) = {}
    BY <2>1, UpsertedOf
  <2>3. \A w \in Workers : work[w].at # "seed"
    BY DEF Init, RecordsInit, Idle
  <2>4. Cardinality(Upserted(6)) = 0 /\ seeds = 0 /\ ~Ahead
    BY <2>2, <2>3, FS_EmptySet DEF Init, Ahead
  <2> QED
    BY <2>2, <2>3, <2>4 DEF SeedingOK
<1>2. TypeInv /\ SeedingOK => SeedAgain
  <2> SUFFICES ASSUME TypeInv, SeedingOK, NEW n \in 1..9
               PROVE  Cardinality(Upserted(n)) <=
                        (IF Seed[n].model = "StockMove" THEN seeds ELSE 1)
    BY SeedSteps DEF SeedAgain, Upserted
  <2>1. CASE n = 6
    <3>1. Cardinality(Upserted(6)) \in Nat /\ seeds \in Nat
      BY UpsertedOf DEF TypeInv, BackofficeTypeOK
    <3> QED
      BY <2>1, <3>1, SeedModels DEF SeedingOK
  <2>2. CASE n # 6 /\ Upserted(n) = {}
    BY <2>2, SeedModels, FS_EmptySet
  <2>3. CASE n # 6 /\ Upserted(n) # {}
    <3>1. PICK i : i \in Upserted(n)
      BY <2>3
    <3>2. Upserted(n) = {i}
      BY <2>3, <3>1 DEF SeedingOK
    <3>3. Cardinality({i}) = 1
      BY FS_Singleton
    <3>4. Seed[n].model # "StockMove"
      BY <2>3, SeedModels
    <3> QED
      BY <3>2, <3>3, <3>4
  <2> QED
    BY <2>1, <2>2, <2>3
<1> QED
  BY <1>1, <1>2, InitTypes, TypesStay, SeedsStay, PTL DEF Spec

=============================================================================
