---------------------------- MODULE MCBackoffice ----------------------------
(* Small instances of Backoffice: each story starts from the rows of a few  *)
(* kinds and uses the routes that matter for one question.                  *)
EXTENDS Backoffice

CONSTANTS t1, t2

AllKeys == {"stripe", "shopify", "company", "1000", "vat15", "WH-MAIN",
            "COFFEE-LRG", "opening-stock", "cust1", "emp1", "pos1"}

\* A row of the opening state.
Given(model, tenant, to) == Row(model, tenant, to, TRUE, None, None)

Caller(token, context) == [tenant |-> token, context |-> context]

Own == {Caller(t1, t1)}

Verb(verb, models) == {r \in AllRoutes : r.verb = verb /\ r.model \in models}

Plain == [rows |-> <<>>, routes |-> {}, callers |-> Own, writes |-> 3,
          keys |-> {}, branding |-> FALSE, watched |-> FALSE, seeds |-> 0]

Referring == [Plain EXCEPT !.rows =
    <<Given("Product", t1, <<>>), Given("Warehouse", t1, <<>>),
      Given("Partner", t1, <<>>), Given("Account", t1, [parent |-> None])>>,
  !.routes = Verb("create", {"StockMove", "JournalLine", "Invoice"}) \union
             Verb("delete", {"Product", "Warehouse", "Partner", "Account"})]

Naming == [Plain EXCEPT !.rows =
    <<Given("Product", t1, <<>>), Given("Partner", t1, <<>>),
      Given("Employee", t1, <<>>),
      Given("Project", t1, [partner |-> 2]),
      Given("Task", t1, [project |-> 4, assignee |-> 3])>>,
  !.routes = Verb("number", {"ManufacturingOrder"}) \union Verb("create", {"Bom"})
               \union Verb("update", {"Task"})
               \union Verb("delete", {"Product", "Partner", "Employee", "Bom"})]

Strangers == [Plain EXCEPT !.rows =
    <<Given("Project", t1, [partner |-> None]),
      Given("Task", t1, [project |-> 1, assignee |-> None]),
      Given("Employee", t2, <<>>), Given("Leave", None, [employee |-> 3])>>,
  !.routes = Verb("update", {"Task", "Employee"}) \union Verb("status", {"Leave"})
               \union Verb("delete", {"Task", "Project", "Employee"})
               \union Verb("create", {"Task", "Leave"}), !.writes = 4,
  !.callers = {Caller(t1, t1), Caller(t2, t2), Caller(t1, None),
               Caller(t2, Nowhere)}]

Numbering == [Plain EXCEPT !.rows =
    <<Given("Partner", t1, <<>>), Given("Partner", t2, <<>>)>>,
  !.routes = Verb("number", {"Quotation", "Contract"}) \union
             Verb("delete", {"Contract", "Partner"}) \union
             Verb("update", {"Contract"}),
  !.callers = {Caller(t1, t1), Caller(t2, t2)}]

Papers == [Plain EXCEPT !.rows = <<Given("Partner", t1, <<>>)>>,
  !.routes = Verb("number", {"ManufacturingOrder", "Bill", "PurchaseOrder"}),
  !.callers = {Caller(t1, t1), Caller(t1, None)}]

Salaries == [Plain EXCEPT !.rows =
    <<Given("Employee", t1, <<>>), Given("Employee", t2, <<>>)>>,
  !.routes = Verb("generate", {"Payslip"}) \union Verb("delete", {"Employee"}),
  !.callers = {Caller(t1, t1), Caller(t1, None)}]

Colours == [Plain EXCEPT !.branding = TRUE,
                         !.callers = {Caller(t1, t1), Caller(t2, t2)}]

Seeding == [Plain EXCEPT !.seeds = 2, !.writes = 2,
  !.keys = {"COFFEE-LRG", "cust1"},
  !.routes = Verb("delete", {"Product", "Warehouse", "Partner", "Company"})
               \union Verb("create", {"Product"})
               \union Verb("update", {"Product", "Partner"})]

Market == [Plain EXCEPT !.keys = {"stripe", "shopify"},
  !.routes = Verb("install", {"Plugin"}) \union Verb("status", {"Plugin"})
               \union Verb("delete", {"Plugin"}),
  !.callers = {Caller(t1, t1), Caller(t2, t2), Caller(t1, None)}]

Audited == [Plain EXCEPT !.watched = TRUE, !.branding = TRUE,
  !.rows = <<Given("Employee", t1, <<>>), Given("Partner", t1, <<>>)>>,
  !.routes = Verb("create", {"Partner"}) \union Verb("generate", {"Payslip"})
               \union Verb("number", {"Quotation"}),
  !.writes = 2]

BySubdomain == [Audited EXCEPT !.callers = {Caller(t1, Nowhere)}]

AllStories ==
  [referring |-> Referring,
   naming |-> Naming,
   strangers |-> Strangers,
   numbering |-> Numbering,
   papers |-> Papers,
   salaries |-> Salaries,
   colours |-> Colours,
   seeding |-> Seeding,
   market |-> Market,
   audited |-> Audited,
   bySubdomain |-> BySubdomain]

=============================================================================
