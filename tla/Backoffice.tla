----------------------------- MODULE Backoffice -----------------------------
(***************************************************************************)
(* Records together with what surrounds the controllers: the audit log     *)
(* that the interceptor writes after every successful mutation, without    *)
(* waiting for it (core/audit), the branding of a tenant, read, merged and *)
(* written back (core/branding), and the seed script (prisma/seed.ts),     *)
(* which can be stopped anywhere and run again.                            *)
(***************************************************************************)
EXTENDS Records, Sequences

CONSTANT SeedTenant   \* the demo tenant

VARIABLES
  branding,  \* per tenant: the stored branding, by field
  latest,    \* per tenant and field: the last value a finished update gave it
  raced,     \* tenants of which two branding updates overlapped
  answered,  \* mutations answered
  pending,   \* per context: audit records being written
  logged,    \* audit records written
  seeds      \* how often the seed was started

auditVars    == <<answered, pending, logged>>
brandingVars == <<branding, latest, raced>>
vars         == <<recordVars, brandingVars, auditVars, seeds>>

BrandFields == {"logoUrl", "primaryColor"}

\* What the default has, and what a patch may bring.
DEFAULT == [f \in BrandFields |-> "default"]

Brands == {"default", "red", "blue"}

Patches == UNION {[F -> {"red", "blue"}] : F \in (SUBSET BrandFields) \ {{}}}

Contexts == Nullable(Tenants \union {Nowhere})

\* Tenants and their users are no rows here: Sessions has them.
ASSUME BackofficeAssumption ==
  /\ SeedTenant \in Tenants /\ Nowhere \notin Nullable(Tenants)
  /\ ChosenNumbers \subseteq Nat \ {0}
  /\ MaxFaults \in Nat /\ IsFiniteSet(Ids)
  /\ None \notin Nat \union Ids \union Tenants \union Keys \union RowTypes
  /\ \A name \in DOMAIN Stories : LET s == Stories[name] IN
       /\ s.routes \subseteq AllRoutes \ (Landlord \union Staff)
       /\ DOMAIN s.rows \subseteq Ids
       /\ s.callers \subseteq [tenant : Tenants, context : Contexts]
       /\ s.watched \in BOOLEAN /\ s.writes \in Nat /\ s.seeds \in Nat
       /\ s.keys \subseteq Keys
       /\ \A i \in DOMAIN s.rows :
            LET r == s.rows[i]
            IN /\ IsRow(r) /\ r.number = None
               /\ \A f \in Fields(r.model) : r.to[f] # None =>
                    /\ r.to[f] \in DOMAIN s.rows
                    /\ s.rows[r.to[f]].model = Columns[r.model][f].target
                    /\ r.tenant # None => s.rows[r.to[f]].tenant = r.tenant

Init ==
  /\ RecordsInit
  /\ branding = [t \in Tenants |-> DEFAULT]
  /\ latest = branding
  /\ raced = {}
  /\ answered = 0 /\ logged = 0
  /\ pending = [x \in Contexts |-> 0]
  /\ seeds = 0

-----------------------------------------------------------------------------
(* The interceptor, and the audit service. *)

\* A mutation of caller c was answered.
Audit(c) ==
  /\ answered' = answered + 1
  /\ pending' = [pending EXCEPT ![c.context] = @ + 1]

\* Histories that do not watch the audit leave it out.
AfterMutation(c) ==
  /\ IF Story.watched THEN Audit(c) ELSE UNCHANGED <<answered, pending>>
  /\ UNCHANGED logged

\* record: a slug or an unknown header is no id of a tenant, so that the insert
\* is refused; that and any failure is logged and forgotten.
RecordAudit(x) ==
  /\ pending[x] > 0
  /\ pending' = [pending EXCEPT ![x] = @ - 1]
  /\ \/ x # Nowhere /\ logged' = logged + 1 /\ UNCHANGED faults
     \/ x = Nowhere /\ UNCHANGED <<logged, faults>>
     \/ Fault /\ UNCHANGED logged
  /\ UNCHANGED <<rows, spent, work, budget, story, disturbed, tenancyVars,
                 paidRuns, answered, brandingVars, seeds>>

-----------------------------------------------------------------------------
(* BrandingService.update: forTenant, and then the merged whole. *)

\* Mutant of Merged: the defaults instead of what is stored.
MergedDefault(t, patch) == [f \in BrandFields |->
  IF f \in DOMAIN patch THEN patch[f] ELSE DEFAULT[f]]

Merged(t, patch) == [f \in BrandFields |->
  IF f \in DOMAIN patch THEN patch[f] ELSE branding[t][f]]

BeginBranding(w, c) == \E patch \in Patches :
  /\ Story.branding
  /\ work[w] = Idle
  /\ Spend
  /\ work' = [work EXCEPT ![w] = [at |-> "branding", caller |-> c,
                patch |-> patch, merged |-> Merged(c.tenant, patch)]]
  /\ raced' = IF \E v \in Workers : /\ work[v].at = "branding"
                                    /\ work[v].caller.tenant = c.tenant
              THEN raced \union {c.tenant} ELSE raced
  /\ UNCHANGED <<rows, spent, story, disturbed, tenancyVars, paidRuns,
                 faults, branding, latest, auditVars, seeds>>

WriteBranding(w) ==
  LET j == work[w]
      t == j.caller.tenant
  IN /\ j.at = "branding"
     /\ branding' = [branding EXCEPT ![t] = j.merged]
     /\ latest' = [latest EXCEPT ![t] = [f \in BrandFields |->
          IF f \in DOMAIN j.patch THEN j.patch[f] ELSE @[f]]]
     /\ work' = [work EXCEPT ![w] = Idle]
     /\ AfterMutation(j.caller)
     /\ UNCHANGED <<rows, spent, budget, story, disturbed, tenancyVars,
                    paidRuns, faults, raced, seeds>>

-----------------------------------------------------------------------------
(* The seed: upserts by key, in this order, and after every product a plain *)
(* insert of its opening stock.  One row stands for all of a kind.          *)

SeedRow(model, key, to) == [model |-> model, key |-> key, to |-> to]

Seed ==
  <<SeedRow("Company", "company", <<>>),
    SeedRow("Account", "1000", [parent |-> ""]),
    SeedRow("Tax", "vat15", <<>>),
    SeedRow("Warehouse", "WH-MAIN", <<>>),
    SeedRow("Product", "COFFEE-LRG", <<>>),
    SeedRow("StockMove", "opening-stock",
            [product |-> "COFFEE-LRG", to |-> "WH-MAIN", from |-> ""]),
    SeedRow("Partner", "cust1", <<>>),
    SeedRow("Employee", "emp1", <<>>),
    SeedRow("PosSession", "pos1", <<>>)>>

\* No story starts with rows of the seed.
ASSUME SeedAssumption == \A n \in DOMAIN Seed :
  /\ Seed[n].key \in Keys
  /\ \A name \in DOMAIN Stories : \A i \in DOMAIN Stories[name].rows :
       Stories[name].rows[i].key # Seed[n].key

BeginSeed(w) ==
  /\ seeds < Story.seeds
  /\ \A v \in Workers : work[v].at # "seed"
  /\ work[w] = Idle
  /\ seeds' = seeds + 1
  /\ work' = [work EXCEPT ![w] = [at |-> "seed", next |-> 1,
                                  made |-> [k \in {""} |-> None]]]
  /\ UNCHANGED <<rows, spent, budget, story, disturbed, tenancyVars,
                 paidRuns, faults, brandingVars, auditVars>>

\* Mutant of Found: all steps are plain inserts.
FoundNone(step) == {}

\* The row an upsert finds; opening stock is never looked for.
Found(step) ==
  IF step.model = "StockMove" THEN {} ELSE Keyed(step.model, SeedTenant, step.key)

\* The script keeps the ids of what it upserted for the rows that refer to it,
\* and stops at the first error.
SeedStep(w) ==
  LET j == work[w]
      step == Seed[j.next]
      to == [f \in DOMAIN step.to |-> j.made[step.to[f]]]
      remember(i) ==
        work' = [work EXCEPT ![w] =
          IF j.next = Len(Seed) THEN Idle
          ELSE [at |-> "seed", next |-> j.next + 1,
                made |-> [k \in DOMAIN j.made \union {step.key} |->
                            IF k = step.key THEN i ELSE j.made[k]]]]
  IN /\ j.at = "seed"
     /\ CASE Found(step) # {} ->
               /\ remember(CHOOSE i \in Found(step) : TRUE)
               /\ UNCHANGED <<rows, spent>>
          [] Found(step) = {} /\ KeysHold(step.model, to) ->
               /\ Store(Row(step.model, SeedTenant, to, TRUE, None, step.key))
               /\ remember(FreshId)
          [] OTHER -> /\ work' = [work EXCEPT ![w] = Idle]
                      /\ UNCHANGED <<rows, spent>>
     /\ UNCHANGED <<budget, story, disturbed, tenancyVars, paidRuns, faults,
                    brandingVars, auditVars, seeds>>

-----------------------------------------------------------------------------
Surroundings == UNCHANGED <<brandingVars, seeds>>

\* A request of several queries goes on; its end is a mutation if it succeeds.
ContinueAudited(w) ==
  LET c == work[w].caller
  IN /\ \/ InsertNumbered(w) /\ (IF rows' = rows THEN UNCHANGED auditVars
                                 ELSE AfterMutation(c))
        \/ InsertSlip(w) /\ UNCHANGED auditVars
        \/ AnswerPayroll(w) /\ AfterMutation(c)
     /\ Surroundings

\* A death of the process takes the audit records under way with it.
FailOrCrash ==
  /\ Fail
  /\ \/ UNCHANGED auditVars
     \/ /\ \A w \in Workers : work'[w] = Idle
        /\ \E x \in Contexts : pending[x] > 0
        /\ pending' = [x \in Contexts |-> 0]
        /\ UNCHANGED <<answered, logged>>
  /\ Surroundings

Next ==
  \/ \E c \in Story.callers :
       \/ Write(c) /\ AfterMutation(c) /\ Surroundings
       \/ \E w \in Workers : \/ Begin(w, c) /\ UNCHANGED auditVars
                                            /\ Surroundings
                             \/ BeginBranding(w, c)
  \/ \E w \in Workers : \/ ContinueAudited(w) \/ WriteBranding(w)
                        \/ BeginSeed(w) \/ SeedStep(w)
  \/ \E x \in Contexts : RecordAudit(x)
  \/ FailOrCrash

Spec == Init /\ [][Next]_vars

-----------------------------------------------------------------------------
\* Types of all variables.
BackofficeTypeOK ==
  /\ RecordsTypeOK
  /\ branding \in [Tenants -> [BrandFields -> Brands]]
  /\ latest \in [Tenants -> [BrandFields -> Brands]]
  /\ raced \subseteq Tenants
  /\ answered \in Nat /\ logged \in Nat /\ seeds \in Nat
  /\ pending \in [Contexts -> Nat]

\* Every field of a tenant's branding has the value the last update that named
\* it gave it, although each update writes all fields, as long as no two
\* updates of the tenant overlapped.
NoLostBranding == \A t \in Tenants \ raced : branding[t] = latest[t]

\* Running the seed again, after it was stopped anywhere or next to users who
\* make, patch, move or delete what it looks for, doubles no row it looks up by
\* key; only the opening stock is booked again, once per run.
SeedAgain ==
  \A k \in DOMAIN Seed :
    Cardinality(Keyed(Seed[k].model, SeedTenant, Seed[k].key)) <=
      (IF Seed[k].model = "StockMove" THEN seeds ELSE 1)

=============================================================================
