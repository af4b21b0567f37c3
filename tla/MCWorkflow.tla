----------------------------- MODULE MCWorkflow -----------------------------
(* A small instance of Workflow with the rule language of Conditions: an    *)
(* invoice and workflows of its own tenant and of another.                  *)
EXTENDS Workflow

CONSTANTS w1, w2, t1, t2

Rules == INSTANCE Conditions

Satisfies(conditions, payload) == Rules!Evaluate(conditions, payload)

Total(n) == [total |-> Rules!Value("string", n)]

Invoice == [id |-> 1, trigger |-> "invoice.created", tenant |-> t1,
            payload |-> Total(120)]
Published == {Invoice}

\* Large totals, but not exactly 120, which no string equals.
Large == [op |-> "all",
          of |-> <<[op |-> ">", path |-> "total",
                    value |-> Rules!Value("number", 100)],
                   [op |-> "not",
                    of |-> <<[op |-> "==", path |-> "total",
                              value |-> Rules!Value("number", 120)]>>]>>]

Row(tenant, trigger, conditions, actions, active) ==
  [tenant |-> tenant, trigger |-> trigger, conditions |-> conditions,
   actions |-> actions, active |-> active]

SomeDrafts ==
  {Row(t1, "invoice.created", Large, <<"notify">>, TRUE),
   Row(t1, "invoice.created", None, <<"webhook", "log", "notify">>, TRUE),
   Row(t2, "invoice.created", None, <<"notify">>, FALSE)}

=============================================================================
