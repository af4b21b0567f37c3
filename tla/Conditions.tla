----------------------------- MODULE Conditions -----------------------------
(***************************************************************************)
(* evaluateConditions of core/workflow/workflow.engine.ts: the rule        *)
(* language of workflows.  A condition is None (no object at all) or a     *)
(* record with the operator and its operands.  A value of a payload is a   *)
(* number together with how it is written: amounts are sent as strings.    *)
(***************************************************************************)
EXTENDS Integers, Sequences

CONSTANT None

Value(type, n) == [type |-> type, n |-> n]

\* get(path): undefined, here None, where the payload has no such field.
Get(payload, path) ==
  IF path \in DOMAIN payload THEN payload[path] ELSE None

\* The operators "all", "any" and "not" nest; "==" and "!=" compare type and
\* value; ">" and "<" convert to a number, and no comparison with undefined
\* holds.  What is not a known operator holds.
RECURSIVE Evaluate(_, _)
Evaluate(c, payload) ==
  LET sub(i) == Evaluate(c.of[i], payload)
      value  == Get(payload, c.path)
  IN CASE c = None     -> TRUE
       [] c.op = "all" -> \A i \in DOMAIN c.of : sub(i)
       [] c.op = "any" -> \E i \in DOMAIN c.of : sub(i)
       [] c.op = "not" -> ~sub(1)
       [] c.op = "=="  -> value = c.value
       [] c.op = "!="  -> value # c.value
       [] c.op = ">"   -> value # None /\ value.n > c.value.n
       [] c.op = "<"   -> value # None /\ value.n < c.value.n
       [] c.op = "in"  -> \E i \in DOMAIN c.list : c.list[i] = value
       [] OTHER        -> TRUE

=============================================================================
