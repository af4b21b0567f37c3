---------------------------- MODULE MCInvoicing ----------------------------
(* Small instances of invoicing and the ledger for TLC.                    *)
EXTENDS Invoicing, TLC

CONSTANTS d1, d2, d3, d4, e1, e2, e3, i1, i2, i3, w1, w2

Row(type) == [type |-> type, own |-> TRUE]

\* The chart of accounts; the account for rent is still to be created.
Chart ==
  "cash" :> Row("ASSET") @@ "receivable" :> Row("ASSET")
    @@ "tax" :> Row("LIABILITY") @@ "capital" :> Row("EQUITY")
    @@ "sales" :> Row("INCOME") @@ "rent" :> None

\* An account of expenses, and one given to another tenant.
EditedRows == {Row("EXPENSE"), [type |-> "ASSET", own |-> FALSE]}

Line(d, c, x) == [debit |-> d, credit |-> c, amount |-> x]

\* With two units to a stored place: rent paid from cash; capital paid in two
\* halves of which each is rounded; a transfer on one line; a correction with
\* a negative line.
Written ==
  { <<Line("rent", None, 4), Line(None, "cash", 4)>>,
    <<Line("cash", None, 3), Line("cash", None, 3), Line(None, "capital", 6)>>,
    <<Line("cash", "receivable", 2), Line(None, None, 5)>>,
    <<Line("rent", None, 6), Line("rent", None, -1), Line(None, "cash", 5)>>,
    <<Line("cash", None, 5), Line(None, "capital", 1)>>,
    <<Line("cash", "receivable", 2)>> }

Bill(t, back, lines) == [type |-> t, backdated |-> back, lines |-> lines]

\* A sale whose rounded totals do not add up, one whose tax is negative and
\* hidden by rounding, a sale of last year so small that rounding hides its
\* tax, and a debit note, whose numbers collide with those of the sales.
FourDrafts ==
  d1 :> Bill("SALE", FALSE,
             <<[subtotal |-> 4, tax |-> 1], [subtotal |-> 3, tax |-> 2]>>)
    @@ d2 :> Bill("SALE", FALSE, <<[subtotal |-> 4, tax |-> -1]>>)
    @@ d3 :> Bill("SALE", TRUE, <<[subtotal |-> 1, tax |-> 1]>>)
    @@ d4 :> Bill("DEBIT_NOTE", FALSE, <<[subtotal |-> 2, tax |-> 2]>>)

\* With and without an account for the tax.
BothPostings ==
  { [receivable |-> "receivable", revenue |-> "sales", tax |-> "tax"],
    [receivable |-> "receivable", revenue |-> "sales", tax |-> None] }

\* Ids and workers are only compared with one another.
IdSymmetry == Permutations({e1, e2, e3}) \union Permutations({i1, i2, i3})
                \union Permutations({w1, w2})

=============================================================================
