---------------------------- MODULE MCPayments ----------------------------
(* Small instances of Payments for TLC. *)
EXTENDS Payments, TLC

CONSTANTS i1, i2, p1, p2, p3

\* Two part payments of one invoice.
Halves == [p \in PaymentIds |-> <<[invoice |-> i1, amount |-> 2]>>]

\* p1 and p2 are allocated to both invoices in opposite orders, and p3 is an
\* advance, allocated to none.
Crossing ==
  (p1 :> <<[invoice |-> i1, amount |-> 1], [invoice |-> i2, amount |-> 3]>>)
    @@ (p2 :> <<[invoice |-> i2, amount |-> 1], [invoice |-> i1, amount |-> 3]>>)
    @@ (p3 :> <<>>)

\* The same invoice twice, and a payment of the rest.
Repeated ==
  (p1 :> <<[invoice |-> i1, amount |-> 1], [invoice |-> i1, amount |-> 1]>>)
    @@ (p2 :> <<[invoice |-> i1, amount |-> 2]>>)

Of4 == [i \in Invoices |-> 4]

NoneIsDue == [i \in Invoices |-> FALSE]

FirstIsDue == [i \in Invoices |-> i = i1]

=============================================================================
