------------------------------- MODULE MCPos -------------------------------
(* Small instances of the point of sale for TLC.                           *)
EXTENDS PosRefinement, TLC

CONSTANTS
  u1, u2,         \* orders
  t1,             \* a tenant
  p1,             \* a product
  w1, w2,         \* warehouses
  s1,             \* a till session
  r1, r2          \* requests

L(p, q) == [product |-> p, qty |-> q]

\* An order dated by the server, paid in full, without a session.
Rung(t, wh, lines) ==
  [tenant |-> t, warehouse |-> wh, session |-> None, year |-> None,
   lines |-> lines, sufficient |-> TRUE]

\* Two orders of one tenant, one with two lines of the same product.
TwoOrders ==
  u1 :> Rung(t1, w1, <<L(p1, 2), L(p1, 2)>>) @@ u2 :> Rung(t1, w1, <<L(p1, 1)>>)

\* An order of a session, and one that is not paid in full.
SessionOrders ==
  u1 :> [Rung(t1, w1, <<L(p1, 1), L(p1, 3)>>) EXCEPT !.session = s1]
    @@ u2 :> [Rung(t1, w1, <<L(p1, 1)>>) EXCEPT !.sufficient = FALSE]

\* An order of two lines of a product, and one sold without a warehouse.
BookOrders ==
  u1 :> Rung(t1, w1, <<L(p1, 2), L(p1, 1)>>)
    @@ u2 :> Rung(t1, None, <<L(p1, 1)>>)

\* Each order on its own; also both in one batch, and one twice in a batch.
Singles == {<<u>> : u \in Uuids}

SinglesAndBatches == Singles \union {<<u1, u2>>, <<u1, u1>>}

\* A batch that starts with an underpaid order.
UnderpaidFirst == {<<u2, u1>>}

\* The number the first order of the year gets.
ItsNumber == {[year |-> 1, seq |-> 1]}

\* Requests are only compared with one another.
RequestSymmetry == Permutations(Workers)

=============================================================================
