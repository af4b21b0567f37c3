----------------------------- MODULE Inventory -----------------------------
(***************************************************************************)
(* The stock ledger of the inventory service                               *)
(* (modules/inventory/inventory.service.ts).  Stock is never stored: the   *)
(* table StockMove is an append-only set of rows and the quantity on hand  *)
(* is recomputed from the rows every time it is asked for.                 *)
(*                                                                         *)
(* A row leaves one warehouse (from), or none, and enters one (to), or     *)
(* none.  The identifier of a row is the transaction that wrote it and its *)
(* position in that transaction.                                           *)
(***************************************************************************)
EXTENDS Integers, FiniteSets, Functions

CONSTANTS
  Products,      \* products with stock
  Warehouses,    \* warehouses
  None,          \* the null of an optional column
  Tenants,
  RowIds,        \* fresh uuids the database may hand out (bound)
  HandReasons,   \* the reasons users give (bound)
  HandRefs,      \* the references users give (bound)
  HandQty,       \* the quantities users give (bound)
  MaxManual      \* how many moves users enter (bound)

StockReasons == {"PURCHASE", "SALE", "ADJUSTMENT", "TRANSFER", "PRODUCTION",
                 "CONSUMPTION", "RETURN", "POS_SALE"}

ASSUME InventoryAssumption ==
  /\ None \notin Warehouses /\ IsFiniteSet(Warehouses)
  /\ None \notin RowIds
  /\ HandReasons \subseteq StockReasons /\ HandQty \subseteq Int
  /\ MaxManual \in Nat

VARIABLE moves   \* the rows of table StockMove

Nullable(S) == S \union {None}

InventoryInit == moves = {}

-----------------------------------------------------------------------------
(* Reading: onHand(productId, warehouseId?).                               *)

Quantity(S) == SumFunction([m \in S |-> m.qty])

\* onHand with a warehouse: what entered it minus what left it.
Balance(S, p, w) ==
  Quantity({m \in S : m.product = p /\ m.to = w})
    - Quantity({m \in S : m.product = p /\ m.from = w})

OnHandIn(p, w) == Balance(moves, p, w)

\* Mutant of OnHand: a row with an origin does not count in, so that the goods
\* of a transfer are lost.
OnHandOfReceipts(p) ==
  Quantity({m \in moves : m.product = p /\ m.to # None /\ m.from = None})
    - Quantity({m \in moves : m.product = p /\ m.from # None})

\* onHand without a warehouse: every row with a destination counts in, every
\* row with an origin counts out.
OnHand(p) ==
  Quantity({m \in moves : m.product = p /\ m.to # None})
    - Quantity({m \in moves : m.product = p /\ m.from # None})

-----------------------------------------------------------------------------
(* Writing: move(input), one insert without any check of the origin's      *)
(* stock.                                                                  *)

\* Who wrote a row is history the table does not keep (field by): nothing in
\* a row tells a sale of the till from one a user entered.
TillMoves == {m \in moves : m.by = "till"}

ManualMoves == {m \in moves : m.by = "user"}

\* A user records a move, with any reason, the till's own among them, any
\* reference, an order's number among them, and any quantity.
ManualMove(id) ==
  /\ Cardinality(ManualMoves) < MaxManual
  /\ \E p \in Products, from, to \in Nullable(Warehouses), q \in HandQty,
        r \in HandReasons, t \in Tenants, ref \in HandRefs :
       moves' = moves \union
         {[id |-> id, line |-> 1, product |-> p, from |-> from, to |-> to,
           qty |-> q, reason |-> r, tenant |-> t, ref |-> ref, by |-> "user"]}

-----------------------------------------------------------------------------
(* The total a product shows without a warehouse filter is the sum of what  *)
(* each warehouse shows: a transfer, even one from a warehouse to itself,   *)
(* cancels out, and a row without origin or destination counts once (the    *)
(* two branches of inventory.service.ts:21-22 agree).                       *)
TotalIsSumOfWarehouses ==
  \A p \in Products :
    OnHand(p) = SumFunction([w \in Warehouses |-> OnHandIn(p, w)])

=============================================================================
