------------------------------ MODULE PosBook ------------------------------
(***************************************************************************)
(* What the point of sale promises about orders and goods: an order is     *)
(* sold once, and taking its goods out of stock is part of that one        *)
(* indivisible step; it may be refunded, again and again, is never unsold, *)
(* and a refund does not undo the stock; and nobody is told of a sale      *)
(* before it happened.                                                     *)
(*                                                                         *)
(* Nothing is said here of requests, retries, transactions or failures:    *)
(* Pos implements this book with them (module PosRefinement).              *)
(***************************************************************************)
EXTENDS Integers

CONSTANTS
  Uuids,         \* the orders
  Products,
  Warehouses,
  Takes          \* Takes[u][p, w]: how much of p order u takes from w

VARIABLES
  book,          \* the state of each order
  stock,         \* the stock of each product in each warehouse
  confirmed      \* the orders whose sale some device was told of

Init ==
  /\ book = [u \in Uuids |-> "open"]
  /\ stock = [pw \in Products \X Warehouses |-> 0]
  /\ confirmed = {}

Sell(u) ==
  /\ book[u] = "open"
  /\ book' = [book EXCEPT ![u] = "PAID"]
  /\ stock' = [pw \in Products \X Warehouses |-> stock[pw] - Takes[u][pw]]
  /\ UNCHANGED confirmed

\* A refund can be asked for again.
Refund(u) ==
  /\ book[u] \in {"PAID", "REFUNDED"}
  /\ book' = [book EXCEPT ![u] = "REFUNDED"]
  /\ UNCHANGED <<stock, confirmed>>

\* One answer may confirm several orders.
Confirm(U) ==
  /\ \A u \in U : book[u] # "open"
  /\ confirmed' = confirmed \union U
  /\ UNCHANGED <<book, stock>>

Next ==
  \/ \E u \in Uuids : Sell(u) \/ Refund(u)
  \/ \E U \in SUBSET Uuids : Confirm(U)

Spec == Init /\ [][Next]_<<book, stock, confirmed>>

=============================================================================
