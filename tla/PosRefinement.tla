--------------------------- MODULE PosRefinement ---------------------------
(***************************************************************************)
(* The point of sale implements the order book PosBook.  The state of an   *)
(* order is read off the stored rows, the till's stock is recomputed from  *)
(* the moves it wrote (those users enter by hand are left out), an         *)
(* order is confirmed once a device received "ok" for it.                  *)
(***************************************************************************)
EXTENDS Pos

\* The state of an order is read off its stored row.
BookOf(u) ==
  IF \E o \in orders : o.uuid = u
  THEN (CHOOSE o \in orders : o.uuid = u).status
  ELSE "open"

\* How much of p the lines of order u take from w.
Taken(u, p, w) ==
  IF Order[u].warehouse # w THEN 0
  ELSE SumFunctionOnSet([k \in DOMAIN Order[u].lines |-> Order[u].lines[k].qty],
         {k \in DOMAIN Order[u].lines : Order[u].lines[k].product = p})

Book == INSTANCE PosBook WITH
  Takes     <- [u \in Uuids |-> [pw \in Products \X Warehouses |->
                  Taken(u, pw[1], pw[2])]],
  book      <- [u \in Uuids |-> BookOf(u)],
  stock     <- [pw \in Products \X Warehouses |-> Balance(TillMoves, pw[1], pw[2])],
  confirmed <- {u \in Uuids : Acked(u)}

\* Every step of the handlers, failures and crashes included, sells or refunds
\* one order, confirms orders that were sold, or changes nothing the book
\* shows: an order is sold and its stock taken in one step, never twice, never
\* unsold, and nobody is told of it before (pos.service.ts:66-188).
ImplementsBook == Book!Spec

=============================================================================
