-------------------------------- MODULE Pos --------------------------------
(***************************************************************************)
(* The point-of-sale service (modules/pos/pos.service.ts): devices submit  *)
(* orders, one by one or in batches, and retry what they got no answer     *)
(* for; the server looks the order up by its clientUuid, counts the orders *)
(* of the year to number it, and stores it with its stock moves in one     *)
(* transaction.                                                            *)
(*                                                                         *)
(* A worker is one request being handled; it gives up control at every     *)
(* await, so each await is an action of its own.  A transaction keeps its  *)
(* row and its moves to itself until it commits; an insert waits for the   *)
(* transaction that holds an equal unique key, an update for the one that  *)
(* holds the row, as PostgreSQL does at READ COMMITTED.                    *)
(***************************************************************************)
EXTENDS Inventory, Sequences

CONSTANTS
  Uuids,        \* clientUuid values, one per order rung up on a device
  Sessions,     \* ids of till sessions
  Workers,      \* requests handled at the same time (bound)
  Order,        \* what the device sends for a clientUuid, the same each time
  Batches,      \* the sequences of orders one request carries
  Headers,      \* may a request lack, or carry, the X-Tenant-Id header?
  FirstYear,    \* the year the system starts in
  LastYear,     \* the last year the clock reaches (bound)
  MaxRefunds,   \* how many refunds are asked for (bound)
  MaxFaults     \* how many crashes and failures happen (bound)

OrderLines == [product : Products, qty : Int]

OrderInputs ==
  [tenant     : Tenants,
   warehouse  : Nullable(Warehouses),
   session    : Nullable(Sessions),
   year       : Nat \union {None},    \* of input.date; None: not given
   lines      : Seq(OrderLines),
   sufficient : BOOLEAN]              \* the payments cover the total

Numbers == [year : Nat, seq : Nat \ {0}]

ASSUME PosAssumption ==
  /\ Order \in [Uuids -> OrderInputs]
  /\ Batches \subseteq Seq(Uuids) \ {<<>>}
  /\ Headers \subseteq BOOLEAN
  /\ HandRefs \subseteq Nullable(Numbers)
  /\ None \notin Nat
  /\ FirstYear \in Nat /\ LastYear \in Nat
  /\ MaxRefunds \in Nat /\ MaxFaults \in Nat

VARIABLES
  orders,     \* the rows of table PosOrder
  sessions,   \* the status of each till session, None before it is opened
  events,     \* the orders announced by pos.order.created
  year,       \* the server's calendar year
  pc,         \* per worker: the await it stands at
  todo,       \* per worker: the orders of the request still to be handled
  results,    \* per worker: the answers collected so far
  scoped,     \* per worker: does the request have a tenant context?
  yr,         \* per worker: the year the order is numbered in
  cnt,        \* per worker: the result of the count
  txid,       \* per worker: the uuid its transaction generated
  row,        \* per worker: the order row the transaction holds
  line,       \* per worker: how many stock moves the transaction wrote
  answers,    \* the answers devices received
  refunds,    \* how many refunds were asked for
  faults      \* how many failures happened

db     == <<orders, moves, sessions>>
locals == <<todo, results, scoped, yr, cnt, txid, row, line>>
world  == <<events, year, answers, refunds, faults>>
vars   == <<db, pc, locals, world>>

NoRow == None

Outcomes == {"ok", "insufficient", "uuid_taken", "number_taken",
             "no_session", "failed"}

Answers == [uuid : Uuids, order : Nullable(RowIds), outcome : Outcomes]

OrderRows ==
  [id : RowIds, uuid : Uuids, tenant : Tenants, number : Numbers,
   year : Nat, session : Nullable(Sessions), status : {"PAID", "REFUNDED"}]

\* Rows of StockMove; ref is the order number the reference names, if any.
MoveRows ==
  [id : RowIds, line : Nat, product : Products,
   from : Nullable(Warehouses), to : Nullable(Warehouses), qty : Int,
   reason : StockReasons, tenant : Tenants, ref : Nullable(Numbers),
   by : {"till", "user"}]

PosInit ==
  /\ InventoryInit
  /\ orders = {}
  /\ sessions = [s \in Sessions |-> None]
  /\ events = <<>>
  /\ year = FirstYear
  /\ pc = [w \in Workers |-> "idle"]
  /\ todo = [w \in Workers |-> <<>>]
  /\ results = [w \in Workers |-> {}]
  /\ scoped = [w \in Workers |-> FALSE]
  /\ yr = [w \in Workers |-> 0]
  /\ cnt = [w \in Workers |-> 0]
  /\ txid = [w \in Workers |-> None]
  /\ row = [w \in Workers |-> NoRow]
  /\ line = [w \in Workers |-> 0]
  /\ answers = {}
  /\ refunds = 0
  /\ faults = 0

-----------------------------------------------------------------------------
(* Reading the database.                                                   *)

Acked(u) == \E a \in answers : a.uuid = u /\ a.outcome = "ok"

\* The rows a query sees: the Prisma middleware adds the tenant of the request
\* context, if there is one, to every find and count.
Visible(t, sc) == {o \in orders : sc => o.tenant = t}

\* Mutant of Counted: gt instead of gte.
CountedAfter(t, sc, y) == {o \in Visible(t, sc) : o.year > y}

\* What the count of submitOrder counts: no upper bound on the date.
Counted(t, sc, y) == {o \in Visible(t, sc) : o.year >= y}

InTx(w) == pc[w] = "lines"

Lines(o) == Order[o.uuid].lines

\* Identifiers are uuids: a new one is in nobody's use.
UsedIds == {o.id : o \in orders} \union {m.id : m \in moves}
             \union {txid[w] : w \in Workers}

FreshId == CHOOSE id \in RowIds : id \notin UsedIds

HasFreshId == \E id \in RowIds : id \notin UsedIds

\* Mutant of NewRow: the number is the count itself.
NewRowNotNext(w, u) ==
  [id |-> FreshId, uuid |-> u, tenant |-> Order[u].tenant,
   number |-> [year |-> yr[w], seq |-> cnt[w]],
   year |-> IF Order[u].year = None THEN year ELSE Order[u].year,
   session |-> Order[u].session, status |-> "PAID"]

\* The order row worker w inserts for u.
NewRow(w, u) ==
  [id |-> FreshId, uuid |-> u, tenant |-> Order[u].tenant,
   number |-> [year |-> yr[w], seq |-> cnt[w] + 1],
   year |-> IF Order[u].year = None THEN year ELSE Order[u].year,
   session |-> Order[u].session, status |-> "PAID"]

\* Equal in columns the schema declares unique.
SameUuid(o1, o2) == o1.uuid = o2.uuid

SameNumber(o1, o2) == o1.tenant = o2.tenant /\ o1.number = o2.number

Clash(o1, o2) == SameUuid(o1, o2) \/ SameNumber(o1, o2)

\* The stock move for the k-th line of the order held by w's transaction.
LineMove(w, k) ==
  LET o == row[w]
      l == Lines(o)[k]
      sale == o.status = "PAID"
  IN [id |-> txid[w], line |-> k, product |-> l.product,
      from |-> IF sale THEN Order[o.uuid].warehouse ELSE None,
      to |-> None, qty |-> l.qty,
      reason |-> IF sale THEN "POS_SALE" ELSE "RETURN",
      tenant |-> o.tenant, ref |-> o.number, by |-> "till"]

-----------------------------------------------------------------------------
(* Handling a request.                                                     *)

\* The order of the request that w is working on.
Current(w) == Head(todo[w])

\* w is done with its current order: the answer joins the results of the
\* request, and syncBatch goes on with the next order.
Settle(w, order, outcome) ==
  /\ results' = [results EXCEPT ![w] = @ \union
       {[uuid |-> Current(w), order |-> order, outcome |-> outcome]}]
  /\ todo' = [todo EXCEPT ![w] = Tail(@)]
  /\ pc' = [pc EXCEPT ![w] = IF Tail(todo[w]) = <<>> THEN "respond"
                                                     ELSE "lookup"]
  /\ yr' = [yr EXCEPT ![w] = 0]
  /\ cnt' = [cnt EXCEPT ![w] = 0]

\* The transaction of w is over, committed or rolled back.
EndTx(w) ==
  /\ txid' = [txid EXCEPT ![w] = None]
  /\ row' = [row EXCEPT ![w] = NoRow]
  /\ line' = [line EXCEPT ![w] = 0]

\* A device sends orders it has no good answer for yet, as POST /pos/orders
\* (one order) or POST /pos/sync (several).  Earlier attempts may still run.
Submit(w, batch) ==
  /\ pc[w] = "idle"
  /\ \A i \in DOMAIN batch : ~Acked(batch[i])
  /\ todo' = [todo EXCEPT ![w] = batch]
  /\ results' = [results EXCEPT ![w] = {}]
  /\ \E h \in Headers : scoped' = [scoped EXCEPT ![w] = h]
  /\ pc' = [pc EXCEPT ![w] = "lookup"]
  /\ UNCHANGED <<db, yr, cnt, txid, row, line, world>>

\* Mutant of Stored: findFirst by tenant only.
StoredAny(w) == Visible(Order[Current(w)].tenant, scoped[w])

\* The rows the lookup by clientUuid finds.
Stored(w) ==
  {o \in Visible(Order[Current(w)].tenant, scoped[w]) : o.uuid = Current(w)}

\* Mutant of LookupFound: a retry announces the order again.
LookupFoundEmits(w) ==
  /\ pc[w] = "lookup"
  /\ \E o \in Stored(w) : /\ Settle(w, o.id, "ok")
                          /\ events' = Append(events, o.id)
  /\ UNCHANGED <<db, scoped, txid, row, line, year, answers, refunds, faults>>

\* The order is there already: it is the answer.
LookupFound(w) ==
  /\ pc[w] = "lookup"
  /\ \E o \in Stored(w) : Settle(w, o.id, "ok")
  /\ UNCHANGED <<db, scoped, txid, row, line, world>>

RejectUnderpaid(w) ==
  /\ pc[w] = "lookup"
  /\ Stored(w) = {}
  /\ ~Order[Current(w)].sufficient
  /\ Settle(w, None, "insufficient")
  /\ UNCHANGED <<db, scoped, txid, row, line, world>>

\* The year of the number is read before the count is sent.
LookupMiss(w) ==
  /\ pc[w] = "lookup"
  /\ Stored(w) = {}
  /\ Order[Current(w)].sufficient
  /\ yr' = [yr EXCEPT ![w] = year]
  /\ pc' = [pc EXCEPT ![w] = "count"]
  /\ UNCHANGED <<db, todo, results, scoped, cnt, txid, row, line, world>>

Count(w) ==
  /\ pc[w] = "count"
  /\ cnt' = [cnt EXCEPT ![w] = Cardinality(
               Counted(Order[Current(w)].tenant, scoped[w], yr[w]))]
  /\ pc' = [pc EXCEPT ![w] = "insert"]
  /\ UNCHANGED <<db, todo, results, scoped, yr, txid, row, line, world>>

\* No open transaction holds a unique key of o.
KeysFree(w, o) == \A v \in Workers \ {w} : InTx(v) => ~Clash(row[v], o)

\* The insert opens the transaction; its date is read now.
Insert(w) ==
  LET o == NewRow(w, Current(w)) IN
  /\ pc[w] = "insert"
  /\ HasFreshId
  /\ KeysFree(w, o)
  /\ \A p \in orders : ~Clash(p, o)
  /\ o.session # None => sessions[o.session] # None
  /\ txid' = [txid EXCEPT ![w] = o.id]
  /\ row' = [row EXCEPT ![w] = o]
  /\ pc' = [pc EXCEPT ![w] = "lines"]
  /\ UNCHANGED <<db, todo, results, scoped, yr, cnt, line, world>>

\* A unique index refuses the insert (P2002).
InsertDuplicate(w) ==
  LET o == NewRow(w, Current(w)) IN
  /\ pc[w] = "insert"
  /\ KeysFree(w, o)
  /\ \/ \E p \in orders : SameUuid(p, o) /\ Settle(w, None, "uuid_taken")
     \/ \E p \in orders : SameNumber(p, o) /\ Settle(w, None, "number_taken")
  /\ UNCHANGED <<db, scoped, txid, row, line, world>>

\* The session does not exist (P2003).
InsertNoSession(w) ==
  LET o == NewRow(w, Current(w)) IN
  /\ pc[w] = "insert"
  /\ KeysFree(w, o)
  /\ \A p \in orders : ~Clash(p, o)
  /\ o.session # None /\ sessions[o.session] = None
  /\ Settle(w, None, "no_session")
  /\ UNCHANGED <<db, scoped, txid, row, line, world>>

\* Mutant of WriteLine: the move is written with this.prisma, not with tx.
WriteLineOutsideTx(w) ==
  /\ InTx(w)
  /\ line[w] < Len(Lines(row[w]))
  /\ line' = [line EXCEPT ![w] = @ + 1]
  /\ moves' = moves \union {LineMove(w, line[w] + 1)}
  /\ UNCHANGED <<orders, sessions, pc, todo, results, scoped, yr, cnt, txid,
                 row, world>>

\* One stock move of the loop over the lines, in the transaction.
WriteLine(w) ==
  /\ InTx(w)
  /\ line[w] < Len(Lines(row[w]))
  /\ line' = [line EXCEPT ![w] = @ + 1]
  /\ UNCHANGED <<db, pc, todo, results, scoped, yr, cnt, txid, row, world>>

\* The row and the moves of the transaction become visible together.
Publish(w) ==
  /\ InTx(w)
  /\ line[w] = Len(Lines(row[w]))
  /\ orders' = {o \in orders : o.id # row[w].id} \union {row[w]}
  /\ moves' = moves \union {LineMove(w, k) : k \in 1..line[w]}

CommitSale(w) ==
  /\ Publish(w)
  /\ todo[w] # <<>>
  /\ pc' = [pc EXCEPT ![w] = "emit"]
  /\ UNCHANGED <<sessions, locals, world>>

\* pos.order.created is emitted, and the order is the answer.
Emit(w) ==
  /\ pc[w] = "emit"
  /\ events' = Append(events, row[w].id)
  /\ Settle(w, row[w].id, "ok")
  /\ EndTx(w)
  /\ UNCHANGED <<db, scoped, year, answers, refunds, faults>>

Respond(w) ==
  /\ pc[w] = "respond"
  /\ answers' = answers \union results[w]
  /\ pc' = [pc EXCEPT ![w] = "idle"]
  /\ results' = [results EXCEPT ![w] = {}]
  /\ scoped' = [scoped EXCEPT ![w] = FALSE]
  /\ UNCHANGED <<db, todo, yr, cnt, txid, row, line, events, year,
                 refunds, faults>>

-----------------------------------------------------------------------------
(* Refunds: refund(orderId), of any order the till can list.               *)

\* The order is read outside the transaction; its status is not looked at.
StartRefund(w) ==
  /\ pc[w] = "idle"
  /\ refunds < MaxRefunds
  /\ \E o \in orders : row' = [row EXCEPT ![w] = o]
  /\ refunds' = refunds + 1
  /\ pc' = [pc EXCEPT ![w] = "update"]
  /\ UNCHANGED <<db, todo, results, scoped, yr, cnt, txid, line, events,
                 year, answers, faults>>

Refunded(o) == [o EXCEPT !.status = "REFUNDED"]

\* The update waits for another refund of the same order to end.
MarkRefunded(w) ==
  /\ pc[w] = "update"
  /\ HasFreshId
  /\ \A v \in Workers \ {w} : InTx(v) => row[v].id # row[w].id
  /\ \E o \in orders : /\ o.id = row[w].id
                       /\ row' = [row EXCEPT ![w] = Refunded(o)]
  /\ txid' = [txid EXCEPT ![w] = FreshId]
  /\ pc' = [pc EXCEPT ![w] = "lines"]
  /\ UNCHANGED <<db, todo, results, scoped, yr, cnt, line, world>>

CommitRefund(w) ==
  /\ Publish(w)
  /\ todo[w] = <<>>
  /\ EndTx(w)
  /\ pc' = [pc EXCEPT ![w] = "idle"]
  /\ UNCHANGED <<sessions, todo, results, scoped, yr, cnt, world>>

-----------------------------------------------------------------------------
(* Failures.                                                               *)

Fault == faults < MaxFaults /\ faults' = faults + 1

\* What a failing await leads to: submitOrder throws, and the order is
\* answered with the error; a refund ends.
Throw(w) ==
  \/ todo[w] # <<>> /\ Settle(w, None, "failed")
  \/ /\ todo[w] = <<>>
     /\ pc' = [pc EXCEPT ![w] = "idle"]
     /\ UNCHANGED <<todo, results, yr, cnt>>

\* A query fails or the transaction times out: it is rolled back.
Fail(w) ==
  /\ Fault
  /\ pc[w] \in {"lookup", "count", "insert", "update", "lines"}
  /\ Throw(w)
  /\ EndTx(w)
  /\ UNCHANGED <<db, scoped, events, year, answers, refunds>>

\* The database commits and the connection drops before it says so.
CommitUnconfirmed(w) ==
  /\ Fault
  /\ Publish(w)
  /\ Throw(w)
  /\ EndTx(w)
  /\ UNCHANGED <<sessions, scoped, events, year, answers, refunds>>

\* The answer does not reach the device.
LoseResponse(w) ==
  /\ Fault
  /\ pc[w] = "respond"
  /\ pc' = [pc EXCEPT ![w] = "idle"]
  /\ results' = [results EXCEPT ![w] = {}]
  /\ scoped' = [scoped EXCEPT ![w] = FALSE]
  /\ UNCHANGED <<db, todo, yr, cnt, txid, row, line, events, year,
                 answers, refunds>>

\* The server process dies: every request and open transaction is gone.
Crash ==
  /\ Fault
  /\ \E w \in Workers : pc[w] # "idle"
  /\ pc' = [w \in Workers |-> "idle"]
  /\ todo' = [w \in Workers |-> <<>>]
  /\ results' = [w \in Workers |-> {}]
  /\ txid' = [w \in Workers |-> None]
  /\ row' = [w \in Workers |-> NoRow]
  /\ line' = [w \in Workers |-> 0]
  /\ scoped' = [w \in Workers |-> FALSE]
  /\ yr' = [w \in Workers |-> 0]
  /\ cnt' = [w \in Workers |-> 0]
  /\ UNCHANGED <<db, events, year, answers, refunds>>

-----------------------------------------------------------------------------
(* Till sessions, the clock and the inventory's own moves.                 *)

OpenSession(s) ==
  /\ sessions[s] = None
  /\ sessions' = [sessions EXCEPT ![s] = "OPEN"]
  /\ UNCHANGED <<orders, moves, pc, locals, world>>

\* closeSession looks at neither the status nor the orders still to come.
CloseSession(s) ==
  /\ sessions[s] # None
  /\ sessions' = [sessions EXCEPT ![s] = "CLOSED"]
  /\ UNCHANGED <<orders, moves, pc, locals, world>>

NewYear ==
  /\ year < LastYear
  /\ year' = year + 1
  /\ UNCHANGED <<db, pc, locals, events, answers, refunds, faults>>

StockMove ==
  /\ HasFreshId
  /\ ManualMove(FreshId)
  /\ UNCHANGED <<orders, sessions, pc, locals, world>>

-----------------------------------------------------------------------------
\* What a worker does on its own once a request has arrived.
Step(w) ==
  \/ LookupFound(w) \/ RejectUnderpaid(w) \/ LookupMiss(w) \/ Count(w)
  \/ Insert(w) \/ InsertDuplicate(w) \/ InsertNoSession(w) \/ WriteLine(w)
  \/ CommitSale(w) \/ Emit(w) \/ Respond(w)
  \/ MarkRefunded(w) \/ CommitRefund(w)

Failure(w) == Fail(w) \/ CommitUnconfirmed(w) \/ LoseResponse(w)

PosNext ==
  \/ \E w \in Workers : Step(w) \/ Failure(w) \/ StartRefund(w)
  \/ \E w \in Workers, batch \in Batches : Submit(w, batch)
  \/ Crash
  \/ \E s \in Sessions : OpenSession(s) \/ CloseSession(s)
  \/ NewYear
  \/ StockMove

PosSpec == PosInit /\ [][PosNext]_vars

\* Handlers run to their end, a device goes on retrying what it has no good
\* answer for whenever the server takes a request, and tills get opened.
PosFairness ==
  /\ \A w \in Workers : WF_vars(Step(w))
  /\ \A batch \in Batches : SF_vars(\E w \in Workers : Submit(w, batch))
  /\ \A s \in Sessions : WF_vars(OpenSession(s))

FairPosSpec == PosSpec /\ PosFairness

-----------------------------------------------------------------------------
DbTypeOK ==
  /\ orders \subseteq OrderRows /\ IsFiniteSet(orders)
  /\ moves \subseteq MoveRows /\ IsFiniteSet(moves)
  /\ sessions \in [Sessions -> {None, "OPEN", "CLOSED"}]
  /\ events \in Seq(RowIds)
  /\ year \in Nat
  /\ answers \subseteq Answers
  /\ refunds \in Nat
  /\ faults \in Nat

Awaits == {"idle", "lookup", "count", "insert", "lines", "emit", "respond",
           "update"}

LocalTypeOK ==
  /\ pc \in [Workers -> Awaits]
  /\ todo \in [Workers -> Seq(Uuids)]
  /\ results \in [Workers -> SUBSET Answers]
  /\ scoped \in [Workers -> BOOLEAN]
  /\ yr \in [Workers -> Nat]
  /\ cnt \in [Workers -> Nat]
  /\ txid \in [Workers -> Nullable(RowIds)]
  /\ row \in [Workers -> Nullable(OrderRows)]
  /\ line \in [Workers -> Nat]

WorkerOK(w) ==
  /\ pc[w] \in {"lookup", "count", "insert", "emit"} => todo[w] # <<>>
  /\ pc[w] \in {"idle", "respond", "update"} => todo[w] = <<>>
  /\ pc[w] \in {"lines", "emit", "update"} => row[w] \in OrderRows
  /\ pc[w] \in {"lines", "emit"} => txid[w] \in RowIds
  /\ pc[w] = "lines" => line[w] <= Len(Lines(row[w]))
  /\ pc[w] \notin {"lines", "emit"} => line[w] = 0

\* Types of all variables; and what a worker needs is there when it needs it:
\* an order to work on, a row and an id in a transaction, a line to write.
PosTypeOK == DbTypeOK /\ LocalTypeOK /\ \A w \in Workers : WorkerOK(w)

\* Idempotent creation (pos.service.ts:5): however attempts at the same order
\* overlap, fail or are repeated, one clientUuid never gets two orders.
OneOrderPerUuid ==
  \A o1, o2 \in orders : o1.uuid = o2.uuid => o1 = o2

\* Two orders of a tenant never share a number, although concurrent requests
\* count the same orders and compute the same number.
NumbersUnique ==
  \A o1, o2 \in orders : SameNumber(o1, o2) => o1 = o2

MovesOf(o, reason) ==
  {m \in TillMoves : /\ m.reason = reason
                     /\ m.tenant = o.tenant /\ m.ref = o.number}

\* Automatic stock deduction (pos.service.ts:9): the till wrote exactly one
\* POS_SALE move per line of each order, with the quantity, product and
\* warehouse of that line, and none without its order, whatever transaction
\* was rolled back, cut off or repeated and whatever moves users entered under
\* the same reason and reference.
SaleMovesMatchOrders ==
  /\ \A o \in orders :
       /\ \A k \in DOMAIN Lines(o) :
            \E m \in MovesOf(o, "POS_SALE") :
              /\ m.product = Lines(o)[k].product
              /\ m.qty = Lines(o)[k].qty
              /\ m.from = Order[o.uuid].warehouse
              /\ \A n \in MovesOf(o, "POS_SALE") : n.line = k <=> n = m
       /\ \A m \in MovesOf(o, "POS_SALE") : m.line \in DOMAIN Lines(o)
  /\ \A m \in TillMoves : m.reason = "POS_SALE" =>
       \E o \in orders : m \in MovesOf(o, "POS_SALE")

\* Every transaction of the till that returned goods of an order returned each
\* of its lines, and an order is REFUNDED exactly when some transaction did;
\* a RETURN move that a user enters refunds nothing.
RefundsAreWhole ==
  /\ \A o \in orders : Lines(o) # <<>> =>
       (o.status = "REFUNDED" <=> MovesOf(o, "RETURN") # {})
  /\ \A o \in orders : \A m \in MovesOf(o, "RETURN") :
       {n.line : n \in {r \in MovesOf(o, "RETURN") : r.id = m.id}}
         = DOMAIN Lines(o)

\* A device told "ok" holds the id of the one stored order of its clientUuid:
\* all good answers to retries of an order are the same, and none is given
\* for an order that was rolled back.
OkIsTheStoredOrder ==
  \A a \in answers : a.outcome = "ok" =>
    \E o \in orders : o.id = a.order /\ o.uuid = a.uuid

\* The workflow engine hears of an order only after it is stored and never
\* twice, although a crash may swallow the event (pos.service.ts:140).
EventsOncePerOrder ==
  /\ \A i \in DOMAIN events : \E o \in orders : o.id = events[i]
  /\ \A i, j \in DOMAIN events : events[i] = events[j] => i = j

\* Where all requests carry the tenant header and no order is backdated, the
\* number the next request would compute for a tenant is free: an order alone
\* is never refused for its number (pos.service.ts:90-91).
NextNumberFree ==
  \A o \in orders, sc \in Headers :
    o.number.year = year =>
      o.number.seq # Cardinality(Counted(o.tenant, sc, year)) + 1

\* Orders that can be stored: paid in full, on a session that can exist.
Acceptable(u) == Order[u].sufficient

\* A device that keeps retrying an order is eventually told "ok", whatever
\* was lost or collided on the way (pos.service.ts:5-6).
RetriesSucceed == \A u \in Uuids : Acceptable(u) => <>Acked(u)

=============================================================================
