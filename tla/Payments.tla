------------------------------ MODULE Payments ------------------------------
(***************************************************************************)
(* Recording a payment and allocating it to invoices                       *)
(* (modules/payments/payments.service.ts with recomputeStatus of           *)
(* modules/invoicing/invoicing.service.ts).                                *)
(*                                                                         *)
(* A payment is one interactive transaction: it inserts the payment, and   *)
(* for each allocation increments amountPaid of the invoice, which locks   *)
(* the invoice until the transaction ends.  The status of the invoice is   *)
(* then recomputed through this.prisma, that is on another connection of   *)
(* the pool and outside the transaction: it reads what is committed, and   *)
(* its update waits for the lock the transaction itself holds, until the   *)
(* transaction expires.  The callback of an expired transaction runs on to *)
(* its next statement in the transaction, which fails.                     *)
(***************************************************************************)
EXTENDS Integers, Sequences, FiniteSets, Functions

CONSTANTS
  Invoices,
  PaymentIds,   \* the payments users enter
  Allocations,  \* of a payment: a sequence of [invoice, amount]
  Total,        \* of an invoice, in ten-thousandths
  HasDueDate,   \* of an invoice
  Workers,      \* requests handled at the same time (bound)
  PoolSize,     \* connections of the Prisma pool
  MaxFaults,    \* how many failures happen (bound)
  None

AllocationInputs == [invoice : Invoices, amount : Nat \ {0}]

ASSUME PaymentsAssumption ==
  /\ Allocations \in [PaymentIds -> Seq(AllocationInputs)]
  /\ IsFiniteSet(PaymentIds)
  /\ Total \in [Invoices -> Nat]
  /\ HasDueDate \in [Invoices -> BOOLEAN]
  /\ PoolSize \in Nat \ {0}
  /\ MaxFaults \in Nat
  /\ None \notin Nat /\ None \notin PaymentIds

VARIABLES
  amountPaid,  \* of an invoice, as committed
  status,      \* of an invoice, as committed
  pastDue,     \* has the due date of an invoice passed?
  recorded,    \* of a payment: how many times it was stored
  accepted,    \* payments users saw accepted
  refused,     \* payments users saw fail
  pc,          \* per worker: the await it stands at
  payment,     \* per worker: the payment it records
  next,        \* per worker: the allocation it is at
  open,        \* per worker: is its transaction open?
  version,     \* per worker: amountPaid its transaction wrote to an invoice
  newStatus,   \* per worker: the status its recomputation came to
  faults

db     == <<amountPaid, status, recorded>>
locals == <<payment, next, open, version, newStatus>>
vars   == <<db, pastDue, accepted, refused, pc, locals, faults>>

Statuses == {"OPEN", "PARTIAL", "PAID", "OVERDUE"}

NoVersion == [i \in Invoices |-> None]

Init ==
  /\ amountPaid = [i \in Invoices |-> 0]
  /\ status = [i \in Invoices |-> "OPEN"]
  /\ pastDue = [i \in Invoices |-> FALSE]
  /\ recorded = [p \in PaymentIds |-> 0]
  /\ accepted = {}
  /\ refused = {}
  /\ pc = [w \in Workers |-> "idle"]
  /\ payment = [w \in Workers |-> None]
  /\ next = [w \in Workers |-> 1]
  /\ open = [w \in Workers |-> FALSE]
  /\ version = [w \in Workers |-> NoVersion]
  /\ newStatus = [w \in Workers |-> "OPEN"]
  /\ faults = 0

-----------------------------------------------------------------------------
(* Connections and row locks.                                              *)

\* A transaction holds a connection, and so does a status update under way.
UsedConnections ==
  Cardinality({w \in Workers : open[w]})
    + Cardinality({w \in Workers : pc[w] = "update"})

ConnectionFree == UsedConnections < PoolSize

\* The transaction of v wrote to invoice i, and holds its row.
Locks(v, i) == version[v][i] # None

Allocation(w) == Allocations[payment[w]][next[w]]

Invoice(w) == Allocation(w).invoice

LockedByOther(w) == \E v \in Workers \ {w} : Locks(v, Invoice(w))

LockedByAny(w) == \E v \in Workers : Locks(v, Invoice(w))

\* The await of w cannot come back by itself.
Blocked(w) ==
  \/ pc[w] = "increment" /\ LockedByOther(w)
  \/ pc[w] \in {"recompute", "send"} /\ ~ConnectionFree
  \/ pc[w] = "update" /\ LockedByAny(w)

-----------------------------------------------------------------------------
(* recomputeStatus.                                                        *)

StatusFor(paid, i) ==
  IF paid >= Total[i] /\ Total[i] > 0 THEN "PAID"
  ELSE IF paid > 0 THEN "PARTIAL"
  ELSE IF HasDueDate[i] /\ pastDue[i] THEN "OVERDUE" ELSE "OPEN"

\* Mutant of StatusOf: it also reads what a transaction has not committed.
StatusOfUncommitted(i) ==
  StatusFor(IF \E v \in Workers : Locks(v, i)
            THEN version[CHOOSE v \in Workers : Locks(v, i)][i]
            ELSE amountPaid[i], i)

\* Read outside the transaction: what is committed.
StatusOf(i) == StatusFor(amountPaid[i], i)

\* Mutant of Proceed: off by one.
ProceedPastEnd(w) ==
  /\ next' = [next EXCEPT ![w] = @ + 1]
  /\ pc' = [pc EXCEPT ![w] = IF next[w] <= Len(Allocations[payment[w]])
                             THEN "increment" ELSE "commit"]

\* w goes on to the next allocation, or to the commit.
Proceed(w) ==
  /\ next' = [next EXCEPT ![w] = @ + 1]
  /\ pc' = [pc EXCEPT ![w] = IF next[w] < Len(Allocations[payment[w]])
                             THEN "increment" ELSE "commit"]

Recompute(w) ==
  /\ pc[w] = "recompute"
  /\ ConnectionFree
  /\ StatusOf(Invoice(w)) = status[Invoice(w)]
  /\ Proceed(w)
  /\ UNCHANGED <<db, pastDue, accepted, refused, payment, open, version,
                 newStatus, faults>>

\* Mutant of RecomputeDiffers: the new status is not written.
RecomputeForgets(w) ==
  /\ pc[w] = "recompute"
  /\ ConnectionFree
  /\ StatusOf(Invoice(w)) # status[Invoice(w)]
  /\ Proceed(w)
  /\ UNCHANGED <<db, pastDue, accepted, refused, payment, open, version,
                 newStatus, faults>>

RecomputeDiffers(w) ==
  /\ pc[w] = "recompute"
  /\ ConnectionFree
  /\ StatusOf(Invoice(w)) # status[Invoice(w)]
  /\ newStatus' = [newStatus EXCEPT ![w] = StatusOf(Invoice(w))]
  /\ pc' = [pc EXCEPT ![w] = "send"]
  /\ UNCHANGED <<db, pastDue, accepted, refused, payment, next, open, version,
                 faults>>

\* The update takes a connection of its own.
SendUpdate(w) ==
  /\ pc[w] = "send"
  /\ ConnectionFree
  /\ pc' = [pc EXCEPT ![w] = "update"]
  /\ UNCHANGED <<db, pastDue, accepted, refused, locals, faults>>

\* It goes through once no transaction holds the invoice, and writes what was
\* computed before it began to wait.
UpdateStatus(w) ==
  /\ pc[w] = "update"
  /\ ~LockedByAny(w)
  /\ status' = [status EXCEPT ![Invoice(w)] = newStatus[w]]
  /\ Proceed(w)
  /\ UNCHANGED <<amountPaid, recorded, pastDue, accepted, refused, payment,
                 open, version, newStatus, faults>>

-----------------------------------------------------------------------------
(* create.                                                                 *)

\* The handler is over.
Leave(w) ==
  /\ pc' = [pc EXCEPT ![w] = "idle"]
  /\ payment' = [payment EXCEPT ![w] = None]
  /\ next' = [next EXCEPT ![w] = 1]
  /\ open' = [open EXCEPT ![w] = FALSE]
  /\ version' = [version EXCEPT ![w] = NoVersion]
  /\ newStatus' = [newStatus EXCEPT ![w] = "OPEN"]

\* A user enters a payment, and enters it again as long as it was refused.
Receive(w, p) ==
  /\ pc[w] = "idle"
  /\ p \notin accepted
  /\ \A v \in Workers : payment[v] # p
  /\ payment' = [payment EXCEPT ![w] = p]
  /\ pc' = [pc EXCEPT ![w] = "begin"]
  /\ UNCHANGED <<db, pastDue, accepted, refused, next, open, version,
                 newStatus, faults>>

Begin(w) ==
  /\ pc[w] = "begin"
  /\ ConnectionFree
  /\ open' = [open EXCEPT ![w] = TRUE]
  /\ pc' = [pc EXCEPT ![w] = IF Allocations[payment[w]] = <<>>
                             THEN "commit" ELSE "increment"]
  /\ UNCHANGED <<db, pastDue, accepted, refused, payment, next, version,
                 newStatus, faults>>

\* No connection within maxWait.
BeginTimesOut(w) ==
  /\ pc[w] = "begin"
  /\ ~ConnectionFree
  /\ refused' = refused \union {payment[w]}
  /\ Leave(w)
  /\ UNCHANGED <<db, pastDue, accepted, faults>>

\* Mutant of Increment: it does not wait for the row.
IncrementUnlocked(w) ==
  /\ pc[w] = "increment" /\ open[w]
  /\ LET i == Invoice(w)
         paid == IF Locks(w, i) THEN version[w][i] ELSE amountPaid[i]
     IN version' = [version EXCEPT ![w][i] = paid + Allocation(w).amount]
  /\ pc' = [pc EXCEPT ![w] = "recompute"]
  /\ UNCHANGED <<db, pastDue, accepted, refused, payment, next, open,
                 newStatus, faults>>

\* The allocation row and the increment: the new amountPaid stays with the
\* transaction, the row is locked.
Increment(w) ==
  /\ pc[w] = "increment" /\ open[w]
  /\ ~LockedByOther(w)
  /\ LET i == Invoice(w)
         paid == IF Locks(w, i) THEN version[w][i] ELSE amountPaid[i]
     IN version' = [version EXCEPT ![w][i] = paid + Allocation(w).amount]
  /\ pc' = [pc EXCEPT ![w] = "recompute"]
  /\ UNCHANGED <<db, pastDue, accepted, refused, payment, next, open,
                 newStatus, faults>>

Committed(w) ==
  /\ pc[w] = "commit" /\ open[w]
  /\ amountPaid' = [i \in Invoices |-> IF Locks(w, i) THEN version[w][i]
                                                      ELSE amountPaid[i]]
  /\ recorded' = [recorded EXCEPT ![payment[w]] = @ + 1]

Commit(w) ==
  /\ Committed(w)
  /\ accepted' = accepted \union {payment[w]}
  /\ Leave(w)
  /\ UNCHANGED <<status, pastDue, refused, faults>>

\* The next statement of an expired transaction, or its commit, fails.
TransactionClosed(w) ==
  /\ pc[w] \in {"increment", "commit"} /\ ~open[w]
  /\ refused' = refused \union {payment[w]}
  /\ Leave(w)
  /\ UNCHANGED <<db, pastDue, accepted, faults>>

-----------------------------------------------------------------------------
(* Time and failures.                                                      *)

Fault == faults < MaxFaults /\ faults' = faults + 1

\* The transaction is rolled back: after the 5 seconds of an interactive
\* transaction, or because PostgreSQL found a deadlock.
RollBack(w) ==
  /\ open' = [open EXCEPT ![w] = FALSE]
  /\ version' = [version EXCEPT ![w] = NoVersion]
  /\ UNCHANGED <<db, pastDue, accepted, refused, pc, payment, next, newStatus>>

\* Mutant of Expire: a transaction that waits for its own lock never expires.
ExpireNever(w) == open[w] /\ pc[w] = "begin" /\ RollBack(w) /\ UNCHANGED faults

Expire(w) ==
  /\ open[w]
  /\ Blocked(w)
  /\ RollBack(w)
  /\ UNCHANGED faults

\* It was only slow.
ExpireSlow(w) == open[w] /\ Fault /\ RollBack(w)

\* The answer to a stored payment is lost, and the user enters it again.
CommitUnconfirmed(w) ==
  /\ Fault
  /\ Committed(w)
  /\ refused' = refused \union {payment[w]}
  /\ Leave(w)
  /\ UNCHANGED <<status, pastDue, accepted>>

Crash ==
  /\ Fault
  /\ \E w \in Workers : pc[w] # "idle"
  /\ pc' = [w \in Workers |-> "idle"]
  /\ payment' = [w \in Workers |-> None]
  /\ next' = [w \in Workers |-> 1]
  /\ open' = [w \in Workers |-> FALSE]
  /\ version' = [w \in Workers |-> NoVersion]
  /\ newStatus' = [w \in Workers |-> "OPEN"]
  /\ UNCHANGED <<db, pastDue, accepted, refused>>

DueDatePasses(i) ==
  /\ HasDueDate[i] /\ ~pastDue[i]
  /\ pastDue' = [pastDue EXCEPT ![i] = TRUE]
  /\ UNCHANGED <<db, accepted, refused, pc, locals, faults>>

Step(w) ==
  \/ Begin(w) \/ BeginTimesOut(w) \/ Increment(w)
  \/ Recompute(w) \/ RecomputeDiffers(w) \/ SendUpdate(w) \/ UpdateStatus(w)
  \/ Commit(w) \/ TransactionClosed(w) \/ Expire(w)

Next ==
  \/ \E w \in Workers : Step(w) \/ ExpireSlow(w) \/ CommitUnconfirmed(w)
  \/ \E w \in Workers, p \in PaymentIds : Receive(w, p)
  \/ Crash
  \/ \E i \in Invoices : DueDatePasses(i)

Spec == Init /\ [][Next]_vars

\* Handlers run on, blocked transactions expire, and a refused payment is
\* entered again whenever the server takes a request.
Fairness ==
  /\ \A w \in Workers : WF_vars(Step(w))
  /\ \A p \in PaymentIds : SF_vars(\E w \in Workers : Receive(w, p))

FairSpec == Spec /\ Fairness

-----------------------------------------------------------------------------
(* Properties.                                                             *)

PCs == {"idle", "begin", "increment", "recompute", "send", "update", "commit"}

TablesOK ==
  /\ amountPaid \in [Invoices -> Nat]
  /\ status \in [Invoices -> Statuses]
  /\ pastDue \in [Invoices -> BOOLEAN]
  /\ recorded \in [PaymentIds -> Nat]
  /\ accepted \in SUBSET PaymentIds
  /\ refused \in SUBSET PaymentIds
  /\ faults \in Nat

HandlersOK ==
  /\ pc \in [Workers -> PCs]
  /\ payment \in [Workers -> PaymentIds \union {None}]
  /\ next \in [Workers -> Nat \ {0}]
  /\ open \in [Workers -> BOOLEAN]
  /\ version \in [Workers -> [Invoices -> Nat \union {None}]]
  /\ newStatus \in [Workers -> Statuses]

\* A handler past its last allocation only commits, one that has not begun
\* stands at the first, and only an open transaction holds rows.
PositionOK(w) ==
  /\ pc[w] # "idle" => payment[w] \in PaymentIds
  /\ pc[w] \in {"idle", "begin"} => next[w] = 1 /\ ~open[w]
  /\ pc[w] \notin {"idle", "begin", "commit"} =>
       next[w] \in DOMAIN Allocations[payment[w]]
  /\ \A i \in Invoices : Locks(w, i) => open[w]

\* Types of the tables and of the running handlers (create).
PaymentsTypeOK ==
  /\ TablesOK
  /\ HandlersOK
  /\ \A w \in Workers : PositionOK(w)

\* What payment p allocates to invoice i.
Allocated(p, i) ==
  SumFunctionOnSet([k \in DOMAIN Allocations[p] |-> Allocations[p][k].amount],
    {k \in DOMAIN Allocations[p] : Allocations[p][k].invoice = i})

\* What an invoice counts as paid is the sum of the allocations of the stored
\* payments: concurrent increments, expired transactions and crashes lose no
\* payment and count none twice (the increments of create).
BooksBalance ==
  \A i \in Invoices :
    amountPaid[i] = SumFunction([p \in PaymentIds |-> recorded[p] * Allocated(p, i)])

\* The status never claims more than was paid, although it is computed from
\* one read and written later, when the payment it was computed for may
\* have been rolled back (recomputeStatus).
StatusNeverAhead ==
  \A i \in Invoices :
    /\ status[i] = "PAID" => amountPaid[i] >= Total[i] /\ Total[i] > 0
    /\ status[i] = "PARTIAL" => amountPaid[i] > 0

\* The status lags behind by one payment at most: an invoice that was paid
\* before gets a further payment only when its status shows the earlier ones,
\* however late the writes of expired attempts come (recomputeStatus, create).
StatusCatchesUp ==
  [][\A i \in Invoices :
       amountPaid[i] > 0 /\ amountPaid'[i] # amountPaid[i] =>
         status[i] = StatusOf(i)]_vars

\* A payment entered again and again is accepted in the end: the expiry of a
\* transaction that waits for its own lock lets the status catch up, and the
\* next attempt finds nothing to update (create, recomputeStatus).
RetriedPaymentsSucceed == \A p \in PaymentIds : <>(p \in accepted)

\* README.md:12 lists partial payments: a payment entered alone, on a server
\* without failures, is not refused (create).
NoneRefused == refused = {}

=============================================================================
