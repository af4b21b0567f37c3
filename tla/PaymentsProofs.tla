--------------------------- MODULE PaymentsProofs ---------------------------
(* Theorems about payments, for every value of the constants.              *)
EXTENDS Payments, SumTheorems, TLAPS

USE PaymentsAssumption

-----------------------------------------------------------------------------
(* The inductive invariant.                                                *)

\* One transaction at most holds the row of an invoice.
LocksExclusive ==
  \A v, w \in Workers, i \in Invoices : Locks(v, i) /\ Locks(w, i) => v = w

\* A transaction only adds to what an invoice counts as paid.
VersionsGrow ==
  \A w \in Workers, i \in Invoices :
    Locks(w, i) => version[w][i] >= amountPaid[i]

\* The status of an invoice that was paid shows what was paid.
Shown(i) == amountPaid[i] > 0 => status[i] = StatusOf(i)

\* A transaction that holds an invoice has seen its status, or is seeing to it.
LockedAreShown ==
  \A w \in Workers, i \in Invoices :
    Locks(w, i) =>
      \/ Shown(i)
      \/ pc[w] \in {"recompute", "send", "update"} /\ Invoice(w) = i

\* What was paid for an invoice justifies status s.
Earned(s, i) ==
  /\ s = "PAID" => amountPaid[i] >= Total[i] /\ Total[i] > 0
  /\ s = "PARTIAL" => amountPaid[i] > 0

\* A status that waits to be written is justified already.
PendingEarned ==
  \A w \in Workers :
    pc[w] \in {"send", "update"} => Earned(newStatus[w], Invoice(w))

StoredEarned == \A i \in Invoices : Earned(status[i], i)

IInv ==
  /\ PaymentsTypeOK
  /\ LocksExclusive
  /\ VersionsGrow
  /\ LockedAreShown
  /\ PendingEarned
  /\ StoredEarned

-----------------------------------------------------------------------------
(* Facts about the operators.                                              *)

(* The allocation a handler stands at is one of its payment.               *)
LEMMA AllocationType ==
  ASSUME PaymentsTypeOK, NEW w \in Workers,
         pc[w] \notin {"idle", "begin", "commit"}
  PROVE  /\ Allocation(w) \in AllocationInputs
         /\ Invoice(w) \in Invoices
         /\ Allocation(w).amount \in Nat \ {0}
<1>1. payment[w] \in PaymentIds /\ next[w] \in DOMAIN Allocations[payment[w]]
  BY DEF PaymentsTypeOK, PositionOK
<1>2. Allocations[payment[w]] \in Seq(AllocationInputs)
  BY <1>1
<1>3. Allocation(w) \in AllocationInputs
  BY <1>1, <1>2 DEF Allocation
<1> QED
  BY <1>3 DEF AllocationInputs, Invoice

(* A computed status is a status, and is justified by what it read.        *)
LEMMA StatusOfIsEarned ==
  ASSUME TablesOK, NEW i \in Invoices
  PROVE  StatusOf(i) \in Statuses /\ Earned(StatusOf(i), i)
BY DEF StatusOf, StatusFor, Statuses, Earned, TablesOK

(* The steps of the system.                                                *)
LEMMA StepKinds ==
  ASSUME [Next]_vars
  PROVE  \/ UNCHANGED vars
         \/ \E w \in Workers : \E p \in PaymentIds : Receive(w, p)
         \/ \E w \in Workers : Begin(w)
         \/ \E w \in Workers : BeginTimesOut(w)
         \/ \E w \in Workers : Increment(w)
         \/ \E w \in Workers : Recompute(w)
         \/ \E w \in Workers : RecomputeDiffers(w)
         \/ \E w \in Workers : SendUpdate(w)
         \/ \E w \in Workers : UpdateStatus(w)
         \/ \E w \in Workers : Commit(w) \/ CommitUnconfirmed(w)
         \/ \E w \in Workers : TransactionClosed(w)
         \/ \E w \in Workers : Expire(w) \/ ExpireSlow(w)
         \/ Crash
         \/ \E i \in Invoices : DueDatePasses(i)
BY DEF Next, Step

-----------------------------------------------------------------------------
(* Types.                                                                  *)

(* Every step keeps the tables well typed.                                 *)
LEMMA TablesStep ==
  ASSUME PaymentsTypeOK, [Next]_vars
  PROVE  TablesOK'
<1> USE DEF PaymentsTypeOK, TablesOK, HandlersOK
<1>1. CASE UNCHANGED vars
  BY <1>1 DEF vars, db
<1>2. CASE \E w \in Workers : \E p \in PaymentIds : Receive(w, p)
  BY <1>2 DEF Receive, db
<1>3. CASE \E w \in Workers : Begin(w)
  BY <1>3 DEF Begin, db
<1>4. CASE \E w \in Workers : BeginTimesOut(w)
  BY <1>4 DEF BeginTimesOut, db, PositionOK
<1>5. CASE \E w \in Workers : Increment(w)
  BY <1>5 DEF Increment, db
<1>6. CASE \E w \in Workers : Recompute(w)
  BY <1>6 DEF Recompute, db
<1>7. CASE \E w \in Workers : RecomputeDiffers(w)
  BY <1>7 DEF RecomputeDiffers, db
<1>8. CASE \E w \in Workers : SendUpdate(w)
  BY <1>8 DEF SendUpdate, db
<1>9. CASE \E w \in Workers : UpdateStatus(w)
  BY <1>9 DEF UpdateStatus
<1>10. CASE \E w \in Workers : Commit(w) \/ CommitUnconfirmed(w)
  <2>1. PICK w \in Workers : Commit(w) \/ CommitUnconfirmed(w)
    BY <1>10
  <2>2. payment[w] \in PaymentIds
    BY <2>1 DEF Commit, CommitUnconfirmed, Committed, PositionOK
  <2>3. amountPaid' \in [Invoices -> Nat] /\ recorded' \in [PaymentIds -> Nat]
    BY <2>1, <2>2 DEF Commit, CommitUnconfirmed, Committed, Locks
  <2> QED
    BY <2>1, <2>2, <2>3 DEF Commit, CommitUnconfirmed, Fault
<1>11. CASE \E w \in Workers : TransactionClosed(w)
  BY <1>11 DEF TransactionClosed, db, PositionOK
<1>12. CASE \E w \in Workers : Expire(w) \/ ExpireSlow(w)
  BY <1>12 DEF Expire, ExpireSlow, RollBack, Fault, db
<1>13. CASE Crash
  BY <1>13 DEF Crash, Fault, db
<1>14. CASE \E i \in Invoices : DueDatePasses(i)
  BY <1>14 DEF DueDatePasses, db
<1> QED
  BY StepKinds, <1>1, <1>2, <1>3, <1>4, <1>5, <1>6, <1>7, <1>8, <1>9, <1>10,
     <1>11, <1>12, <1>13, <1>14

(* The steps of one handler leave the others where they stand.             *)
Others(w) ==
  \A v \in Workers \ {w} :
    /\ pc'[v] = pc[v] /\ payment'[v] = payment[v] /\ next'[v] = next[v]
    /\ open'[v] = open[v] /\ version'[v] = version[v]
    /\ newStatus'[v] = newStatus[v]

(* Leaving resets a handler.                                               *)
LEMMA LeaveType ==
  ASSUME HandlersOK, NEW w \in Workers, Leave(w)
  PROVE  HandlersOK'
BY DEF Leave, HandlersOK, PCs, Statuses, NoVersion

(* Going on keeps a handler well typed.                                    *)
LEMMA ProceedType ==
  ASSUME HandlersOK, NEW w \in Workers, Proceed(w)
  PROVE  /\ pc' \in [Workers -> PCs]
         /\ next' \in [Workers -> Nat \ {0}]
BY DEF Proceed, HandlersOK, PCs

(* Every step keeps the handlers well typed.                               *)
LEMMA HandlersStep ==
  ASSUME PaymentsTypeOK, [Next]_vars
  PROVE  HandlersOK'
<1>0. HandlersOK
  BY DEF PaymentsTypeOK
<1> USE <1>0 DEF HandlersOK
<1>1. CASE UNCHANGED vars
  BY <1>1 DEF vars, locals
<1>2. CASE \E w \in Workers : \E p \in PaymentIds : Receive(w, p)
  BY <1>2 DEF Receive, PCs
<1>3. CASE \E w \in Workers : Begin(w)
  BY <1>3 DEF Begin, PCs
<1>4. CASE \E w \in Workers : BeginTimesOut(w)
  BY <1>4, LeaveType DEF BeginTimesOut
<1>5. CASE \E w \in Workers : Increment(w)
  <2>1. PICK w \in Workers : Increment(w)
    BY <1>5
  <2>2. Invoice(w) \in Invoices /\ Allocation(w).amount \in Nat
    BY <2>1, AllocationType DEF Increment
  <2>3. version' \in [Workers -> [Invoices -> Nat \union {None}]]
    BY <2>1, <2>2 DEF Increment, Locks, PaymentsTypeOK, TablesOK
  <2> QED
    BY <2>1, <2>3 DEF Increment, PCs
<1>6. CASE \E w \in Workers : Recompute(w)
  BY <1>6, ProceedType DEF Recompute
<1>7. CASE \E w \in Workers : RecomputeDiffers(w)
  <2>1. PICK w \in Workers : RecomputeDiffers(w)
    BY <1>7
  <2>2. StatusOf(Invoice(w)) \in Statuses
    BY <2>1, AllocationType, StatusOfIsEarned
    DEF RecomputeDiffers, PaymentsTypeOK
  <2> QED
    BY <2>1, <2>2 DEF RecomputeDiffers, PCs
<1>8. CASE \E w \in Workers : SendUpdate(w)
  BY <1>8 DEF SendUpdate, PCs, locals
<1>9. CASE \E w \in Workers : UpdateStatus(w)
  BY <1>9, ProceedType DEF UpdateStatus
<1>10. CASE \E w \in Workers : Commit(w) \/ CommitUnconfirmed(w)
  BY <1>10, LeaveType DEF Commit, CommitUnconfirmed
<1>11. CASE \E w \in Workers : TransactionClosed(w)
  BY <1>11, LeaveType DEF TransactionClosed
<1>12. CASE \E w \in Workers : Expire(w) \/ ExpireSlow(w)
  <2>1. PICK w \in Workers : RollBack(w)
    BY <1>12 DEF Expire, ExpireSlow
  <2>2. NoVersion \in [Invoices -> Nat \union {None}]
    BY DEF NoVersion
  <2> QED
    BY <2>1, <2>2 DEF RollBack
<1>13. CASE Crash
  BY <1>13 DEF Crash, PCs, Statuses, NoVersion
<1>14. CASE \E i \in Invoices : DueDatePasses(i)
  BY <1>14 DEF DueDatePasses, locals
<1> QED
  BY StepKinds, <1>1, <1>2, <1>3, <1>4, <1>5, <1>6, <1>7, <1>8, <1>9, <1>10,
     <1>11, <1>12, <1>13, <1>14

-----------------------------------------------------------------------------
(* Handlers.                                                               *)

LEMMA LeaveOthers ==
  ASSUME HandlersOK, NEW w \in Workers, Leave(w)
  PROVE  /\ Others(w)
         /\ pc'[w] = "idle" /\ next'[w] = 1 /\ open'[w] = FALSE
         /\ \A i \in Invoices : ~Locks(w, i)'
BY DEF Leave, HandlersOK, Others, Locks, NoVersion

(* Going on leads to the next allocation, if there is one, or to the commit. *)
LEMMA ProceedPosition ==
  ASSUME PaymentsTypeOK, NEW w \in Workers, Proceed(w),
         pc[w] \in {"recompute", "update"},
         UNCHANGED <<payment, open, version, newStatus>>
  PROVE  /\ Others(w)
         /\ PositionOK(w)'
         /\ pc'[w] \in {"increment", "commit"}
<1>1. /\ payment[w] \in PaymentIds
      /\ next[w] \in DOMAIN Allocations[payment[w]]
  BY DEF PaymentsTypeOK, PositionOK
<1>2. Allocations[payment[w]] \in Seq(AllocationInputs)
  BY <1>1
<1>3. DOMAIN Allocations[payment[w]] = 1..Len(Allocations[payment[w]])
      /\ Len(Allocations[payment[w]]) \in Nat
  BY <1>2
<1>4. pc'[w] = IF next[w] < Len(Allocations[payment[w]])
               THEN "increment" ELSE "commit"
  BY DEF Proceed, PaymentsTypeOK, HandlersOK
<1>5. next'[w] = next[w] + 1
  BY DEF Proceed, PaymentsTypeOK, HandlersOK
<1>6. Others(w)
  BY DEF Others, Proceed, PaymentsTypeOK, HandlersOK
<1>7. \A i \in Invoices : Locks(w, i)' => open'[w]
  BY DEF Locks, PaymentsTypeOK, PositionOK
<1>8. pc'[w] = "increment" => next'[w] \in DOMAIN Allocations[payment'[w]]
  BY <1>1, <1>3, <1>4, <1>5
<1> QED
  BY <1>1, <1>4, <1>6, <1>7, <1>8 DEF PositionOK

(* Every step leaves the handlers of the others and puts its own right.    *)
LEMMA PositionsStep ==
  ASSUME PaymentsTypeOK, [Next]_vars
  PROVE  \A w \in Workers : PositionOK(w)'
<1> USE DEF PaymentsTypeOK, HandlersOK
<1>a. ASSUME NEW w \in Workers, Others(w), PositionOK(w)'
      PROVE  \A v \in Workers : PositionOK(v)'
  <2>1. SUFFICES ASSUME NEW v \in Workers, v # w
                 PROVE  PositionOK(v)'
    BY <1>a
  <2>2. /\ pc'[v] = pc[v] /\ payment'[v] = payment[v] /\ next'[v] = next[v]
        /\ open'[v] = open[v] /\ version'[v] = version[v]
    BY <1>a, <2>1 DEF Others
  <2>3. PositionOK(v)
    OBVIOUS
  <2> QED
    BY <2>2, <2>3 DEF PositionOK, Locks
<1>1. CASE UNCHANGED vars
  BY <1>1 DEF vars, locals, PositionOK, Locks
<1>2. CASE \E w \in Workers : \E p \in PaymentIds : Receive(w, p)
  <2>1. PICK w \in Workers : \E p \in PaymentIds : Receive(w, p)
    BY <1>2
  <2>2. Others(w) /\ PositionOK(w)'
    BY <2>1 DEF Receive, Others, PositionOK, Locks
  <2> QED
    BY <2>2, <1>a
<1>3. CASE \E w \in Workers : Begin(w)
  <2>1. PICK w \in Workers : Begin(w)
    BY <1>3
  <2>2. payment[w] \in PaymentIds /\ next[w] = 1
    BY <2>1 DEF Begin, PositionOK
  <2>3. Allocations[payment[w]] # <<>> =>
          1 \in DOMAIN Allocations[payment[w]]
    <3>1. Allocations[payment[w]] \in Seq(AllocationInputs)
      BY <2>2
    <3> QED
      BY <3>1
  <2>4. Others(w) /\ PositionOK(w)'
    BY <2>1, <2>2, <2>3 DEF Begin, Others, PositionOK, Locks
  <2> QED
    BY <2>4, <1>a
<1>4. CASE \E w \in Workers : BeginTimesOut(w)
  BY <1>4, LeaveOthers, <1>a DEF BeginTimesOut, PositionOK
<1>5. CASE \E w \in Workers : Increment(w)
  <2>1. PICK w \in Workers : Increment(w)
    BY <1>5
  <2>2. Others(w) /\ PositionOK(w)'
    BY <2>1 DEF Increment, Others, PositionOK, Locks
  <2> QED
    BY <2>2, <1>a
<1>6. CASE \E w \in Workers : Recompute(w)
  BY <1>6, ProceedPosition, <1>a DEF Recompute
<1>7. CASE \E w \in Workers : RecomputeDiffers(w)
  <2>1. PICK w \in Workers : RecomputeDiffers(w)
    BY <1>7
  <2>2. Others(w) /\ PositionOK(w)'
    BY <2>1 DEF RecomputeDiffers, Others, PositionOK, Locks
  <2> QED
    BY <2>2, <1>a
<1>8. CASE \E w \in Workers : SendUpdate(w)
  <2>1. PICK w \in Workers : SendUpdate(w)
    BY <1>8
  <2>2. Others(w) /\ PositionOK(w)'
    BY <2>1 DEF SendUpdate, Others, PositionOK, Locks, locals
  <2> QED
    BY <2>2, <1>a
<1>9. CASE \E w \in Workers : UpdateStatus(w)
  BY <1>9, ProceedPosition, <1>a DEF UpdateStatus
<1>10. CASE \E w \in Workers : Commit(w) \/ CommitUnconfirmed(w)
  BY <1>10, LeaveOthers, <1>a DEF Commit, CommitUnconfirmed, PositionOK
<1>11. CASE \E w \in Workers : TransactionClosed(w)
  BY <1>11, LeaveOthers, <1>a DEF TransactionClosed, PositionOK
<1>12. CASE \E w \in Workers : Expire(w) \/ ExpireSlow(w)
  <2>1. PICK w \in Workers : RollBack(w)
    BY <1>12 DEF Expire, ExpireSlow
  <2>2. Others(w) /\ PositionOK(w)'
    BY <2>1 DEF RollBack, Others, PositionOK, Locks, NoVersion
  <2> QED
    BY <2>2, <1>a
<1>13. CASE Crash
  BY <1>13 DEF Crash, PositionOK, Locks, NoVersion
<1>14. CASE \E i \in Invoices : DueDatePasses(i)
  BY <1>14 DEF DueDatePasses, locals, PositionOK, Locks
<1> QED
  BY StepKinds, <1>1, <1>2, <1>3, <1>4, <1>5, <1>6, <1>7, <1>8, <1>9, <1>10,
     <1>11, <1>12, <1>13, <1>14

LEMMA TypesInit == Init => PaymentsTypeOK
BY DEF Init, PaymentsTypeOK, TablesOK, HandlersOK, PositionOK, Statuses, PCs,
       NoVersion, Locks

LEMMA TypesStep == PaymentsTypeOK /\ [Next]_vars => PaymentsTypeOK'
BY TablesStep, HandlersStep, PositionsStep DEF PaymentsTypeOK

(* The tables and the handlers of payments are well typed in every         *)
(* reachable state.                                                        *)
THEOREM PaymentsTypes == Spec => []PaymentsTypeOK
BY TypesInit, TypesStep, PTL DEF Spec

-----------------------------------------------------------------------------
(* Rows and locks.                                                         *)

\* Nothing is locked or written in a transaction.
LocksShrink ==
  \A w \in Workers, i \in Invoices :
    Locks(w, i)' => Locks(w, i) /\ version'[w][i] = version[w][i]

(* Only an increment locks or writes a row; only a commit changes what was *)
(* paid, and only the late update of a status changes the status.          *)
LEMMA RowKinds ==
  ASSUME PaymentsTypeOK, [Next]_vars
  PROVE  \/ LocksShrink /\ UNCHANGED <<amountPaid, status>>
         \/ \E w \in Workers : Increment(w)
         \/ \E w \in Workers : UpdateStatus(w)
         \/ \E w \in Workers : Commit(w) \/ CommitUnconfirmed(w)
<1> DEFINE Quiet == LocksShrink /\ UNCHANGED <<amountPaid, status>>
<1>0. HandlersOK
  BY DEF PaymentsTypeOK
<1>a. ASSUME UNCHANGED <<version, amountPaid, status>>
      PROVE  Quiet
  BY <1>a DEF LocksShrink, Locks
<1>b. ASSUME NEW w \in Workers, Leave(w), UNCHANGED <<amountPaid, status>>
      PROVE  Quiet
  BY <1>b, <1>0 DEF Leave, HandlersOK, LocksShrink, Locks, NoVersion
<1>1. CASE UNCHANGED vars
  BY <1>1, <1>a DEF vars, locals, db
<1>2. CASE \E w \in Workers : \E p \in PaymentIds : Receive(w, p)
  BY <1>2, <1>a DEF Receive, db
<1>3. CASE \E w \in Workers : Begin(w)
  BY <1>3, <1>a DEF Begin, db
<1>4. CASE \E w \in Workers : BeginTimesOut(w)
  BY <1>4, <1>b DEF BeginTimesOut, db
<1>6. CASE \E w \in Workers : Recompute(w)
  BY <1>6, <1>a DEF Recompute, db
<1>7. CASE \E w \in Workers : RecomputeDiffers(w)
  BY <1>7, <1>a DEF RecomputeDiffers, db
<1>8. CASE \E w \in Workers : SendUpdate(w)
  BY <1>8, <1>a DEF SendUpdate, db, locals
<1>11. CASE \E w \in Workers : TransactionClosed(w)
  BY <1>11, <1>b DEF TransactionClosed, db
<1>12. CASE \E w \in Workers : Expire(w) \/ ExpireSlow(w)
  <2>1. PICK w \in Workers : RollBack(w)
    BY <1>12 DEF Expire, ExpireSlow
  <2> QED
    BY <2>1, <1>0 DEF RollBack, HandlersOK, LocksShrink, Locks, NoVersion, db
<1>13. CASE Crash
  BY <1>13 DEF Crash, LocksShrink, Locks, NoVersion, db
<1>14. CASE \E i \in Invoices : DueDatePasses(i)
  BY <1>14, <1>a DEF DueDatePasses, db, locals
<1> QED
  BY StepKinds, <1>1, <1>2, <1>3, <1>4, <1>6, <1>7, <1>8, <1>11, <1>12, <1>13,
     <1>14

(* An increment locks its invoice alone, and adds to it.                   *)
LEMMA IncrementRows ==
  ASSUME IInv, NEW w \in Workers, Increment(w)
  PROVE  /\ Invoice(w) \in Invoices
         /\ \A v \in Workers \ {w} : ~Locks(v, Invoice(w))
         /\ version'[w][Invoice(w)] \in Nat
         /\ version'[w][Invoice(w)] >= amountPaid[Invoice(w)]
         /\ \A v \in Workers, i \in Invoices :
              v # w \/ i # Invoice(w) => version'[v][i] = version[v][i]
<1>1. Invoice(w) \in Invoices /\ Allocation(w).amount \in Nat
  BY AllocationType DEF Increment, IInv
<1>2. \A v \in Workers \ {w} : ~Locks(v, Invoice(w))
  BY DEF Increment, LockedByOther
<1> DEFINE i == Invoice(w)
           paid == IF Locks(w, i) THEN version[w][i] ELSE amountPaid[i]
<1>3. paid \in Nat /\ paid >= amountPaid[i]
  BY <1>1 DEF IInv, PaymentsTypeOK, TablesOK, HandlersOK, Locks, VersionsGrow
<1>4. version' = [version EXCEPT ![w][i] = paid + Allocation(w).amount]
  BY DEF Increment
<1>5. version \in [Workers -> [Invoices -> Nat \union {None}]]
  BY DEF IInv, PaymentsTypeOK, HandlersOK
<1>6. version'[w][i] = paid + Allocation(w).amount
  BY <1>1, <1>4, <1>5
<1>7. amountPaid[i] \in Nat
  BY <1>1 DEF IInv, PaymentsTypeOK, TablesOK
<1>8. version'[w][i] \in Nat /\ version'[w][i] >= amountPaid[i]
  BY <1>1, <1>3, <1>6, <1>7
<1>9. \A v \in Workers, j \in Invoices :
         v # w \/ j # i => version'[v][j] = version[v][j]
  BY <1>4, <1>5
<1> QED
  BY <1>1, <1>2, <1>8, <1>9

(* A commit writes what its transaction holds, more than was paid, and     *)
(* lets go of it.                                                          *)
LEMMA CommitRows ==
  ASSUME IInv, NEW w \in Workers, Commit(w) \/ CommitUnconfirmed(w)
  PROVE  /\ \A i \in Invoices :
              /\ amountPaid'[i] >= amountPaid[i]
              /\ amountPaid'[i] # amountPaid[i] => Locks(w, i)
         /\ \A i \in Invoices : ~Locks(w, i)'
         /\ Others(w) /\ LocksShrink /\ status' = status
<1>1. amountPaid' = [i \in Invoices |-> IF Locks(w, i) THEN version[w][i]
                                                      ELSE amountPaid[i]]
  BY DEF Commit, CommitUnconfirmed, Committed
<1>2. Leave(w) /\ status' = status
  BY DEF Commit, CommitUnconfirmed
<1>3. Others(w) /\ \A i \in Invoices : ~Locks(w, i)'
  BY <1>2, LeaveOthers DEF IInv, PaymentsTypeOK
<1>4. LocksShrink
  BY <1>3 DEF Others, LocksShrink, Locks
<1>5. ASSUME NEW i \in Invoices
      PROVE  /\ amountPaid'[i] >= amountPaid[i]
             /\ amountPaid'[i] # amountPaid[i] => Locks(w, i)
  <2>1. amountPaid[i] \in Nat
    BY DEF IInv, PaymentsTypeOK, TablesOK
  <2> QED
    BY <1>1, <2>1 DEF IInv, VersionsGrow
<1> QED
  BY <1>2, <1>3, <1>4, <1>5

LEMMA LocksExclusiveStep == IInv /\ [Next]_vars => LocksExclusive'
<1> SUFFICES ASSUME IInv, [Next]_vars
             PROVE  LocksExclusive'
  OBVIOUS
<1>a. ASSUME LocksShrink PROVE LocksExclusive'
  BY <1>a DEF LocksShrink, IInv, LocksExclusive
<1>1. CASE LocksShrink /\ UNCHANGED <<amountPaid, status>>
  BY <1>1, <1>a
<1>2. CASE \E w \in Workers : Increment(w)
  BY <1>2, IncrementRows DEF IInv, LocksExclusive, Locks
<1>3. CASE \E w \in Workers : UpdateStatus(w)
  BY <1>3, <1>a DEF UpdateStatus, LocksShrink, Locks
<1>4. CASE \E w \in Workers : Commit(w) \/ CommitUnconfirmed(w)
  BY <1>4, <1>a, CommitRows
<1> QED
  BY RowKinds, <1>1, <1>2, <1>3, <1>4 DEF IInv

LEMMA VersionsGrowStep == IInv /\ [Next]_vars => VersionsGrow'
<1> SUFFICES ASSUME IInv, [Next]_vars
             PROVE  VersionsGrow'
  OBVIOUS
<1>1. CASE LocksShrink /\ UNCHANGED <<amountPaid, status>>
  BY <1>1 DEF LocksShrink, IInv, VersionsGrow
<1>2. CASE \E w \in Workers : Increment(w)
  <2>1. PICK w \in Workers : Increment(w)
    BY <1>2
  <2>2. amountPaid' = amountPaid
    BY <2>1 DEF Increment, db
  <2> QED
    BY <2>1, <2>2, IncrementRows DEF IInv, VersionsGrow, Locks
<1>3. CASE \E w \in Workers : UpdateStatus(w)
  BY <1>3 DEF UpdateStatus, IInv, VersionsGrow, Locks
<1>4. CASE \E w \in Workers : Commit(w) \/ CommitUnconfirmed(w)
  <2>1. PICK w \in Workers : Commit(w) \/ CommitUnconfirmed(w)
    BY <1>4
  <2>2. ASSUME NEW v \in Workers, NEW i \in Invoices, Locks(v, i)'
        PROVE  version'[v][i] >= amountPaid'[i]
    <3>1. v # w /\ Locks(v, i) /\ version'[v][i] = version[v][i]
      BY <2>1, <2>2, CommitRows DEF LocksShrink
    <3>2. ~Locks(w, i)
      BY <3>1 DEF IInv, LocksExclusive
    <3>3. amountPaid'[i] = amountPaid[i]
      BY <2>1, <3>2, CommitRows
    <3> QED
      BY <3>1, <3>3 DEF IInv, VersionsGrow
  <2> QED
    BY <2>2 DEF VersionsGrow
<1> QED
  BY RowKinds, <1>1, <1>2, <1>3, <1>4 DEF IInv

-----------------------------------------------------------------------------
(* Statuses.                                                               *)

\* Handler v goes on seeing to the same invoice, or has left.
Seeing(v) ==
  pc[v] \in {"recompute", "send", "update"} =>
    \/ pc'[v] \in {"recompute", "send", "update"} /\ Invoice(v)' = Invoice(v)
    \/ \A i \in Invoices : ~Locks(v, i)'
    \/ Recompute(v)
    \/ UpdateStatus(v)

\* A status that waits to be written was just computed, or waited before.
Waiting(v) ==
  pc'[v] \in {"send", "update"} =>
    \/ RecomputeDiffers(v)
    \/ /\ pc[v] \in {"send", "update"}
       /\ Invoice(v)' = Invoice(v) /\ newStatus'[v] = newStatus[v]

LEMMA HandlerMoves ==
  ASSUME PaymentsTypeOK, [Next]_vars
  PROVE  \A v \in Workers : Seeing(v) /\ Waiting(v)
<1> USE DEF PaymentsTypeOK, HandlersOK
<1>a. ASSUME NEW w \in Workers, Others(w), Seeing(w), Waiting(w)
      PROVE  \A v \in Workers : Seeing(v) /\ Waiting(v)
  BY <1>a DEF Others, Seeing, Waiting, Invoice, Allocation
<1>b. ASSUME UNCHANGED locals, UNCHANGED pc
      PROVE  \A v \in Workers : Seeing(v) /\ Waiting(v)
  BY <1>b DEF locals, Seeing, Waiting, Invoice, Allocation
<1>c. ASSUME NEW w \in Workers, Leave(w)
      PROVE  \A v \in Workers : Seeing(v) /\ Waiting(v)
  BY <1>c, <1>a, LeaveOthers DEF Seeing, Waiting
<1>1. CASE UNCHANGED vars
  BY <1>1, <1>b DEF vars
<1>2. CASE \E w \in Workers : \E p \in PaymentIds : Receive(w, p)
  <2>1. PICK w \in Workers : \E p \in PaymentIds : Receive(w, p)
    BY <1>2
  <2>2. Others(w) /\ Seeing(w) /\ Waiting(w)
    BY <2>1 DEF Receive, Others, Seeing, Waiting
  <2> QED
    BY <2>2, <1>a
<1>3. CASE \E w \in Workers : Begin(w)
  <2>1. PICK w \in Workers : Begin(w)
    BY <1>3
  <2>2. Others(w) /\ Seeing(w) /\ Waiting(w)
    BY <2>1 DEF Begin, Others, Seeing, Waiting
  <2> QED
    BY <2>2, <1>a
<1>4. CASE \E w \in Workers : BeginTimesOut(w)
  BY <1>4, <1>c DEF BeginTimesOut
<1>5. CASE \E w \in Workers : Increment(w)
  <2>1. PICK w \in Workers : Increment(w)
    BY <1>5
  <2>2. Others(w) /\ Seeing(w) /\ Waiting(w)
    BY <2>1 DEF Increment, Others, Seeing, Waiting
  <2> QED
    BY <2>2, <1>a
<1>6. CASE \E w \in Workers : Recompute(w)
  <2>1. PICK w \in Workers : Recompute(w)
    BY <1>6
  <2>2. Others(w) /\ pc'[w] \in {"increment", "commit"}
    BY <2>1, ProceedPosition DEF Recompute
  <2> QED
    BY <2>1, <2>2, <1>a DEF Seeing, Waiting
<1>7. CASE \E w \in Workers : RecomputeDiffers(w)
  <2>1. PICK w \in Workers : RecomputeDiffers(w)
    BY <1>7
  <2>2. Others(w)
    BY <2>1 DEF RecomputeDiffers, Others
  <2>3. pc'[w] = "send" /\ Invoice(w)' = Invoice(w)
    BY <2>1 DEF RecomputeDiffers, Invoice, Allocation
  <2> QED
    BY <2>1, <2>2, <2>3, <1>a DEF Seeing, Waiting
<1>8. CASE \E w \in Workers : SendUpdate(w)
  <2>1. PICK w \in Workers : SendUpdate(w)
    BY <1>8
  <2>2. Others(w)
    BY <2>1 DEF SendUpdate, Others, locals
  <2>3. /\ pc[w] = "send" /\ pc'[w] = "update"
        /\ Invoice(w)' = Invoice(w) /\ newStatus'[w] = newStatus[w]
    BY <2>1 DEF SendUpdate, Invoice, Allocation, locals
  <2> QED
    BY <2>2, <2>3, <1>a DEF Seeing, Waiting
<1>9. CASE \E w \in Workers : UpdateStatus(w)
  <2>1. PICK w \in Workers : UpdateStatus(w)
    BY <1>9
  <2>2. Others(w) /\ pc'[w] \in {"increment", "commit"}
    BY <2>1, ProceedPosition DEF UpdateStatus
  <2> QED
    BY <2>1, <2>2, <1>a DEF Seeing, Waiting
<1>10. CASE \E w \in Workers : Commit(w) \/ CommitUnconfirmed(w)
  BY <1>10, <1>c DEF Commit, CommitUnconfirmed
<1>11. CASE \E w \in Workers : TransactionClosed(w)
  BY <1>11, <1>c DEF TransactionClosed
<1>12. CASE \E w \in Workers : Expire(w) \/ ExpireSlow(w)
  BY <1>12 DEF Expire, ExpireSlow, RollBack, Seeing, Waiting, Invoice, Allocation
<1>13. CASE Crash
  BY <1>13 DEF Crash, Seeing, Waiting, Locks, NoVersion
<1>14. CASE \E i \in Invoices : DueDatePasses(i)
  BY <1>14, <1>b DEF DueDatePasses
<1> QED
  BY StepKinds, <1>1, <1>2, <1>3, <1>4, <1>5, <1>6, <1>7, <1>8, <1>9, <1>10,
     <1>11, <1>12, <1>13, <1>14

(* A paid invoice whose row stays as it is stays shown: the due date does  *)
(* not matter any more.                                                    *)
LEMMA ShownStays ==
  ASSUME PaymentsTypeOK, NEW i \in Invoices, Shown(i),
         amountPaid'[i] = amountPaid[i], status'[i] = status[i]
  PROVE  Shown(i)'
BY DEF Shown, StatusOf, StatusFor, PaymentsTypeOK, TablesOK

(* What is justified stays so when more is paid.                           *)
LEMMA EarnedGrows ==
  ASSUME PaymentsTypeOK, PaymentsTypeOK', NEW i \in Invoices, NEW s,
         Earned(s, i), amountPaid'[i] >= amountPaid[i]
  PROVE  Earned(s, i)'
<1>1. amountPaid[i] \in Nat /\ amountPaid'[i] \in Nat /\ Total[i] \in Nat
  BY DEF PaymentsTypeOK, TablesOK
<1> QED
  BY <1>1 DEF Earned

(* What was paid never shrinks.                                            *)
LEMMA PaidGrows ==
  ASSUME IInv, [Next]_vars, NEW i \in Invoices
  PROVE  amountPaid'[i] >= amountPaid[i]
<1>0. amountPaid[i] \in Nat
  BY DEF IInv, PaymentsTypeOK, TablesOK
<1>1. CASE UNCHANGED amountPaid
  BY <1>0, <1>1
<1>2. CASE \E w \in Workers : Commit(w) \/ CommitUnconfirmed(w)
  BY <1>2, CommitRows
<1> QED
  BY <1>1, <1>2, RowKinds DEF IInv, Increment, UpdateStatus, db

LEMMA LockedAreShownStep == IInv /\ [Next]_vars => LockedAreShown'
<1> SUFFICES ASSUME IInv, [Next]_vars,
                    NEW v \in Workers, NEW i \in Invoices, Locks(v, i)'
             PROVE  \/ Shown(i)'
                    \/ /\ pc'[v] \in {"recompute", "send", "update"}
                       /\ Invoice(v)' = i
  BY DEF LockedAreShown
<1>0. PaymentsTypeOK
  BY DEF IInv
<1>1. CASE LocksShrink /\ UNCHANGED <<amountPaid, status>>
  <2>1. Locks(v, i)
    BY <1>1 DEF LocksShrink
  <2>2. CASE Shown(i)
    BY <1>0, <1>1, <2>2, ShownStays
  <2>3. CASE pc[v] \in {"recompute", "send", "update"} /\ Invoice(v) = i
    <3>1. CASE Recompute(v)
      BY <1>0, <1>1, <2>3, <3>1, ShownStays DEF Recompute, Shown
    <3>2. CASE UpdateStatus(v)
      BY <2>1, <2>3, <3>2 DEF UpdateStatus, LockedByAny
    <3> QED
      BY <1>0, <2>3, <3>1, <3>2, HandlerMoves DEF Seeing
  <2> QED
    BY <2>1, <2>2, <2>3 DEF IInv, LockedAreShown
<1>2. CASE \E w \in Workers : Increment(w)
  <2>1. PICK w \in Workers : Increment(w)
    BY <1>2
  <2>2. amountPaid' = amountPaid /\ status' = status
    BY <2>1 DEF Increment, db
  <2>3. CASE v = w /\ i = Invoice(w)
    BY <1>0, <2>1, <2>3
    DEF Increment, PaymentsTypeOK, HandlersOK, Invoice, Allocation
  <2>4. CASE ~(v = w /\ i = Invoice(w))
    <3>1. Locks(v, i)
      BY <2>1, <2>4, IncrementRows DEF Locks
    <3>2. CASE Shown(i)
      BY <1>0, <2>2, <3>2, ShownStays
    <3>3. CASE pc[v] \in {"recompute", "send", "update"} /\ Invoice(v) = i
      <4>1. v # w
        BY <2>1, <3>3 DEF Increment
      <4>2. pc'[v] = pc[v] /\ Invoice(v)' = Invoice(v)
        BY <1>0, <2>1, <4>1
        DEF Increment, PaymentsTypeOK, HandlersOK, Invoice, Allocation
      <4> QED
        BY <3>3, <4>2
    <3> QED
      BY <3>1, <3>2, <3>3 DEF IInv, LockedAreShown
  <2> QED
    BY <2>3, <2>4
<1>3. CASE \E w \in Workers : UpdateStatus(w)
  <2>1. PICK w \in Workers : UpdateStatus(w)
    BY <1>3
  <2>2. amountPaid' = amountPaid /\ version' = version
    BY <2>1 DEF UpdateStatus
  <2>3. Locks(v, i)
    BY <2>2 DEF Locks
  <2>4. i # Invoice(w)
    BY <2>1, <2>3 DEF UpdateStatus, LockedByAny
  <2>5. status'[i] = status[i]
    BY <1>0, <2>1, <2>4 DEF UpdateStatus, PaymentsTypeOK, TablesOK
  <2>6. CASE Shown(i)
    BY <1>0, <2>2, <2>5, <2>6, ShownStays
  <2>7. CASE pc[v] \in {"recompute", "send", "update"} /\ Invoice(v) = i
    <3>1. v # w
      BY <2>4, <2>7
    <3>2. Others(w)
      BY <1>0, <2>1, ProceedPosition DEF UpdateStatus
    <3> QED
      BY <2>7, <3>1, <3>2 DEF Others, Invoice, Allocation
  <2> QED
    BY <2>3, <2>6, <2>7 DEF IInv, LockedAreShown
<1>4. CASE \E w \in Workers : Commit(w) \/ CommitUnconfirmed(w)
  <2>1. PICK w \in Workers : Commit(w) \/ CommitUnconfirmed(w)
    BY <1>4
  <2>2. v # w /\ Locks(v, i)
    BY <2>1, CommitRows DEF LocksShrink
  <2>3. ~Locks(w, i)
    BY <2>2 DEF IInv, LocksExclusive
  <2>4. amountPaid'[i] = amountPaid[i] /\ status'[i] = status[i] /\ Others(w)
    BY <2>1, <2>3, CommitRows
  <2>5. CASE Shown(i)
    BY <1>0, <2>4, <2>5, ShownStays
  <2>6. CASE pc[v] \in {"recompute", "send", "update"} /\ Invoice(v) = i
    BY <2>2, <2>4, <2>6 DEF Others, Invoice, Allocation
  <2> QED
    BY <2>2, <2>5, <2>6 DEF IInv, LockedAreShown
<1> QED
  BY <1>0, RowKinds, <1>1, <1>2, <1>3, <1>4

LEMMA PendingEarnedStep == IInv /\ [Next]_vars => PendingEarned'
<1> SUFFICES ASSUME IInv, [Next]_vars,
                    NEW v \in Workers, pc'[v] \in {"send", "update"}
             PROVE  Earned(newStatus[v], Invoice(v))'
  BY DEF PendingEarned
<1>0. PaymentsTypeOK /\ PaymentsTypeOK' /\ HandlersOK
  BY TypesStep DEF IInv, PaymentsTypeOK
<1>1. CASE RecomputeDiffers(v)
  <2>1. Invoice(v) \in Invoices
    BY <1>0, <1>1, AllocationType DEF RecomputeDiffers
  <2>2. Earned(StatusOf(Invoice(v)), Invoice(v))
    BY <1>0, <2>1, StatusOfIsEarned DEF PaymentsTypeOK
  <2>3. newStatus'[v] = StatusOf(Invoice(v)) /\ Invoice(v)' = Invoice(v)
    BY <1>0, <1>1 DEF RecomputeDiffers, HandlersOK, Invoice, Allocation
  <2>4. amountPaid' = amountPaid
    BY <1>1 DEF RecomputeDiffers, db
  <2> QED
    BY <2>2, <2>3, <2>4 DEF Earned
<1>2. CASE /\ pc[v] \in {"send", "update"}
           /\ Invoice(v)' = Invoice(v) /\ newStatus'[v] = newStatus[v]
  <2>1. Invoice(v) \in Invoices
    BY <1>0, <1>2, AllocationType
  <2>2. Earned(newStatus[v], Invoice(v))
    BY <1>2 DEF IInv, PendingEarned
  <2>3. amountPaid'[Invoice(v)] >= amountPaid[Invoice(v)]
    BY <2>1, PaidGrows
  <2>4. /\ amountPaid[Invoice(v)] \in Nat /\ amountPaid'[Invoice(v)] \in Nat
        /\ Total[Invoice(v)] \in Nat
    BY <1>0, <2>1 DEF PaymentsTypeOK, TablesOK
  <2> QED
    BY <1>2, <2>2, <2>3, <2>4 DEF Earned
<1> QED
  BY <1>0, <1>1, <1>2, HandlerMoves DEF Waiting

LEMMA StoredEarnedStep == IInv /\ [Next]_vars => StoredEarned'
<1> SUFFICES ASSUME IInv, [Next]_vars, NEW i \in Invoices
             PROVE  Earned(status[i], i)'
  BY DEF StoredEarned
<1>0. PaymentsTypeOK /\ PaymentsTypeOK' /\ TablesOK
  BY TypesStep DEF IInv, PaymentsTypeOK
<1>1. Earned(status[i], i) /\ amountPaid'[i] >= amountPaid[i]
  BY PaidGrows DEF IInv, StoredEarned
<1>2. CASE status'[i] = status[i]
  BY <1>0, <1>1, <1>2, EarnedGrows DEF Earned
<1>3. CASE \E w \in Workers : UpdateStatus(w) /\ i = Invoice(w)
  <2>1. PICK w \in Workers : UpdateStatus(w) /\ i = Invoice(w)
    BY <1>3
  <2>2. Earned(newStatus[w], i) /\ amountPaid' = amountPaid
    BY <2>1 DEF UpdateStatus, IInv, PendingEarned
  <2>3. status'[i] = newStatus[w]
    BY <1>0, <2>1 DEF UpdateStatus, TablesOK
  <2> QED
    BY <2>2, <2>3 DEF Earned
<1>4. CASE \E w \in Workers : UpdateStatus(w) /\ i # Invoice(w)
  BY <1>0, <1>2, <1>4 DEF UpdateStatus, TablesOK
<1> QED
  BY <1>0, <1>2, <1>3, <1>4, RowKinds, CommitRows DEF Increment, db

-----------------------------------------------------------------------------
(* The theorems.                                                           *)

LEMMA IInvInit == Init => IInv
<1> SUFFICES ASSUME Init PROVE IInv
  OBVIOUS
<1>1. PaymentsTypeOK
  BY TypesInit
<1>2. \A w \in Workers, i \in Invoices : ~Locks(w, i)
  BY DEF Init, Locks, NoVersion
<1>3. PendingEarned /\ StoredEarned
  BY DEF Init, PendingEarned, StoredEarned, Earned
<1> QED
  BY <1>1, <1>2, <1>3 DEF IInv, LocksExclusive, VersionsGrow, LockedAreShown

LEMMA IInvStep == IInv /\ [Next]_vars => IInv'
BY TypesStep, LocksExclusiveStep, VersionsGrowStep, LockedAreShownStep,
   PendingEarnedStep, StoredEarnedStep DEF IInv

LEMMA IInvAlways == Spec => []IInv
BY IInvInit, IInvStep, PTL DEF Spec

(* No interleaving, expiry or crash lets the status of an invoice claim    *)
(* more than was paid for it (recomputeStatus).                            *)
THEOREM StatusIsEarned == Spec => []StatusNeverAhead
<1>1. IInv => StatusNeverAhead
  BY DEF IInv, StoredEarned, Earned, StatusNeverAhead
<1> QED
  BY <1>1, IInvAlways, PTL

(* An invoice that was paid before gets a further payment only when its    *)
(* status shows the earlier ones (recomputeStatus, create).                *)
THEOREM StatusLagsByOne == Spec => StatusCatchesUp
<1> DEFINE CatchesUp ==
      \A i \in Invoices :
        amountPaid[i] > 0 /\ amountPaid'[i] # amountPaid[i] =>
          status[i] = StatusOf(i)
<1>1. ASSUME IInv, [Next]_vars PROVE [CatchesUp]_vars
  <2>1. SUFFICES ASSUME NEW i \in Invoices, amountPaid[i] > 0,
                        amountPaid'[i] # amountPaid[i]
                 PROVE  status[i] = StatusOf(i)
    OBVIOUS
  <2>2. PICK w \in Workers : Commit(w) \/ CommitUnconfirmed(w)
    BY <1>1, <2>1, RowKinds DEF IInv, Increment, UpdateStatus, db
  <2>3. Locks(w, i) /\ pc[w] = "commit"
    BY <1>1, <2>1, <2>2, CommitRows DEF Commit, CommitUnconfirmed, Committed
  <2> QED
    BY <1>1, <2>1, <2>3 DEF IInv, LockedAreShown, Shown
<1> QED
  BY <1>1, IInvAlways, PTL DEF Spec, StatusCatchesUp

-----------------------------------------------------------------------------
(* What the transactions added up.                                         *)

\* The allocations w has added: those before the one it stands at and, once
\* incremented, that one.
Passed(w) ==
  {k \in DOMAIN Allocations[payment[w]] :
     \/ k < next[w]
     \/ k = next[w] /\ pc[w] \in {"recompute", "send", "update"}}

PassedTo(w, i) == {k \in Passed(w) : Allocations[payment[w]][k].invoice = i}

Amounts(p) == [k \in DOMAIN Allocations[p] |-> Allocations[p][k].amount]

\* An open transaction holds, of each invoice it added to, what was paid and
\* the allocations it added, and nothing of the others.
VersionsAddUp ==
  \A w \in Workers, i \in Invoices : open[w] =>
    IF Locks(w, i)
    THEN version[w][i]
           = amountPaid[i] + SumFunctionOnSet(Amounts(payment[w]), PassedTo(w, i))
    ELSE PassedTo(w, i) = {}

\* A handler commits when it has added all its allocations.
CommitsAtTheEnd ==
  \A w \in Workers : pc[w] = "commit" => next[w] > Len(Allocations[payment[w]])

BooksInv == IInv /\ VersionsAddUp /\ CommitsAtTheEnd /\ BooksBalance

LEMMA AmountsType ==
  ASSUME NEW p \in PaymentIds
  PROVE  /\ DOMAIN Allocations[p] = 1..Len(Allocations[p])
         /\ Len(Allocations[p]) \in Nat
         /\ IsFiniteSet(DOMAIN Allocations[p])
         /\ \A k \in DOMAIN Allocations[p] :
              /\ Allocations[p][k].invoice \in Invoices
              /\ Amounts(p)[k] = Allocations[p][k].amount
              /\ Amounts(p)[k] \in Int
<1>1. Allocations[p] \in Seq(AllocationInputs)
  OBVIOUS
<1>2. /\ DOMAIN Allocations[p] = 1..Len(Allocations[p])
      /\ Len(Allocations[p]) \in Nat
      /\ \A k \in DOMAIN Allocations[p] : Allocations[p][k] \in AllocationInputs
  BY <1>1
<1>3. IsFiniteSet(DOMAIN Allocations[p])
  BY <1>2, FS_Interval
<1> QED
  BY <1>2, <1>3 DEF AllocationInputs, Amounts

LEMMA AllocatedType ==
  ASSUME NEW p \in PaymentIds, NEW i
  PROVE  /\ Allocated(p, i)
              = SumFunctionOnSet(Amounts(p),
                  {k \in DOMAIN Allocations[p] : Allocations[p][k].invoice = i})
         /\ Allocated(p, i) \in Int
<1> DEFINE K == {k \in DOMAIN Allocations[p] : Allocations[p][k].invoice = i}
<1>1. IsFiniteSet(K) /\ \A k \in K : Amounts(p)[k] \in Int
  BY AmountsType, FS_Subset
<1>2. SumFunctionOnSet(Amounts(p), K) \in Int
  <2> HIDE DEF K
  <2> QED
    BY <1>1, SumInt
<1> QED
  BY <1>2 DEF Allocated, Amounts

(* What a transaction added changes when it begins, increments or ends.    *)
LEMMA PassedMoves ==
  ASSUME PaymentsTypeOK, [Next]_vars, NEW v \in Workers
  PROVE  \/ open'[v] = FALSE
         \/ Begin(v)
         \/ Increment(v)
         \/ /\ open[v] = TRUE /\ open'[v] = TRUE
            /\ payment'[v] = payment[v] /\ version'[v] = version[v]
            /\ Passed(v)' = Passed(v)
<1> DEFINE Stays ==
      /\ open[v] = TRUE /\ open'[v] = TRUE
      /\ payment'[v] = payment[v] /\ version'[v] = version[v]
      /\ Passed(v)' = Passed(v)
<1> SUFFICES ASSUME open'[v] # FALSE
             PROVE  Begin(v) \/ Increment(v) \/ Stays
  OBVIOUS
<1>0. HandlersOK
  BY DEF PaymentsTypeOK
<1>a. ASSUME /\ open'[v] = open[v] /\ payment'[v] = payment[v]
             /\ version'[v] = version[v] /\ Passed(v)' = Passed(v)
      PROVE  Stays
  BY <1>a, <1>0 DEF HandlersOK
<1>b. ASSUME NEW w \in Workers, w # v, Others(w) PROVE Stays
  <2>1. /\ pc'[v] = pc[v] /\ payment'[v] = payment[v] /\ next'[v] = next[v]
        /\ open'[v] = open[v] /\ version'[v] = version[v]
    BY <1>b DEF Others
  <2> QED
    BY <2>1, <1>a DEF Passed
<1>c. ASSUME NEW w \in Workers, Leave(w) PROVE Stays
  <2>1. Others(w) /\ open'[w] = FALSE
    BY <1>0, <1>c, LeaveOthers
  <2> QED
    BY <2>1, <1>b, <1>c
<1>d. ASSUME Proceed(v), pc[v] \in {"recompute", "update"},
             UNCHANGED <<payment, open, version, newStatus>>
      PROVE  Stays
  <2>1. payment[v] \in PaymentIds /\ next[v] \in Nat
    BY <1>d, <1>0 DEF PaymentsTypeOK, PositionOK, HandlersOK
  <2>2. next'[v] = next[v] + 1 /\ pc'[v] \in {"increment", "commit"}
    BY <1>d, <1>0 DEF Proceed, HandlersOK
  <2>3. DOMAIN Allocations[payment[v]] \subseteq Nat
    BY <2>1, AmountsType
  <2>4. Passed(v)' = Passed(v)
    BY <1>d, <2>1, <2>2, <2>3 DEF Passed
  <2> QED
    BY <1>a, <1>d, <2>4
<1>1. CASE UNCHANGED vars
  BY <1>1, <1>a DEF vars, locals, Passed
<1>2. CASE \E w \in Workers : \E p \in PaymentIds : Receive(w, p)
  <2>1. PICK w \in Workers, p \in PaymentIds : Receive(w, p)
    BY <1>2
  <2>2. Others(w) /\ open' = open /\ ~open[w]
    BY <2>1, <1>0 DEF Receive, Others, HandlersOK, PaymentsTypeOK, PositionOK
  <2> QED
    BY <2>2, <1>0, <1>b DEF HandlersOK
<1>3. CASE \E w \in Workers : Begin(w)
  BY <1>3, <1>0, <1>b DEF Begin, Others, HandlersOK
<1>4. CASE \E w \in Workers : BeginTimesOut(w)
  BY <1>4, <1>c DEF BeginTimesOut
<1>5. CASE \E w \in Workers : Increment(w)
  <2>1. PICK w \in Workers : Increment(w)
    BY <1>5
  <2>2. Others(w)
    BY <2>1, <1>0 DEF Increment, Others, HandlersOK
  <2> QED
    BY <2>1, <2>2, <1>b
<1>6. CASE \E w \in Workers : Recompute(w)
  BY <1>6, <1>b, <1>d, ProceedPosition DEF Recompute
<1>7. CASE \E w \in Workers : RecomputeDiffers(w)
  <2>1. PICK w \in Workers : RecomputeDiffers(w)
    BY <1>7
  <2>2. Others(w)
    BY <2>1, <1>0 DEF RecomputeDiffers, Others, HandlersOK
  <2>3. CASE v = w
    BY <2>1, <2>3, <1>0, <1>a DEF RecomputeDiffers, HandlersOK, Passed
  <2> QED
    BY <2>2, <2>3, <1>b
<1>8. CASE \E w \in Workers : SendUpdate(w)
  <2>1. PICK w \in Workers : SendUpdate(w)
    BY <1>8
  <2>2. Others(w)
    BY <2>1, <1>0 DEF SendUpdate, Others, HandlersOK, locals
  <2>3. CASE v = w
    BY <2>1, <2>3, <1>0, <1>a DEF SendUpdate, HandlersOK, Passed, locals
  <2> QED
    BY <2>2, <2>3, <1>b
<1>9. CASE \E w \in Workers : UpdateStatus(w)
  BY <1>9, <1>b, <1>d, ProceedPosition DEF UpdateStatus
<1>10. CASE \E w \in Workers : Commit(w) \/ CommitUnconfirmed(w)
  BY <1>10, <1>c DEF Commit, CommitUnconfirmed
<1>11. CASE \E w \in Workers : TransactionClosed(w)
  BY <1>11, <1>c DEF TransactionClosed
<1>12. CASE \E w \in Workers : Expire(w) \/ ExpireSlow(w)
  <2>1. PICK w \in Workers : RollBack(w)
    BY <1>12 DEF Expire, ExpireSlow
  <2>2. Others(w) /\ open'[w] = FALSE
    BY <2>1, <1>0 DEF RollBack, Others, HandlersOK
  <2> QED
    BY <2>2, <1>b
<1>13. CASE Crash
  BY <1>13 DEF Crash
<1>14. CASE \E i \in Invoices : DueDatePasses(i)
  BY <1>14, <1>a DEF DueDatePasses, locals, Passed
<1> QED
  BY StepKinds, <1>1, <1>2, <1>3, <1>4, <1>5, <1>6, <1>7, <1>8, <1>9, <1>10,
     <1>11, <1>12, <1>13, <1>14

(* Only a commit changes what is paid and recorded.                        *)
LEMMA WhoRecords ==
  ASSUME [Next]_vars
  PROVE  \/ UNCHANGED <<amountPaid, recorded>>
         \/ \E w \in Workers : Commit(w) \/ CommitUnconfirmed(w)
BY StepKinds
DEF vars, db, Receive, Begin, BeginTimesOut, Increment, Recompute,
    RecomputeDiffers, SendUpdate, UpdateStatus, TransactionClosed, Expire,
    ExpireSlow, RollBack, Crash, DueDatePasses

(* A transaction that begins holds nothing and has added nothing.          *)
LEMMA BeginAddsNothing ==
  ASSUME PaymentsTypeOK, NEW w \in Workers, Begin(w), NEW i \in Invoices
  PROVE  ~Locks(w, i)' /\ PassedTo(w, i)' = {}
<1>1. /\ payment[w] \in PaymentIds /\ next[w] = 1 /\ ~Locks(w, i)
      /\ payment' = payment /\ next' = next /\ version' = version
      /\ pc'[w] \in {"commit", "increment"}
  BY DEF Begin, PaymentsTypeOK, PositionOK, HandlersOK
<1>2. \A k \in DOMAIN Allocations[payment[w]] : k \in Nat /\ k >= 1
  BY <1>1, AmountsType
<1>3. Passed(w)' = {}
  BY <1>1, <1>2 DEF Passed
<1> QED
  BY <1>1, <1>3 DEF PassedTo, Locks

(* An increment adds the allocation the handler stands at.                 *)
LEMMA IncrementAdds ==
  ASSUME IInv, VersionsAddUp, NEW w \in Workers, Increment(w), NEW i \in Invoices
  PROVE  IF Locks(w, i)'
         THEN version'[w][i]
                = amountPaid'[i]
                    + SumFunctionOnSet(Amounts(payment[w])', PassedTo(w, i)')
         ELSE PassedTo(w, i)' = {}
<1> DEFINE p == payment[w]
           n == next[w]
           a == Amounts(p)
           old == PassedTo(w, i)
<1>1. /\ pc[w] = "increment" /\ open[w]
      /\ pc'[w] = "recompute"
      /\ UNCHANGED <<amountPaid, payment, next>>
  BY DEF Increment, db, IInv, PaymentsTypeOK, HandlersOK
<1>2. /\ p \in PaymentIds /\ n \in DOMAIN Allocations[p]
      /\ DOMAIN Allocations[p] \subseteq Nat
      /\ Allocation(w) = Allocations[p][n] /\ Invoice(w) = Allocations[p][n].invoice
      /\ a[n] = Allocation(w).amount /\ a[n] \in Int
  BY <1>1, AmountsType DEF IInv, PaymentsTypeOK, PositionOK, Allocation, Invoice
<1>3. Passed(w)' = Passed(w) \union {n} /\ n \notin Passed(w)
  BY <1>1, <1>2 DEF Passed
<1>4. /\ IF Locks(w, i) THEN version[w][i] = amountPaid[i] + SumFunctionOnSet(a, old)
                       ELSE old = {}
  BY <1>1 DEF VersionsAddUp
<1>5. Amounts(payment[w])' = a
  BY <1>1 DEF Amounts
<1>6. CASE i # Invoice(w)
  <2>1. PassedTo(w, i)' = old
    BY <1>1, <1>2, <1>3, <1>6 DEF PassedTo
  <2>2. version'[w][i] = version[w][i]
    BY <1>6, IncrementRows
  <2> QED
    BY <1>1, <1>4, <1>5, <2>1, <2>2 DEF Locks
<1>7. CASE i = Invoice(w)
  <2>1. PassedTo(w, i)' = old \union {n} /\ n \notin old
    BY <1>1, <1>2, <1>3, <1>7 DEF PassedTo
  <2>2. IsFiniteSet(old) /\ \A k \in old \union {n} : a[k] \in Int
    <3>1. IsFiniteSet(DOMAIN Allocations[p]) /\ old \subseteq DOMAIN Allocations[p]
      BY <1>2, AmountsType DEF PassedTo, Passed
    <3> QED
      BY <1>2, <3>1, AmountsType, FS_Subset
  <2>3. SumFunctionOnSet(a, old \union {n}) = a[n] + SumFunctionOnSet(a, old)
    <3> HIDE DEF a, old, n
    <3> QED
      BY <2>1, <2>2, SumAdd
  <2>4. SumFunctionOnSet(a, old) \in Int
    <3> HIDE DEF a, old, n
    <3> QED
      BY <2>2, SumInt
  <2>5. amountPaid[i] \in Nat
    BY DEF IInv, PaymentsTypeOK, TablesOK
  <2>6. version'[w][i] = (IF Locks(w, i) THEN version[w][i] ELSE amountPaid[i]) + a[n]
    <3>1. version \in [Workers -> [Invoices -> Nat \union {None}]]
      BY DEF IInv, PaymentsTypeOK, HandlersOK
    <3> QED
      BY <1>2, <1>7, <3>1 DEF Increment
  <2>7. version'[w][i] = amountPaid[i] + SumFunctionOnSet(a, old \union {n})
    <3>1. CASE Locks(w, i)
      <4>1. version'[w][i] = (amountPaid[i] + SumFunctionOnSet(a, old)) + a[n]
        BY <1>4, <2>6, <3>1
      <4> HIDE DEF a, old, n
      <4> QED
        BY <1>2, <2>3, <2>4, <2>5, <4>1
    <3>2. CASE ~Locks(w, i)
      <4>1. SumFunctionOnSet(a, old) = 0
        BY <1>4, <3>2, SumEmpty
      <4>2. version'[w][i] = amountPaid[i] + a[n]
        BY <2>6, <3>2
      <4> HIDE DEF a, old, n
      <4> QED
        BY <1>2, <2>3, <2>5, <4>1, <4>2
    <3> QED
      BY <3>1, <3>2
  <2>8. Locks(w, i)'
    BY <1>7, IncrementRows DEF Locks
  <2> QED
    BY <1>1, <1>5, <2>1, <2>7, <2>8
<1> QED
  BY <1>6, <1>7

LEMMA VersionsAddUpStep ==
  ASSUME IInv, VersionsAddUp, [Next]_vars
  PROVE  VersionsAddUp'
<1> SUFFICES ASSUME NEW w \in Workers, NEW i \in Invoices, open'[w]
             PROVE  IF Locks(w, i)'
                    THEN version'[w][i]
                           = amountPaid'[i]
                               + SumFunctionOnSet(Amounts(payment[w])', PassedTo(w, i)')
                    ELSE PassedTo(w, i)' = {}
  BY DEF VersionsAddUp
<1>1. CASE Begin(w)
  BY <1>1, BeginAddsNothing DEF IInv
<1>2. CASE Increment(w)
  BY <1>2, IncrementAdds
<1>3. CASE /\ open[w] = TRUE /\ payment'[w] = payment[w]
           /\ version'[w] = version[w] /\ Passed(w)' = Passed(w)
  <2>1. /\ PassedTo(w, i)' = PassedTo(w, i)
        /\ Amounts(payment[w])' = Amounts(payment[w])
        /\ Locks(w, i)' <=> Locks(w, i)
    BY <1>3 DEF PassedTo, Amounts, Locks
  <2>2. ASSUME Locks(w, i) PROVE amountPaid'[i] = amountPaid[i]
    <3>1. CASE amountPaid' = amountPaid
      BY <3>1
    <3>2. CASE \E x \in Workers : Commit(x) \/ CommitUnconfirmed(x)
      <4>1. PICK x \in Workers : Commit(x) \/ CommitUnconfirmed(x)
        BY <3>2
      <4>2. x # w
        BY <2>1, <2>2, <4>1, CommitRows
      <4> QED
        BY <2>2, <4>1, <4>2, CommitRows DEF IInv, LocksExclusive
    <3> QED
      BY <3>1, <3>2, WhoRecords
  <2>3. IF Locks(w, i)
        THEN version[w][i]
               = amountPaid[i] + SumFunctionOnSet(Amounts(payment[w]), PassedTo(w, i))
        ELSE PassedTo(w, i) = {}
    BY <1>3 DEF VersionsAddUp
  <2> QED
    BY <1>3, <2>1, <2>2, <2>3
<1> QED
  BY <1>1, <1>2, <1>3, PassedMoves DEF IInv

LEMMA CommitsAtTheEndStep ==
  ASSUME PaymentsTypeOK, CommitsAtTheEnd, [Next]_vars
  PROVE  CommitsAtTheEnd'
<1> SUFFICES ASSUME NEW v \in Workers, pc'[v] = "commit"
             PROVE  next'[v] > Len(Allocations[payment'[v]])
  BY DEF CommitsAtTheEnd
<1>0. HandlersOK
  BY DEF PaymentsTypeOK
<1>a. ASSUME pc'[v] = pc[v], next'[v] = next[v], payment'[v] = payment[v]
      PROVE  next'[v] > Len(Allocations[payment'[v]])
  BY <1>a DEF CommitsAtTheEnd
<1>b. ASSUME NEW w \in Workers, w # v, Others(w)
      PROVE  next'[v] > Len(Allocations[payment'[v]])
  BY <1>a, <1>b DEF Others
<1>c. ASSUME NEW w \in Workers, Leave(w)
      PROVE  next'[v] > Len(Allocations[payment'[v]])
  BY <1>b, <1>c, <1>0, LeaveOthers
<1>d. ASSUME Proceed(v), pc[v] \in {"recompute", "update"}, payment' = payment
      PROVE  next'[v] > Len(Allocations[payment'[v]])
  <2>1. payment[v] \in PaymentIds /\ next[v] \in Nat
    BY <1>d, <1>0 DEF PaymentsTypeOK, PositionOK, HandlersOK
  <2>2. Len(Allocations[payment[v]]) \in Nat
    BY <2>1, AmountsType
  <2>3. next'[v] = next[v] + 1 /\ ~(next[v] < Len(Allocations[payment[v]]))
    BY <1>d, <1>0 DEF Proceed, HandlersOK
  <2> QED
    BY <1>d, <2>1, <2>2, <2>3
<1>1. CASE UNCHANGED vars
  BY <1>1, <1>a DEF vars, locals
<1>2. CASE \E w \in Workers : \E p \in PaymentIds : Receive(w, p)
  BY <1>2, <1>0, <1>b DEF Receive, Others, HandlersOK
<1>3. CASE \E w \in Workers : Begin(w)
  <2>1. PICK w \in Workers : Begin(w)
    BY <1>3
  <2>2. Others(w)
    BY <2>1, <1>0 DEF Begin, Others, HandlersOK
  <2>3. CASE v = w
    <3>1. payment[v] \in PaymentIds /\ next[v] = 1 /\ Allocations[payment[v]] = <<>>
      BY <2>1, <2>3, <1>0 DEF Begin, PaymentsTypeOK, PositionOK, HandlersOK
    <3> QED
      BY <2>1, <2>3, <3>1 DEF Begin
  <2> QED
    BY <2>2, <2>3, <1>b
<1>4. CASE \E w \in Workers : BeginTimesOut(w)
  BY <1>4, <1>c DEF BeginTimesOut
<1>5. CASE \E w \in Workers : Increment(w)
  BY <1>5, <1>0, <1>b DEF Increment, Others, HandlersOK
<1>6. CASE \E w \in Workers : Recompute(w)
  BY <1>6, <1>b, <1>d, ProceedPosition DEF Recompute
<1>7. CASE \E w \in Workers : RecomputeDiffers(w)
  BY <1>7, <1>0, <1>b DEF RecomputeDiffers, Others, HandlersOK
<1>8. CASE \E w \in Workers : SendUpdate(w)
  BY <1>8, <1>0, <1>b DEF SendUpdate, Others, HandlersOK, locals
<1>9. CASE \E w \in Workers : UpdateStatus(w)
  BY <1>9, <1>b, <1>d, ProceedPosition DEF UpdateStatus
<1>10. CASE \E w \in Workers : Commit(w) \/ CommitUnconfirmed(w)
  BY <1>10, <1>c DEF Commit, CommitUnconfirmed
<1>11. CASE \E w \in Workers : TransactionClosed(w)
  BY <1>11, <1>c DEF TransactionClosed
<1>12. CASE \E w \in Workers : Expire(w) \/ ExpireSlow(w)
  BY <1>12, <1>a DEF Expire, ExpireSlow, RollBack
<1>13. CASE Crash
  BY <1>13 DEF Crash
<1>14. CASE \E i \in Invoices : DueDatePasses(i)
  BY <1>14, <1>a DEF DueDatePasses, locals
<1> QED
  BY StepKinds, <1>1, <1>2, <1>3, <1>4, <1>5, <1>6, <1>7, <1>8, <1>9, <1>10,
     <1>11, <1>12, <1>13, <1>14

(* A commit adds to every invoice what its payment allocates to it.        *)
LEMMA CommitAdds ==
  ASSUME IInv, VersionsAddUp, CommitsAtTheEnd,
         NEW w \in Workers, Commit(w) \/ CommitUnconfirmed(w), NEW i \in Invoices
  PROVE  /\ payment[w] \in PaymentIds
         /\ amountPaid'[i] = amountPaid[i] + Allocated(payment[w], i)
         /\ recorded' = [recorded EXCEPT ![payment[w]] = @ + 1]
<1> DEFINE p == payment[w]
<1>1. /\ pc[w] = "commit" /\ open[w]
      /\ amountPaid'[i] = IF Locks(w, i) THEN version[w][i] ELSE amountPaid[i]
      /\ recorded' = [recorded EXCEPT ![p] = @ + 1]
  BY DEF Commit, CommitUnconfirmed, Committed
<1>2. p \in PaymentIds /\ next[w] \in Nat /\ amountPaid[i] \in Nat
  BY <1>1 DEF IInv, PaymentsTypeOK, PositionOK, HandlersOK, TablesOK
<1>3. next[w] > Len(Allocations[p])
  BY <1>1 DEF CommitsAtTheEnd
<1>4. Passed(w) = DOMAIN Allocations[p]
  BY <1>2, <1>3, AmountsType DEF Passed
<1>5. Allocated(p, i) = SumFunctionOnSet(Amounts(p), PassedTo(w, i))
  BY <1>2, <1>4, AllocatedType DEF PassedTo
<1>6. CASE Locks(w, i)
  BY <1>1, <1>2, <1>5, <1>6 DEF VersionsAddUp
<1>7. CASE ~Locks(w, i)
  <2>1. PassedTo(w, i) = {}
    BY <1>1, <1>7 DEF VersionsAddUp
  <2>2. Allocated(p, i) = 0
    BY <1>5, <2>1, SumEmpty
  <2> QED
    BY <1>1, <1>2, <1>7, <2>2
<1> QED
  BY <1>6, <1>7

LEMMA BooksBalanceStep ==
  ASSUME IInv, VersionsAddUp, CommitsAtTheEnd, BooksBalance, [Next]_vars
  PROVE  BooksBalance'
<1>1. CASE UNCHANGED <<amountPaid, recorded>>
  BY <1>1 DEF BooksBalance
<1>2. CASE \E w \in Workers : Commit(w) \/ CommitUnconfirmed(w)
  <2>1. PICK w \in Workers : Commit(w) \/ CommitUnconfirmed(w)
    BY <1>2
  <2>2. SUFFICES ASSUME NEW i \in Invoices
                 PROVE  amountPaid'[i]
                          = SumFunction([p \in PaymentIds |-> recorded'[p] * Allocated(p, i)])
    BY DEF BooksBalance, Allocated
  <2> DEFINE f == [p \in PaymentIds |-> recorded[p] * Allocated(p, i)]
             g == [p \in PaymentIds |-> recorded'[p] * Allocated(p, i)]
  <2>3. PICK q \in PaymentIds :
          /\ amountPaid'[i] = amountPaid[i] + Allocated(q, i)
          /\ recorded' = [recorded EXCEPT ![q] = @ + 1]
    BY <2>1, CommitAdds
  <2>4. recorded \in [PaymentIds -> Nat]
    BY DEF IInv, PaymentsTypeOK, TablesOK
  <2>5. \A p \in PaymentIds : f[p] \in Int /\ g[p] \in Int
    <3> SUFFICES ASSUME NEW p \in PaymentIds PROVE f[p] \in Int /\ g[p] \in Int
      OBVIOUS
    <3>1. recorded[p] \in Int /\ recorded'[p] \in Int
      BY <2>3, <2>4
    <3>2. Allocated(p, i) \in Int
      BY AllocatedType
    <3> QED
      BY <3>1, <3>2
  <2>6. \A p \in PaymentIds : p # q => g[p] = f[p]
    BY <2>3, <2>4
  <2>7. g[q] - f[q] = Allocated(q, i)
    <3>1. Allocated(q, i) \in Int
      BY AllocatedType
    <3>3. recorded[q] \in Int /\ recorded'[q] = recorded[q] + 1
      BY <2>3, <2>4
    <3>2. (recorded[q] + 1) * Allocated(q, i)
            = recorded[q] * Allocated(q, i) + Allocated(q, i)
      BY <3>1, <3>3
    <3> QED
      BY <3>1, <3>2, <3>3
  <2>8. SumFunctionOnSet(g, PaymentIds) = SumFunctionOnSet(f, PaymentIds) + (g[q] - f[q])
    <3> HIDE DEF f, g
    <3>1. IsFiniteSet(PaymentIds)
      BY PaymentsAssumption
    <3>2. \A p \in PaymentIds : p # q => g[p] = f[p]
      BY <2>6
    <3>3. \A p \in PaymentIds : f[p] \in Int /\ g[p] \in Int
      BY <2>5
    <3> SUFFICES ASSUME NEW S, IsFiniteSet(S), q \in S, NEW a, NEW b,
                        \A p \in S : p # q => b[p] = a[p],
                        \A p \in S : a[p] \in Int /\ b[p] \in Int
                 PROVE  SumFunctionOnSet(b, S) = SumFunctionOnSet(a, S) + (b[q] - a[q])
      BY <3>1, <3>2, <3>3
    <3> QED
      BY SumChanged
  <2>9. amountPaid[i] = SumFunctionOnSet(f, PaymentIds)
    BY DEF BooksBalance, SumFunction
  <2> HIDE DEF f
  <2>10. amountPaid'[i] = SumFunctionOnSet(g, PaymentIds)
    <3> HIDE DEF g
    <3> QED
      BY <2>3, <2>7, <2>8, <2>9
  <2> QED
    BY <2>10 DEF SumFunction
<1> QED
  BY <1>1, <1>2, WhoRecords

LEMMA BooksInvInit == Init => BooksInv
<1> SUFFICES ASSUME Init PROVE BooksInv
  OBVIOUS
<1>1. IInv
  BY IInvInit
<1>2. VersionsAddUp /\ CommitsAtTheEnd
  BY DEF Init, VersionsAddUp, CommitsAtTheEnd
<1>3. ASSUME NEW i \in Invoices
      PROVE  amountPaid[i]
               = SumFunction([p \in PaymentIds |-> recorded[p] * Allocated(p, i)])
  <2> DEFINE f == [p \in PaymentIds |-> recorded[p] * Allocated(p, i)]
  <2>1. \A p \in PaymentIds : f[p] = 0
    <3> SUFFICES ASSUME NEW p \in PaymentIds PROVE f[p] = 0
      OBVIOUS
    <3>1. recorded[p] = 0 /\ Allocated(p, i) \in Int
      BY AllocatedType DEF Init
    <3> QED
      BY <3>1
  <2>2. SumFunctionOnSet(f, PaymentIds) = 0
    <3> HIDE DEF f
    <3> QED
      BY <2>1, SumZero
  <2>3. amountPaid[i] = 0
    BY DEF Init
  <2> QED
    BY <2>2, <2>3 DEF SumFunction
<1> QED
  BY <1>1, <1>2, <1>3 DEF BooksInv, BooksBalance

LEMMA BooksInvStep == BooksInv /\ [Next]_vars => BooksInv'
BY IInvStep, VersionsAddUpStep, CommitsAtTheEndStep, BooksBalanceStep
DEF BooksInv, IInv

(* What an invoice counts as paid is always the sum of the allocations of  *)
(* the stored payments, whatever increments overlap, transactions expire   *)
(* or processes die (create).                                              *)
THEOREM BooksAlwaysBalance == Spec => []BooksBalance
<1>1. BooksInv => BooksBalance
  BY DEF BooksInv
<1> QED
  BY <1>1, BooksInvInit, BooksInvStep, PTL DEF Spec

=============================================================================
