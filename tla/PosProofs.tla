----------------------------- MODULE PosProofs -----------------------------
(* Theorems about the point of sale, for every value of its constants.     *)
EXTENDS PosRefinement, SumTheorems, TLAPS

USE InventoryAssumption, PosAssumption

-----------------------------------------------------------------------------
(* Facts about the operators.                                              *)

(* A fresh identifier is one nobody uses.                                  *)
LEMMA FreshIdIsFresh ==
  HasFreshId => FreshId \in RowIds /\ FreshId \notin UsedIds
BY DEF HasFreshId, FreshId

LEMMA ElementOfSeq ==
  ASSUME NEW S, NEW s \in Seq(S), NEW k \in 1..Len(s)
  PROVE  s[k] \in S
OBVIOUS

(* The order row an insert writes is well formed.                          *)
LEMMA NewRowType ==
  ASSUME PosTypeOK, HasFreshId, NEW w \in Workers, NEW u \in Uuids
  PROVE  /\ NewRow(w, u) \in OrderRows
         /\ NewRow(w, u).id = FreshId
BY FreshIdIsFresh
DEF NewRow, OrderRows, PosTypeOK, DbTypeOK, LocalTypeOK, OrderInputs, Numbers

LEMMA LinesType ==
  ASSUME NEW o \in OrderRows
  PROVE  /\ Lines(o) \in Seq(OrderLines)
         /\ Len(Lines(o)) \in Nat
         /\ Order[o.uuid].warehouse \in Nullable(Warehouses)
BY DEF Lines, OrderRows, OrderInputs

(* The k-th move of a transaction is a well-formed row.                    *)
LEMMA LineMoveType ==
  ASSUME PosTypeOK, NEW w \in Workers, InTx(w), NEW k \in 1..line[w]
  PROVE  LineMove(w, k) \in MoveRows
<1> DEFINE o == row[w]
           l == Lines(o)[k]
<1>1. o \in OrderRows /\ txid[w] \in RowIds /\ line[w] <= Len(Lines(o))
  BY DEF PosTypeOK, WorkerOK, InTx
<1>2. line[w] \in Nat /\ k \in 1..Len(Lines(o))
  BY <1>1, LinesType DEF PosTypeOK, LocalTypeOK
<1>3. l \in OrderLines
  BY <1>1, <1>2, ElementOfSeq, LinesType
<1> QED
  BY <1>1, <1>2, <1>3, LinesType
  DEF LineMove, MoveRows, OrderRows, OrderLines, Nullable, StockReasons

-----------------------------------------------------------------------------
(* What the parts of the actions do to the types.                          *)

(* Settling an order keeps the locals well typed, and the worker either has *)
(* another order to look up or answers.                                    *)
LEMMA SettleType ==
  ASSUME LocalTypeOK, NEW w \in Workers, todo[w] # <<>>,
         NEW order \in Nullable(RowIds), NEW outcome \in Outcomes,
         Settle(w, order, outcome)
  PROVE  /\ pc' \in [Workers -> Awaits]
         /\ todo' \in [Workers -> Seq(Uuids)]
         /\ results' \in [Workers -> SUBSET Answers]
         /\ yr' \in [Workers -> Nat]
         /\ cnt' \in [Workers -> Nat]
         /\ \/ pc'[w] = "respond" /\ todo'[w] = <<>>
            \/ pc'[w] = "lookup" /\ todo'[w] # <<>>
         /\ \A v \in Workers \ {w} : pc'[v] = pc[v] /\ todo'[v] = todo[v]
<1>1. todo[w] \in Seq(Uuids)
  BY DEF LocalTypeOK
<1>2. Head(todo[w]) \in Uuids /\ Tail(todo[w]) \in Seq(Uuids)
  BY <1>1
<1>3. [uuid |-> Current(w), order |-> order, outcome |-> outcome] \in Answers
  BY <1>2 DEF Current, Answers
<1> DEFINE a == [uuid |-> Current(w), order |-> order, outcome |-> outcome]
<1>4. results' \in [Workers -> SUBSET Answers]
  <2>1. results' = [results EXCEPT ![w] = @ \union {a}] /\ a \in Answers
    BY <1>3 DEF Settle
  <2> HIDE DEF a
  <2> QED
    BY <2>1 DEF LocalTypeOK
<1>5. /\ todo' \in [Workers -> Seq(Uuids)]
      /\ todo'[w] = Tail(todo[w])
      /\ \A v \in Workers \ {w} : todo'[v] = todo[v]
  BY <1>2 DEF Settle, LocalTypeOK
<1>6. /\ pc' \in [Workers -> Awaits]
      /\ pc'[w] = IF Tail(todo[w]) = <<>> THEN "respond" ELSE "lookup"
      /\ \A v \in Workers \ {w} : pc'[v] = pc[v]
  BY DEF Settle, LocalTypeOK, Awaits
<1>7. yr' \in [Workers -> Nat] /\ cnt' \in [Workers -> Nat]
  BY DEF Settle, LocalTypeOK
<1>8. \/ pc'[w] = "respond" /\ todo'[w] = <<>>
      \/ pc'[w] = "lookup" /\ todo'[w] # <<>>
  <2> DEFINE t == Tail(todo[w])
  <2>1. todo'[w] = t /\ pc'[w] = IF t = <<>> THEN "respond" ELSE "lookup"
    BY <1>5, <1>6
  <2> HIDE DEF t
  <2> QED
    BY <2>1
<1>9. \A v \in Workers \ {w} : pc'[v] = pc[v] /\ todo'[v] = todo[v]
  BY <1>5, <1>6
<1> HIDE DEF a
<1> QED
  BY <1>4, <1>5, <1>6, <1>7, <1>8, <1>9

(* A worker whose locals do not change stays as it is.                     *)
LEMMA SameWorker ==
  ASSUME NEW v \in Workers, WorkerOK(v), pc'[v] = pc[v], todo'[v] = todo[v],
         txid'[v] = txid[v], row'[v] = row[v], line'[v] = line[v]
  PROVE  WorkerOK(v)'
BY DEF WorkerOK, Lines

LEMMA EndTxType ==
  ASSUME LocalTypeOK, NEW w \in Workers, EndTx(w)
  PROVE  /\ txid' \in [Workers -> Nullable(RowIds)]
         /\ row' \in [Workers -> Nullable(OrderRows)]
         /\ line' \in [Workers -> Nat]
         /\ line'[w] = 0
         /\ \A v \in Workers \ {w} : /\ txid'[v] = txid[v]
                                     /\ row'[v] = row[v]
                                     /\ line'[v] = line[v]
BY DEF EndTx, LocalTypeOK, Nullable, NoRow

(* The moves a commit adds.                                                *)
NewMoves(w) == {LineMove(w, k) : k \in 1..line[w]}

LEMMA NewMovesFinite ==
  ASSUME PosTypeOK, NEW w \in Workers
  PROVE  IsFiniteSet(NewMoves(w))
<1>1. line[w] \in Nat
  BY DEF PosTypeOK, LocalTypeOK
<1>2. IsFiniteSet(1..line[w])
  BY <1>1, FS_Interval
<1> DEFINE I == 1..line[w]
           b == [k \in I |-> LineMove(w, k)]
<1>3. NewMoves(w) = {b[k] : k \in I} /\ IsFiniteSet(I)
  BY <1>2 DEF NewMoves
<1>4. IsFiniteSet({b[k] : k \in I})
  <2> HIDE DEF I, b
  <2> QED
    BY <1>3, FiniteImage
<1> QED
  BY <1>3, <1>4

LEMMA PublishType ==
  ASSUME PosTypeOK, NEW w \in Workers, Publish(w)
  PROVE  /\ orders' \subseteq OrderRows /\ IsFiniteSet(orders')
         /\ moves' \subseteq MoveRows /\ IsFiniteSet(moves')
<1>1. InTx(w) /\ row[w] \in OrderRows
  BY DEF Publish, InTx, PosTypeOK, WorkerOK
<1>2. IsFiniteSet({o \in orders : o.id # row[w].id})
  BY FS_Subset DEF PosTypeOK, DbTypeOK
<1>3. IsFiniteSet(orders')
  BY <1>2, FS_AddElement DEF Publish
<1>4. IsFiniteSet(moves')
  <2>1. IsFiniteSet(NewMoves(w))
    BY <1>1, NewMovesFinite
  <2> QED
    BY <2>1, FS_Union DEF Publish, PosTypeOK, DbTypeOK, NewMoves
<1> QED
  BY <1>1, <1>3, <1>4, LineMoveType DEF Publish, PosTypeOK, DbTypeOK

(* An await that throws, whose transaction ends.                           *)
LEMMA ThrowType ==
  ASSUME PosTypeOK, NEW w \in Workers, Throw(w), EndTx(w), scoped' = scoped
  PROVE  LocalTypeOK' /\ \A v \in Workers : WorkerOK(v)'
<1> USE DEF PosTypeOK
<1>1. CASE todo[w] # <<>> /\ Settle(w, None, "failed")
  <2>1. None \in Nullable(RowIds) /\ "failed" \in Outcomes
    BY DEF Nullable, Outcomes
  <2>2. LocalTypeOK'
    BY <1>1, <2>1, SettleType, EndTxType DEF LocalTypeOK
  <2>3. ASSUME NEW v \in Workers, v # w PROVE WorkerOK(v)'
    BY <1>1, <2>1, <2>3, SettleType, EndTxType, SameWorker
  <2>4. WorkerOK(w)'
    BY <1>1, <2>1, SettleType, EndTxType DEF WorkerOK
  <2> QED
    BY <2>2, <2>3, <2>4
<1>2. CASE /\ todo[w] = <<>>
           /\ pc' = [pc EXCEPT ![w] = "idle"]
           /\ UNCHANGED <<todo, results, yr, cnt>>
  <2>1. LocalTypeOK'
    BY <1>2, EndTxType DEF LocalTypeOK, Awaits
  <2>2. ASSUME NEW v \in Workers, v # w PROVE WorkerOK(v)'
    BY <1>2, <2>2, EndTxType, SameWorker DEF LocalTypeOK
  <2>3. WorkerOK(w)'
    BY <1>2, EndTxType DEF LocalTypeOK, WorkerOK
  <2> QED
    BY <2>1, <2>2, <2>3
<1> QED
  BY <1>1, <1>2 DEF Throw

LEMMA TypeInit == PosInit => PosTypeOK
BY FS_EmptySet
DEF PosInit, InventoryInit, PosTypeOK, DbTypeOK, LocalTypeOK, WorkerOK,
    Nullable, NoRow, Awaits

-----------------------------------------------------------------------------
LEMMA TypeStep == PosTypeOK /\ [PosNext]_vars => PosTypeOK'
<1> SUFFICES ASSUME PosTypeOK, [PosNext]_vars PROVE PosTypeOK'
  OBVIOUS
<1> USE DEF PosTypeOK
<1>1. ASSUME NEW w \in Workers, LookupFound(w) PROVE PosTypeOK'
  <2>1. PICK o \in Stored(w) : Settle(w, o.id, "ok")
    BY <1>1 DEF LookupFound
  <2>2. o.id \in Nullable(RowIds) /\ "ok" \in Outcomes
    BY DEF Stored, Visible, DbTypeOK, OrderRows, Nullable, Outcomes
  <2>3. todo[w] # <<>> /\ line[w] = 0
    BY <1>1 DEF LookupFound, WorkerOK
  <2>4. LocalTypeOK'
    BY <1>1, <2>1, <2>2, <2>3, SettleType DEF LookupFound, LocalTypeOK
  <2> QED
    BY <1>1, <2>1, <2>2, <2>3, <2>4, SettleType
    DEF LookupFound, DbTypeOK, WorkerOK, db, world
<1>2. ASSUME NEW w \in Workers, RejectUnderpaid(w) PROVE PosTypeOK'
  <2>1. Settle(w, None, "insufficient") /\ todo[w] # <<>> /\ line[w] = 0
    BY <1>2 DEF RejectUnderpaid, WorkerOK
  <2>2. None \in Nullable(RowIds) /\ "insufficient" \in Outcomes
    BY DEF Nullable, Outcomes
  <2>3. LocalTypeOK'
    BY <1>2, <2>1, <2>2, SettleType DEF RejectUnderpaid, LocalTypeOK
  <2> QED
    BY <1>2, <2>1, <2>2, <2>3, SettleType
    DEF RejectUnderpaid, DbTypeOK, WorkerOK, db, world
<1>3. ASSUME NEW w \in Workers, LookupMiss(w) PROVE PosTypeOK'
  BY <1>3 DEF LookupMiss, LocalTypeOK, DbTypeOK, WorkerOK, Awaits, db, world
<1>4. ASSUME NEW w \in Workers, Count(w) PROVE PosTypeOK'
  <2>1. Cardinality(Counted(Order[Current(w)].tenant, scoped[w], yr[w])) \in Nat
    BY FS_Subset, FS_CardinalityType DEF Counted, Visible, DbTypeOK
  <2> QED
    BY <1>4, <2>1
    DEF Count, LocalTypeOK, DbTypeOK, WorkerOK, Awaits, db, world
<1>5. ASSUME NEW w \in Workers, Insert(w) PROVE PosTypeOK'
  <2> DEFINE o == NewRow(w, Current(w))
  <2>1. pc[w] = "insert" /\ HasFreshId /\ todo[w] # <<>> /\ line[w] = 0
    BY <1>5 DEF Insert, WorkerOK
  <2>2. Current(w) \in Uuids
    <3>1. todo[w] \in Seq(Uuids)
      BY DEF LocalTypeOK
    <3> QED
      BY <2>1, <3>1 DEF Current
  <2>3. o \in OrderRows /\ o.id \in RowIds
    BY <2>1, <2>2, NewRowType, FreshIdIsFresh
  <2>4. Len(Lines(o)) \in Nat
    BY <2>3, LinesType
  <2> HIDE DEF o
  <2>5. /\ txid' = [txid EXCEPT ![w] = o.id]
        /\ row' = [row EXCEPT ![w] = o]
        /\ pc' = [pc EXCEPT ![w] = "lines"]
        /\ UNCHANGED <<db, todo, results, scoped, yr, cnt, line, world>>
    BY <1>5 DEF Insert, o
  <2>6. LocalTypeOK'
    BY <2>3, <2>5 DEF LocalTypeOK, Awaits, Nullable
  <2>7. ASSUME NEW v \in Workers PROVE WorkerOK(v)'
    BY <2>1, <2>3, <2>4, <2>5 DEF WorkerOK, LocalTypeOK, Lines
  <2> QED
    BY <2>5, <2>6, <2>7 DEF DbTypeOK, db, world
<1>6. ASSUME NEW w \in Workers, InsertDuplicate(w) PROVE PosTypeOK'
  <2>1. PICK oc \in {"uuid_taken", "number_taken"} : Settle(w, None, oc)
    BY <1>6 DEF InsertDuplicate
  <2>2. /\ todo[w] # <<>> /\ line[w] = 0
        /\ UNCHANGED <<db, scoped, txid, row, line, world>>
    BY <1>6 DEF InsertDuplicate, WorkerOK
  <2>3. None \in Nullable(RowIds) /\ oc \in Outcomes
    BY DEF Nullable, Outcomes
  <2>4. LocalTypeOK'
    BY <2>1, <2>2, <2>3, SettleType DEF LocalTypeOK
  <2> QED
    BY <2>1, <2>2, <2>3, <2>4, SettleType DEF DbTypeOK, WorkerOK, db, world
<1>7. ASSUME NEW w \in Workers, InsertNoSession(w) PROVE PosTypeOK'
  <2>1. Settle(w, None, "no_session") /\ todo[w] # <<>> /\ line[w] = 0
    BY <1>7 DEF InsertNoSession, WorkerOK
  <2>2. UNCHANGED <<db, scoped, txid, row, line, world>>
    BY <1>7 DEF InsertNoSession
  <2>3. None \in Nullable(RowIds) /\ "no_session" \in Outcomes
    BY DEF Nullable, Outcomes
  <2>4. LocalTypeOK'
    BY <2>1, <2>2, <2>3, SettleType DEF LocalTypeOK
  <2> QED
    BY <2>1, <2>2, <2>3, <2>4, SettleType DEF DbTypeOK, WorkerOK, db, world
<1>8. ASSUME NEW w \in Workers, WriteLine(w) PROVE PosTypeOK'
  <2>1. /\ InTx(w) /\ line[w] < Len(Lines(row[w])) /\ row[w] \in OrderRows
        /\ line' = [line EXCEPT ![w] = @ + 1]
        /\ UNCHANGED <<db, pc, todo, results, scoped, yr, cnt, txid, row, world>>
    BY <1>8 DEF WriteLine, WorkerOK, InTx
  <2>2. Len(Lines(row[w])) \in Nat /\ line[w] \in Nat
    BY <2>1, LinesType DEF LocalTypeOK
  <2>3. LocalTypeOK'
    BY <2>1, <2>2 DEF LocalTypeOK
  <2>4. ASSUME NEW v \in Workers PROVE WorkerOK(v)'
    BY <2>1, <2>2 DEF WorkerOK, LocalTypeOK, Lines, InTx
  <2> QED
    BY <2>1, <2>3, <2>4 DEF DbTypeOK, db, world
<1>9. ASSUME NEW w \in Workers, CommitSale(w) PROVE PosTypeOK'
  <2>1. /\ InTx(w) /\ todo[w] # <<>>
        /\ pc' = [pc EXCEPT ![w] = "emit"]
        /\ UNCHANGED <<sessions, locals, world>>
    BY <1>9 DEF CommitSale, Publish
  <2>2. DbTypeOK'
    BY <1>9, <2>1, PublishType DEF CommitSale, DbTypeOK, world
  <2> QED
    BY <2>1, <2>2 DEF LocalTypeOK, WorkerOK, Awaits, InTx, locals, Lines
<1>10. ASSUME NEW w \in Workers, Emit(w) PROVE PosTypeOK'
  <2>1. /\ pc[w] = "emit" /\ todo[w] # <<>> /\ row[w] \in OrderRows
        /\ events' = Append(events, row[w].id)
        /\ Settle(w, row[w].id, "ok")
        /\ EndTx(w)
        /\ UNCHANGED <<db, scoped, year, answers, refunds, faults>>
    BY <1>10 DEF Emit, WorkerOK
  <2>2. row[w].id \in RowIds /\ row[w].id \in Nullable(RowIds) /\ "ok" \in Outcomes
    BY <2>1 DEF OrderRows, Nullable, Outcomes
  <2>3. LocalTypeOK'
    BY <2>1, <2>2, SettleType, EndTxType DEF LocalTypeOK
  <2>4. ASSUME NEW v \in Workers PROVE WorkerOK(v)'
    <3>1. CASE v # w
      BY <2>1, <2>2, <3>1, SettleType, EndTxType, SameWorker
    <3>2. CASE v = w
      BY <2>1, <2>2, <3>2, SettleType, EndTxType DEF WorkerOK
    <3> QED
      BY <3>1, <3>2
  <2> QED
    BY <2>1, <2>2, <2>3, <2>4 DEF DbTypeOK, db
<1>11. ASSUME NEW w \in Workers, Respond(w) PROVE PosTypeOK'
  <2>1. results[w] \subseteq Answers
    BY DEF LocalTypeOK
  <2> QED
    BY <1>11, <2>1
    DEF Respond, LocalTypeOK, DbTypeOK, WorkerOK, Awaits, db, Lines
<1>12. ASSUME NEW w \in Workers, MarkRefunded(w) PROVE PosTypeOK'
  <2>1. PICK o \in orders :
             row' = [row EXCEPT ![w] = Refunded(o)]
    BY <1>12 DEF MarkRefunded
  <2> DEFINE r == Refunded(o)
  <2>2. r \in OrderRows /\ FreshId \in RowIds
    BY <1>12, FreshIdIsFresh DEF MarkRefunded, OrderRows, DbTypeOK, Refunded
  <2>3. Len(Lines(r)) \in Nat
    BY <2>2, LinesType
  <2>4. /\ pc[w] = "update" /\ todo[w] = <<>> /\ line[w] = 0
        /\ txid' = [txid EXCEPT ![w] = FreshId]
        /\ pc' = [pc EXCEPT ![w] = "lines"]
        /\ UNCHANGED <<db, todo, results, scoped, yr, cnt, line, world>>
    BY <1>12 DEF MarkRefunded, WorkerOK
  <2> HIDE DEF r
  <2>5. row' = [row EXCEPT ![w] = r]
    BY <2>1 DEF r
  <2>6. LocalTypeOK'
    BY <2>2, <2>4, <2>5 DEF LocalTypeOK, Awaits, Nullable
  <2>7. ASSUME NEW v \in Workers PROVE WorkerOK(v)'
    <3>1. CASE v = w
      BY <3>1, <2>2, <2>3, <2>4, <2>5 DEF WorkerOK, LocalTypeOK, Lines
    <3>2. CASE v # w
      BY <3>2, <2>4, <2>5 DEF WorkerOK, LocalTypeOK, Lines
    <3> QED
      BY <3>1, <3>2
  <2> QED
    BY <2>4, <2>6, <2>7 DEF DbTypeOK, db, world
<1>13. ASSUME NEW w \in Workers, CommitRefund(w) PROVE PosTypeOK'
  <2>1. /\ InTx(w) /\ todo[w] = <<>>
        /\ EndTx(w)
        /\ pc' = [pc EXCEPT ![w] = "idle"]
        /\ UNCHANGED <<sessions, todo, results, scoped, yr, cnt, world>>
    BY <1>13 DEF CommitRefund, Publish
  <2>2. DbTypeOK'
    BY <1>13, <2>1, PublishType DEF CommitRefund, DbTypeOK, world
  <2>3. LocalTypeOK'
    BY <2>1, EndTxType DEF LocalTypeOK, Awaits
  <2>4. ASSUME NEW v \in Workers PROVE WorkerOK(v)'
    BY <2>1, EndTxType DEF WorkerOK, LocalTypeOK, Lines
  <2> QED
    BY <2>2, <2>3, <2>4
<1>14. ASSUME NEW w \in Workers, StartRefund(w) PROVE PosTypeOK'
  BY <1>14
  DEF StartRefund, LocalTypeOK, DbTypeOK, WorkerOK, Awaits, Nullable, db, Lines
<1>15. ASSUME NEW w \in Workers, Fail(w) PROVE PosTypeOK'
  <2>1. /\ EndTx(w) /\ Throw(w) /\ faults' \in Nat
        /\ UNCHANGED <<db, scoped, events, year, answers, refunds>>
    BY <1>15 DEF Fail, Fault, DbTypeOK
  <2>2. LocalTypeOK' /\ \A v \in Workers : WorkerOK(v)'
    BY <2>1, ThrowType DEF LocalTypeOK
  <2> QED
    BY <2>1, <2>2 DEF DbTypeOK, db
<1>16. ASSUME NEW w \in Workers, CommitUnconfirmed(w) PROVE PosTypeOK'
  <2>1. /\ EndTx(w) /\ Throw(w) /\ Publish(w) /\ faults' \in Nat
        /\ UNCHANGED <<sessions, scoped, events, year, answers, refunds>>
    BY <1>16 DEF CommitUnconfirmed, Fault, DbTypeOK
  <2>2. LocalTypeOK' /\ \A v \in Workers : WorkerOK(v)'
    BY <2>1, ThrowType DEF LocalTypeOK
  <2> QED
    BY <2>1, <2>2, PublishType DEF DbTypeOK
<1>17. ASSUME NEW w \in Workers, LoseResponse(w) PROVE PosTypeOK'
  BY <1>17
  DEF LoseResponse, Fault, LocalTypeOK, DbTypeOK, WorkerOK, Awaits, db, Lines
<1>18. ASSUME NEW w \in Workers, NEW batch \in Batches, Submit(w, batch)
       PROVE  PosTypeOK'
  <2>1. batch \in Seq(Uuids) /\ batch # <<>>
    OBVIOUS
  <2>2. PICK h \in BOOLEAN : scoped' = [scoped EXCEPT ![w] = h]
    BY <1>18 DEF Submit
  <2> QED
    BY <1>18, <2>1, <2>2
    DEF Submit, LocalTypeOK, DbTypeOK, WorkerOK, Awaits, db, world, Lines
<1>19. CASE Crash
  BY <1>19
  DEF Crash, Fault, LocalTypeOK, DbTypeOK, WorkerOK, Awaits, Nullable, NoRow, db
<1>20. ASSUME NEW s \in Sessions, OpenSession(s) PROVE PosTypeOK'
  BY <1>20
  DEF OpenSession, LocalTypeOK, DbTypeOK, WorkerOK, locals, world, Lines
<1>21. ASSUME NEW s \in Sessions, CloseSession(s) PROVE PosTypeOK'
  BY <1>21
  DEF CloseSession, LocalTypeOK, DbTypeOK, WorkerOK, locals, world, Lines
<1>22. CASE NewYear
  BY <1>22 DEF NewYear, LocalTypeOK, DbTypeOK, WorkerOK, locals, db, Lines
<1>23. CASE StockMove
  <2>1. FreshId \in RowIds
    BY <1>23, FreshIdIsFresh DEF StockMove
  <2>2. moves' \subseteq MoveRows
    <3>1. PICK p \in Products, from \in Nullable(Warehouses),
               to \in Nullable(Warehouses), q \in HandQty,
               r \in HandReasons, t \in Tenants, ref \in HandRefs :
            moves' = moves \union
              {[id |-> FreshId, line |-> 1, product |-> p, from |-> from,
                to |-> to, qty |-> q, reason |-> r, tenant |-> t,
                ref |-> ref, by |-> "user"]}
      BY <1>23 DEF StockMove, ManualMove
    <3>2. q \in Int /\ r \in StockReasons /\ ref \in Nullable(Numbers)
      BY PosAssumption, InventoryAssumption
    <3> QED
      BY <2>1, <3>1, <3>2 DEF MoveRows, DbTypeOK
  <2>3. IsFiniteSet(moves')
    <3>1. PICK m : moves' = moves \union {m}
      BY <1>23 DEF StockMove, ManualMove
    <3> QED
      BY <3>1, FS_AddElement DEF DbTypeOK
  <2> QED
    BY <1>23, <2>2, <2>3
    DEF StockMove, LocalTypeOK, DbTypeOK, WorkerOK, locals, world, Lines
<1>24. CASE UNCHANGED vars
  BY <1>24
  DEF vars, LocalTypeOK, DbTypeOK, WorkerOK, db, locals, world, Lines
<1> QED
  BY <1>1, <1>2, <1>3, <1>4, <1>5, <1>6, <1>7, <1>8, <1>9, <1>10, <1>11, <1>12,
     <1>13, <1>14, <1>15, <1>16, <1>17, <1>18, <1>19, <1>20, <1>21, <1>22,
     <1>23, <1>24
  DEF PosNext, Step, Failure

(* Every variable keeps its type, and a worker always has the order, the   *)
(* row and the identifier its next await works on.                         *)
THEOREM PosTypes == PosSpec => []PosTypeOK
<1>1. PosSpec => PosInit /\ [][PosNext]_vars
  BY DEF PosSpec
<1> QED
  BY <1>1, TypeInit, TypeStep, PTL

-----------------------------------------------------------------------------
(* Every step, as the orders and the open transactions see it.             *)

(* Worker v is in no transaction after the step that it was not in before.  *)
Keeps(v) ==
  InTx(v)' => /\ InTx(v)
              /\ row'[v] = row[v] /\ todo'[v] = todo[v] /\ txid'[v] = txid[v]

(* No order is written and no transaction begins.                          *)
Quiet ==
  /\ orders' = orders
  /\ moves' = moves \/ StockMove
  /\ \A v \in Workers : Keeps(v)

(* The transaction of w commits.                                           *)
Commits(w) ==
  /\ Publish(w)
  /\ ~InTx(w)'
  /\ \A v \in Workers \ {w} : Keeps(v)

(* Four kinds of steps, as far as the orders are concerned.                *)
LEMMA StepKinds ==
  ASSUME PosTypeOK, [PosNext]_vars
  PROVE  \/ Quiet
         \/ \E w \in Workers : Insert(w)
         \/ \E w \in Workers : MarkRefunded(w)
         \/ \E w \in Workers : Commits(w)
<1> USE DEF PosTypeOK, InTx, Keeps
<1>1. ASSUME NEW w \in Workers, NEW order, NEW outcome, pc \in [Workers -> Awaits],
             todo \in [Workers -> Seq(Uuids)],
             Settle(w, order, outcome)
      PROVE  /\ pc'[w] # "lines"
             /\ \A v \in Workers \ {w} : pc'[v] = pc[v] /\ todo'[v] = todo[v]
  BY <1>1 DEF Settle
<1>2. ASSUME NEW w \in Workers, Throw(w)
      PROVE  /\ pc'[w] # "lines"
             /\ \A v \in Workers \ {w} : pc'[v] = pc[v] /\ todo'[v] = todo[v]
  BY <1>1, <1>2 DEF Throw, LocalTypeOK
<1>3. ASSUME NEW w \in Workers, Step(w)
      PROVE  Quiet \/ Insert(w) \/ MarkRefunded(w) \/ Commits(w)
  <2>1. CASE LookupFound(w)
    BY <2>1, <1>1 DEF LookupFound, Quiet, db, LocalTypeOK
  <2>2. CASE RejectUnderpaid(w)
    BY <2>2, <1>1 DEF RejectUnderpaid, Quiet, db, LocalTypeOK
  <2>3. CASE LookupMiss(w)
    BY <2>3 DEF LookupMiss, Quiet, db, LocalTypeOK
  <2>4. CASE Count(w)
    BY <2>4 DEF Count, Quiet, db, LocalTypeOK
  <2>5. CASE InsertDuplicate(w)
    BY <2>5, <1>1 DEF InsertDuplicate, Quiet, db, LocalTypeOK
  <2>6. CASE InsertNoSession(w)
    BY <2>6, <1>1 DEF InsertNoSession, Quiet, db, LocalTypeOK
  <2>7. CASE WriteLine(w)
    BY <2>7 DEF WriteLine, Quiet, db
  <2>8. CASE CommitSale(w)
    BY <2>8 DEF CommitSale, Commits, locals, LocalTypeOK
  <2>9. CASE Emit(w)
    BY <2>9, <1>1 DEF Emit, EndTx, Quiet, db, LocalTypeOK
  <2>10. CASE Respond(w)
    BY <2>10 DEF Respond, Quiet, db, LocalTypeOK
  <2>11. CASE CommitRefund(w)
    BY <2>11 DEF CommitRefund, EndTx, Commits, LocalTypeOK
  <2> QED
    BY <1>3, <2>1, <2>2, <2>3, <2>4, <2>5, <2>6, <2>7, <2>8, <2>9, <2>10, <2>11
    DEF Step
<1>4. ASSUME NEW w \in Workers, Failure(w) PROVE Quiet \/ Commits(w)
  <2>1. CASE Fail(w)
    BY <2>1, <1>2 DEF Fail, EndTx, Quiet, db, LocalTypeOK
  <2>2. CASE CommitUnconfirmed(w)
    BY <2>2, <1>2 DEF CommitUnconfirmed, EndTx, Commits, LocalTypeOK
  <2>3. CASE LoseResponse(w)
    BY <2>3 DEF LoseResponse, Quiet, db, LocalTypeOK
  <2> QED
    BY <1>4, <2>1, <2>2, <2>3 DEF Failure
<1>5. ASSUME NEW w \in Workers, StartRefund(w) PROVE Quiet
  BY <1>5 DEF StartRefund, Quiet, db, LocalTypeOK
<1>6. ASSUME NEW w \in Workers, NEW batch \in Batches, Submit(w, batch) PROVE Quiet
  BY <1>6 DEF Submit, Quiet, db, LocalTypeOK
<1>7. CASE Crash
  BY <1>7 DEF Crash, Quiet, db
<1>8. ASSUME NEW s \in Sessions, OpenSession(s) \/ CloseSession(s) PROVE Quiet
  BY <1>8 DEF OpenSession, CloseSession, Quiet, locals
<1>9. CASE NewYear
  BY <1>9 DEF NewYear, Quiet, db, locals
<1>10. CASE StockMove
  BY <1>10 DEF StockMove, Quiet, locals
<1>11. CASE UNCHANGED vars
  BY <1>11 DEF vars, Quiet, db, locals
<1> QED
  BY <1>3, <1>4, <1>5, <1>6, <1>7, <1>8, <1>9, <1>10, <1>11 DEF PosNext

-----------------------------------------------------------------------------
(* No two orders with one clientUuid or with one number.                   *)

(* Stored orders differ in id, clientUuid and number; a transaction that    *)
(* inserts an order holds a row that clashes with no stored one, one that   *)
(* refunds an order holds that order's row; and the rows of different      *)
(* transactions do not clash either.                                       *)
OrdersInv ==
  /\ \A o1, o2 \in orders : o1.id = o2.id \/ Clash(o1, o2) => o1 = o2
  /\ \A w \in Workers : InTx(w) /\ todo[w] # <<>> =>
       /\ row[w].status = "PAID" /\ row[w].id = txid[w]
       /\ \A o \in orders : o.id # row[w].id /\ ~Clash(o, row[w])
  /\ \A w \in Workers : InTx(w) /\ todo[w] = <<>> =>
       \E o \in orders : row[w] = Refunded(o)
  /\ \A v, w \in Workers : v # w /\ InTx(v) /\ InTx(w) =>
       row[v].id # row[w].id /\ txid[v] # txid[w] /\ ~Clash(row[v], row[w])

LEMMA OrdersInvInit == PosInit => OrdersInv
BY DEF PosInit, OrdersInv, InTx

LEMMA RefundedRow ==
  ASSUME NEW o \in OrderRows
  PROVE  /\ Refunded(o) \in OrderRows
         /\ Refunded(o).id = o.id /\ Refunded(o).status = "REFUNDED"
         /\ Refunded(o).uuid = o.uuid /\ Refunded(o).tenant = o.tenant
         /\ Refunded(o).number = o.number
BY DEF Refunded, OrderRows

LEMMA ClashSym == \A o1, o2 : Clash(o1, o2) <=> Clash(o2, o1)
BY DEF Clash, SameUuid, SameNumber

LEMMA OrdersInvInsert ==
  ASSUME PosTypeOK, OrdersInv, NEW w \in Workers, Insert(w)
  PROVE  OrdersInv'
<1> DEFINE n == NewRow(w, Current(w))
<1>1. /\ pc[w] = "insert" /\ HasFreshId /\ todo[w] # <<>>
      /\ KeysFree(w, n) /\ \A p \in orders : ~Clash(p, n)
      /\ txid' = [txid EXCEPT ![w] = n.id]
      /\ row' = [row EXCEPT ![w] = n]
      /\ pc' = [pc EXCEPT ![w] = "lines"]
      /\ orders' = orders /\ todo' = todo
  BY DEF Insert, PosTypeOK, WorkerOK, db
<1>2. n.id = FreshId /\ n.status = "PAID"
  BY DEF NewRow
<1>3. \A o \in orders : o.id # n.id
  BY <1>1, <1>2, FreshIdIsFresh DEF UsedIds
<1>4. \A v \in Workers : txid[v] # n.id
  BY <1>1, <1>2, FreshIdIsFresh DEF UsedIds
<1> HIDE DEF n
<1>5. /\ row'[w] = n /\ txid'[w] = n.id /\ InTx(w)'
      /\ \A v \in Workers \ {w} : /\ row'[v] = row[v] /\ txid'[v] = txid[v]
                                  /\ InTx(v)' <=> InTx(v)
  BY <1>1 DEF PosTypeOK, LocalTypeOK, InTx
<1>6. \A v \in Workers \ {w} : InTx(v) => row[v].id # n.id
  <2> SUFFICES ASSUME NEW v \in Workers \ {w}, InTx(v) PROVE row[v].id # n.id
    OBVIOUS
  <2>1. CASE todo[v] # <<>>
    BY <2>1, <1>4 DEF OrdersInv
  <2>2. CASE todo[v] = <<>>
    <3>1. PICK o \in orders : row[v] = Refunded(o)
      BY <2>2 DEF OrdersInv
    <3>2. row[v].id = o.id
      BY <3>1, RefundedRow DEF PosTypeOK, DbTypeOK
    <3> QED
      BY <3>2, <1>3
  <2> QED
    BY <2>1, <2>2
<1>7. \A v \in Workers \ {w} : InTx(v) =>
        row[v].id # n.id /\ txid[v] # n.id /\ ~Clash(row[v], n) /\ ~Clash(n, row[v])
  BY <1>1, <1>4, <1>6, ClashSym DEF KeysFree
<1>8. \A v \in Workers : InTx(v)' /\ todo'[v] # <<>> =>
       /\ row'[v].status = "PAID" /\ row'[v].id = txid'[v]
       /\ \A o \in orders' : o.id # row'[v].id /\ ~Clash(o, row'[v])
  <2> SUFFICES ASSUME NEW v \in Workers, InTx(v)', todo'[v] # <<>>
               PROVE /\ row'[v].status = "PAID" /\ row'[v].id = txid'[v]
                     /\ \A o \in orders' : o.id # row'[v].id /\ ~Clash(o, row'[v])
    OBVIOUS
  <2>1. CASE v = w
    BY <2>1, <1>1, <1>2, <1>3, <1>5
  <2>2. CASE v # w
    BY <2>2, <1>1, <1>5 DEF OrdersInv
  <2> QED
    BY <2>1, <2>2
<1>9. \A v \in Workers : InTx(v)' /\ todo'[v] = <<>> =>
        \E o \in orders' : row'[v] = Refunded(o)
  BY <1>1, <1>5 DEF OrdersInv
<1>10. \A v, u \in Workers : v # u /\ InTx(v)' /\ InTx(u)' =>
         row'[v].id # row'[u].id /\ txid'[v] # txid'[u] /\ ~Clash(row'[v], row'[u])
  BY <1>5, <1>7 DEF OrdersInv
<1> QED
  BY <1>1, <1>8, <1>9, <1>10 DEF OrdersInv, Clash, SameUuid, SameNumber

LEMMA OrdersInvRefund ==
  ASSUME PosTypeOK, OrdersInv, NEW w \in Workers, MarkRefunded(w)
  PROVE  OrdersInv'
<1>1. PICK o \in orders : o.id = row[w].id /\ row' = [row EXCEPT ![w] = Refunded(o)]
  BY DEF MarkRefunded
<1>2. /\ todo[w] = <<>> /\ HasFreshId
      /\ \A v \in Workers \ {w} : InTx(v) => row[v].id # row[w].id
      /\ txid' = [txid EXCEPT ![w] = FreshId]
      /\ pc' = [pc EXCEPT ![w] = "lines"]
      /\ orders' = orders /\ todo' = todo
  BY DEF MarkRefunded, PosTypeOK, WorkerOK, db
<1> DEFINE r == Refunded(o)
<1>3. r.id = o.id /\ r.uuid = o.uuid /\ r.tenant = o.tenant /\ r.number = o.number
  BY RefundedRow DEF PosTypeOK, DbTypeOK
<1>4. \A v \in Workers : txid[v] # FreshId
  BY <1>2, FreshIdIsFresh DEF UsedIds
<1>5. /\ row'[w] = r /\ txid'[w] = FreshId /\ InTx(w)'
      /\ \A v \in Workers \ {w} : /\ row'[v] = row[v] /\ txid'[v] = txid[v]
                                  /\ InTx(v)' <=> InTx(v)
  BY <1>1, <1>2 DEF PosTypeOK, LocalTypeOK, InTx
<1>6. \A v \in Workers \ {w} : InTx(v) =>
        row[v].id # r.id /\ ~Clash(row[v], r) /\ ~Clash(r, row[v])
  <2> SUFFICES ASSUME NEW v \in Workers \ {w}, InTx(v)
               PROVE row[v].id # r.id /\ ~Clash(row[v], r)
    BY ClashSym
  <2>1. row[v].id # r.id
    BY <1>1, <1>2, <1>3
  <2>2. CASE todo[v] # <<>>
    BY <2>1, <2>2, <1>3 DEF OrdersInv, Clash, SameUuid, SameNumber
  <2>3. CASE todo[v] = <<>>
    <3>1. PICK p \in orders : row[v] = Refunded(p)
      BY <2>3 DEF OrdersInv
    <3>2. row[v].id = p.id /\ row[v].uuid = p.uuid /\ row[v].tenant = p.tenant
            /\ row[v].number = p.number
      BY <3>1, RefundedRow DEF PosTypeOK, DbTypeOK
    <3>3. ~Clash(p, o)
      BY <2>1, <3>2, <1>3 DEF OrdersInv
    <3> QED
      BY <2>1, <3>2, <3>3, <1>3 DEF Clash, SameUuid, SameNumber
  <2> QED
    BY <2>2, <2>3
<1> HIDE DEF r
<1>7. \A v \in Workers : InTx(v)' /\ todo'[v] # <<>> =>
       /\ row'[v].status = "PAID" /\ row'[v].id = txid'[v]
       /\ \A p \in orders' : p.id # row'[v].id /\ ~Clash(p, row'[v])
  BY <1>2, <1>5 DEF OrdersInv
<1>8. \A v \in Workers : InTx(v)' /\ todo'[v] = <<>> =>
        \E p \in orders' : row'[v] = Refunded(p)
  BY <1>2, <1>5 DEF OrdersInv, r
<1>9. \A v, u \in Workers : v # u /\ InTx(v)' /\ InTx(u)' =>
         row'[v].id # row'[u].id /\ txid'[v] # txid'[u] /\ ~Clash(row'[v], row'[u])
  BY <1>4, <1>5, <1>6 DEF OrdersInv
<1> QED
  BY <1>2, <1>7, <1>8, <1>9 DEF OrdersInv, Clash, SameUuid, SameNumber, Refunded

(* What a commit leaves in the table: the other rows, and the row of w; a   *)
(* row it replaces differs from it in the status only.                     *)
LEMMA CommittedRows ==
  ASSUME PosTypeOK, OrdersInv, NEW w \in Workers, Publish(w)
  PROVE  /\ row[w] \in OrderRows /\ row[w] \in orders'
         /\ \A o \in orders' : o # row[w] => o \in orders /\ o.id # row[w].id
         /\ \A o \in orders : o \in orders' \/ o.id = row[w].id
         /\ \A o \in orders : Clash(o, row[w]) => o.id = row[w].id
         /\ \A o \in orders : o.id = row[w].id =>
              o.uuid = row[w].uuid /\ o.tenant = row[w].tenant /\ o.number = row[w].number
<1>1. InTx(w) /\ row[w] \in OrderRows
  BY DEF Publish, PosTypeOK, WorkerOK, InTx
<1>2. CASE todo[w] # <<>>
  BY <1>1, <1>2 DEF OrdersInv, Publish
<1>3. CASE todo[w] = <<>>
  <2>1. PICK p \in orders : row[w] = Refunded(p)
    BY <1>1, <1>3 DEF OrdersInv
  <2>2. /\ row[w].id = p.id /\ row[w].uuid = p.uuid
        /\ row[w].tenant = p.tenant /\ row[w].number = p.number
    BY <2>1, RefundedRow DEF PosTypeOK, DbTypeOK
  <2>3. \A o \in orders : Clash(o, row[w]) => Clash(o, p)
    BY <2>2 DEF Clash, SameUuid, SameNumber
  <2> QED
    BY <1>1, <2>2, <2>3 DEF OrdersInv, Publish
<1> QED
  BY <1>2, <1>3

LEMMA OrdersInvCommit ==
  ASSUME PosTypeOK, OrdersInv, NEW w \in Workers, Commits(w)
  PROVE  OrdersInv'
<1>1. Publish(w) /\ InTx(w) /\ ~InTx(w)'
  BY DEF Commits, Publish
<1>2. \A v \in Workers : InTx(v)' =>
        /\ v # w /\ InTx(v)
        /\ row'[v] = row[v] /\ todo'[v] = todo[v] /\ txid'[v] = txid[v]
  BY DEF Commits, Keeps
<1>3. \A o1, o2 \in orders' : o1.id = o2.id \/ Clash(o1, o2) => o1 = o2
  BY <1>1, CommittedRows, ClashSym DEF OrdersInv
<1>4. ASSUME NEW v \in Workers, InTx(v)', todo'[v] # <<>>
      PROVE  /\ row'[v].status = "PAID" /\ row'[v].id = txid'[v]
             /\ \A o \in orders' : o.id # row'[v].id /\ ~Clash(o, row'[v])
  BY <1>1, <1>2, <1>4, CommittedRows DEF OrdersInv
<1>5. ASSUME NEW v \in Workers, InTx(v)', todo'[v] = <<>>
      PROVE  \E o \in orders' : row'[v] = Refunded(o)
  <2>1. PICK p \in orders : row[v] = Refunded(p)
    BY <1>2, <1>5 DEF OrdersInv
  <2>2. row[v].id = p.id
    BY <2>1, RefundedRow DEF PosTypeOK, DbTypeOK
  <2>3. p.id # row[w].id
    BY <1>1, <1>2, <1>5, <2>2 DEF OrdersInv
  <2> QED
    BY <1>1, <1>2, <1>5, <2>1, <2>3, CommittedRows
<1>6. \A v, u \in Workers : v # u /\ InTx(v)' /\ InTx(u)' =>
         row'[v].id # row'[u].id /\ txid'[v] # txid'[u] /\ ~Clash(row'[v], row'[u])
  BY <1>2 DEF OrdersInv
<1> QED
  BY <1>3, <1>4, <1>5, <1>6 DEF OrdersInv, Clash, SameUuid, SameNumber, Refunded

LEMMA OrdersInvQuiet ==
  ASSUME OrdersInv, Quiet
  PROVE  OrdersInv'
<1>1. \A v \in Workers : InTx(v)' =>
        /\ InTx(v)
        /\ row'[v] = row[v] /\ todo'[v] = todo[v] /\ txid'[v] = txid[v]
  BY DEF Quiet, Keeps
<1>2. orders' = orders
  BY DEF Quiet
<1>3. \A v \in Workers : InTx(v)' /\ todo'[v] # <<>> =>
        /\ row'[v].status = "PAID" /\ row'[v].id = txid'[v]
        /\ \A o \in orders' : o.id # row'[v].id /\ ~Clash(o, row'[v])
  BY <1>1, <1>2 DEF OrdersInv
<1>4. \A v \in Workers : InTx(v)' /\ todo'[v] = <<>> =>
        \E o \in orders' : row'[v] = Refunded(o)
  BY <1>1, <1>2 DEF OrdersInv
<1>5. \A v, u \in Workers : v # u /\ InTx(v)' /\ InTx(u)' =>
        /\ row'[v].id # row'[u].id /\ txid'[v] # txid'[u]
        /\ ~Clash(row'[v], row'[u])
  BY <1>1 DEF OrdersInv
<1> QED
  BY <1>2, <1>3, <1>4, <1>5
  DEF OrdersInv, Clash, SameUuid, SameNumber, Refunded

LEMMA OrdersInvStep == PosTypeOK /\ OrdersInv /\ [PosNext]_vars => OrdersInv'
BY StepKinds, OrdersInvQuiet, OrdersInvInsert, OrdersInvRefund, OrdersInvCommit

LEMMA OrdersInvAlways == PosSpec => []OrdersInv
<1>1. PosSpec => PosInit /\ [][PosNext]_vars
  BY DEF PosSpec
<1> QED
  BY <1>1, PosTypes, OrdersInvInit, OrdersInvStep, PTL

(* However attempts at an order overlap, fail or are repeated, and however  *)
(* many requests there are, one clientUuid never gets two orders.          *)
THEOREM Idempotent == PosSpec => []OneOrderPerUuid
<1>1. OrdersInv => OneOrderPerUuid
  BY DEF OrdersInv, OneOrderPerUuid, Clash, SameUuid
<1> QED
  BY <1>1, OrdersInvAlways, PTL

(* Two orders of a tenant never share a number.                            *)
THEOREM UniqueNumbers == PosSpec => []NumbersUnique
<1>1. OrdersInv => NumbersUnique
  BY DEF OrdersInv, NumbersUnique, Clash
<1> QED
  BY <1>1, OrdersInvAlways, PTL

-----------------------------------------------------------------------------
(* Stock moves and orders go together.                                     *)

(* The k-th stock move of the sale of o.                                   *)
SaleMove(o, k) ==
  [id |-> o.id, line |-> k, product |-> Lines(o)[k].product,
   from |-> Order[o.uuid].warehouse, to |-> None, qty |-> Lines(o)[k].qty,
   reason |-> "POS_SALE", tenant |-> o.tenant, ref |-> o.number,
   by |-> "till"]

(* Sale moves belong to stored orders, and each order has exactly those of  *)
(* its lines; returns belong to refunded orders, each refunded order was    *)
(* returned, and each time completely; the identifier of an open            *)
(* transaction is on no move yet.                                          *)
MovesInv ==
  /\ \A m \in TillMoves : m.reason = "POS_SALE" =>
       \E o \in orders : m.tenant = o.tenant /\ m.ref = o.number
  /\ \A o \in orders :
       MovesOf(o, "POS_SALE") = {SaleMove(o, k) : k \in 1..Len(Lines(o))}
  /\ \A m \in TillMoves : m.reason = "RETURN" =>
       \E o \in orders : /\ m.tenant = o.tenant /\ m.ref = o.number
                         /\ o.status = "REFUNDED"
  /\ \A o \in orders : o.status = "REFUNDED" /\ Len(Lines(o)) # 0 =>
       MovesOf(o, "RETURN") # {}
  /\ \A o \in orders : \A m \in MovesOf(o, "RETURN") :
       {n.line : n \in {r \in MovesOf(o, "RETURN") : r.id = m.id}}
         = 1..Len(Lines(o))
  /\ \A w \in Workers : InTx(w) => \A m \in moves : m.id # txid[w]

LEMMA MovesInvInit == PosInit => MovesInv
BY DEF PosInit, InventoryInit, MovesInv, TillMoves, MovesOf, InTx

(* The moves a commit adds.                                                *)
LEMMA LineMoveFields ==
  ASSUME NEW w \in Workers, NEW k
  PROVE  /\ LineMove(w, k).id = txid[w] /\ LineMove(w, k).line = k
         /\ LineMove(w, k).tenant = row[w].tenant
         /\ LineMove(w, k).ref = row[w].number /\ LineMove(w, k).by = "till"
         /\ row[w].status = "PAID" => LineMove(w, k).reason = "POS_SALE"
         /\ row[w].status # "PAID" => LineMove(w, k).reason = "RETURN"
         /\ row[w].status = "PAID" /\ row[w].id = txid[w] =>
              LineMove(w, k) = SaleMove(row[w], k)
BY DEF LineMove, SaleMove

LEMMA MovesInvQuiet ==
  ASSUME PosTypeOK, MovesInv, Quiet
  PROVE  MovesInv'
<1>1. orders' = orders
  BY DEF Quiet
<1>2. \A v \in Workers : InTx(v)' => InTx(v) /\ txid'[v] = txid[v]
  BY DEF Quiet, Keeps
<1>3. /\ moves \subseteq moves'
      /\ \A m \in moves' : m \notin moves =>
           /\ m.by = "user"
           /\ \A v \in Workers : m.id # txid[v]
  <2>1. CASE moves' = moves
    BY <2>1
  <2>2. CASE StockMove
    <3>1. \A v \in Workers : FreshId # txid[v]
      BY <2>2, FreshIdIsFresh DEF StockMove, UsedIds
    <3>2. PICK p \in Products, from \in Nullable(Warehouses),
               to \in Nullable(Warehouses), q \in HandQty,
               r \in HandReasons, t \in Tenants, ref \in HandRefs :
            moves' = moves \union
              {[id |-> FreshId, line |-> 1, product |-> p, from |-> from,
                to |-> to, qty |-> q, reason |-> r, tenant |-> t,
                ref |-> ref, by |-> "user"]}
      BY <2>2 DEF StockMove, ManualMove
    <3> QED
      BY <3>1, <3>2
  <2> QED
    BY <2>1, <2>2 DEF Quiet
<1>4. \A o : \A reason \in {"POS_SALE", "RETURN"} :
        MovesOf(o, reason)' = MovesOf(o, reason)
  BY <1>3 DEF MovesOf, TillMoves
<1>5. \A o \in orders' :
       MovesOf(o, "POS_SALE")' = {SaleMove(o, k) : k \in 1..Len(Lines(o))}
  BY <1>1, <1>4 DEF MovesInv
<1>6. \A o \in orders' : o.status = "REFUNDED" /\ Len(Lines(o)) # 0 =>
        MovesOf(o, "RETURN")' # {}
  BY <1>1, <1>4 DEF MovesInv
<1>7. \A o \in orders' : \A m \in MovesOf(o, "RETURN")' :
       {n.line : n \in {r \in MovesOf(o, "RETURN")' : r.id = m.id}}
         = 1..Len(Lines(o))
  BY <1>1, <1>4 DEF MovesInv
<1>8. \A w \in Workers : InTx(w)' => \A m \in moves' : m.id # txid'[w]
  BY <1>2, <1>3 DEF MovesInv
<1>9. \A m \in TillMoves' : m.reason = "POS_SALE" =>
       \E o \in orders' : m.tenant = o.tenant /\ m.ref = o.number
  BY <1>1, <1>3 DEF MovesInv, TillMoves
<1>10. \A m \in TillMoves' : m.reason = "RETURN" =>
       \E o \in orders' : /\ m.tenant = o.tenant /\ m.ref = o.number
                          /\ o.status = "REFUNDED"
  BY <1>1, <1>3 DEF MovesInv, TillMoves
<1> QED
  BY <1>5, <1>6, <1>7, <1>8, <1>9, <1>10 DEF MovesInv, Lines, SaleMove

(* A transaction that begins has an identifier no move carries.            *)
LEMMA MovesInvBegin ==
  ASSUME PosTypeOK, MovesInv, NEW w \in Workers, Insert(w) \/ MarkRefunded(w)
  PROVE  MovesInv'
<1>1. HasFreshId /\ orders' = orders /\ moves' = moves
  BY DEF Insert, MarkRefunded, db
<1>2. txid' = [txid EXCEPT ![w] = FreshId] /\ pc' = [pc EXCEPT ![w] = "lines"]
  BY DEF Insert, MarkRefunded, NewRow
<1>3. \A m \in moves : m.id # FreshId
  BY <1>1, FreshIdIsFresh DEF UsedIds
<1>4. \A v \in Workers : InTx(v)' => \A m \in moves' : m.id # txid'[v]
  BY <1>1, <1>2, <1>3 DEF MovesInv, InTx, PosTypeOK, LocalTypeOK
<1> QED
  BY <1>1, <1>4 DEF MovesInv, MovesOf, TillMoves, Lines, SaleMove

(* The moves of the other orders stay as they are when w commits.          *)
LEMMA OtherMoves ==
  ASSUME PosTypeOK, OrdersInv, NEW w \in Workers, Publish(w),
         NEW o \in orders, o.id # row[w].id, NEW reason
  PROVE  MovesOf(o, reason)' = MovesOf(o, reason)
<1>1. ~(o.tenant = row[w].tenant /\ o.number = row[w].number)
  BY CommittedRows DEF Clash, SameNumber
<1>2. moves' = moves \union {LineMove(w, k) : k \in 1..line[w]}
  BY DEF Publish
<1> QED
  BY <1>1, <1>2, LineMoveFields DEF MovesOf, TillMoves

LEMMA MovesInvSale ==
  ASSUME PosTypeOK, OrdersInv, MovesInv, NEW w \in Workers, Commits(w),
         todo[w] # <<>>
  PROVE  MovesInv'
<1>0. PICK r : r = row[w]
  OBVIOUS
<1> DEFINE NM == {LineMove(w, k) : k \in 1..line[w]}
<1>1. /\ InTx(w) /\ Publish(w) /\ ~InTx(w)'
      /\ moves' = moves \union NM
      /\ line[w] = Len(Lines(r))
  BY <1>0 DEF Commits, Publish
<1>2. /\ r.status = "PAID" /\ r.id = txid[w]
      /\ \A o \in orders : o.id # r.id /\ ~Clash(o, r)
  BY <1>0, <1>1 DEF OrdersInv
<1>3. orders' = orders \union {r}
  BY <1>0, <1>1, <1>2 DEF Publish
<1>4. \A k \in 1..line[w] : LineMove(w, k) = SaleMove(r, k)
  BY <1>0, <1>2, LineMoveFields
<1>5. NM = {SaleMove(r, k) : k \in 1..Len(Lines(r))}
  BY <1>0, <1>1, <1>4
<1>6. \A m \in NM : /\ m.reason = "POS_SALE" /\ m.id = txid[w] /\ m.by = "till"
                    /\ m.tenant = r.tenant /\ m.ref = r.number
  BY <1>0, <1>2, LineMoveFields
<1>7. \A m \in TillMoves : m.reason \in {"POS_SALE", "RETURN"} =>
        ~(m.tenant = r.tenant /\ m.ref = r.number)
  BY <1>0, <1>2 DEF MovesInv, Clash, SameNumber
<1> HIDE DEF NM
<1>8. MovesOf(r, "POS_SALE")' = NM /\ MovesOf(r, "RETURN")' = {}
  BY <1>1, <1>6, <1>7 DEF MovesOf, TillMoves
<1>9. \A o \in orders : \A reason : MovesOf(o, reason)' = MovesOf(o, reason)
  BY <1>1, <1>2, OtherMoves, <1>0
<1>10. \A o \in orders' :
         MovesOf(o, "POS_SALE")' = {SaleMove(o, k) : k \in 1..Len(Lines(o))}
  BY <1>3, <1>5, <1>8, <1>9 DEF MovesInv
<1>11. \A o \in orders' : o.status = "REFUNDED" /\ Len(Lines(o)) # 0 =>
         MovesOf(o, "RETURN")' # {}
  BY <1>2, <1>3, <1>9 DEF MovesInv
<1>12. \A o \in orders' : \A m \in MovesOf(o, "RETURN")' :
        {n.line : n \in {q \in MovesOf(o, "RETURN")' : q.id = m.id}}
          = 1..Len(Lines(o))
  BY <1>3, <1>8, <1>9 DEF MovesInv
<1>13. \A v \in Workers : InTx(v)' => \A m \in moves' : m.id # txid'[v]
  <2> SUFFICES ASSUME NEW v \in Workers, InTx(v)'
               PROVE  \A m \in moves' : m.id # txid'[v]
    OBVIOUS
  <2>1. v # w /\ InTx(v) /\ txid'[v] = txid[v]
    BY <1>1 DEF Commits, Keeps
  <2>2. txid[v] # txid[w]
    BY <1>1, <2>1 DEF OrdersInv
  <2> QED
    BY <1>1, <1>6, <2>1, <2>2 DEF MovesInv
<1>14. \A m \in TillMoves' : m.reason = "POS_SALE" =>
         \E o \in orders' : m.tenant = o.tenant /\ m.ref = o.number
  BY <1>1, <1>3, <1>6 DEF MovesInv, TillMoves
<1>15. \A m \in TillMoves' : m.reason = "RETURN" =>
         \E o \in orders' : /\ m.tenant = o.tenant /\ m.ref = o.number
                            /\ o.status = "REFUNDED"
  BY <1>1, <1>3, <1>6 DEF MovesInv, TillMoves
<1> QED
  BY <1>10, <1>11, <1>12, <1>13, <1>14, <1>15 DEF MovesInv, Lines, SaleMove

LEMMA MovesInvRefund ==
  ASSUME PosTypeOK, OrdersInv, MovesInv, NEW w \in Workers, Commits(w),
         todo[w] = <<>>
  PROVE  MovesInv'
<1>0. PICK r : r = row[w]
  OBVIOUS
<1> DEFINE NM == {LineMove(w, k) : k \in 1..line[w]}
<1>1. /\ InTx(w) /\ Publish(w) /\ ~InTx(w)'
      /\ moves' = moves \union NM
      /\ line[w] = Len(Lines(r))
  BY <1>0 DEF Commits, Publish
<1>2. PICK p \in orders : r = Refunded(p)
  BY <1>0, <1>1 DEF OrdersInv
<1>3. /\ r.status = "REFUNDED" /\ r.id = p.id /\ r.uuid = p.uuid
      /\ r.tenant = p.tenant /\ r.number = p.number
  BY <1>0, <1>2, RefundedRow DEF PosTypeOK, DbTypeOK
<1>4. orders' = {o \in orders : o.id # r.id} \union {r}
  BY <1>0, <1>1 DEF Publish
<1>5. \A m \in NM : /\ m.reason = "RETURN" /\ m.id = txid[w] /\ m.by = "till"
                    /\ m.tenant = r.tenant /\ m.ref = r.number
  BY <1>0, <1>3, LineMoveFields
<1>6. {n.line : n \in NM} = 1..line[w]
  <2>1. \A k \in 1..line[w] : LineMove(w, k).line = k
    BY LineMoveFields
  <2> QED
    BY <2>1
<1>7. \A m \in moves : m.id # txid[w]
  BY <1>0, <1>1 DEF MovesInv
<1>8. Lines(r) = Lines(p) /\ \A k : SaleMove(r, k) = SaleMove(p, k)
  BY <1>0, <1>3 DEF Lines, SaleMove
<1>9. row[w] \in OrderRows /\ line[w] \in Nat
  BY <1>0, <1>1, CommittedRows DEF PosTypeOK, LocalTypeOK
<1>10. \A o \in orders : o.id # r.id =>
         \A reason : MovesOf(o, reason)' = MovesOf(o, reason)
  BY <1>0, <1>1, OtherMoves
<1> HIDE DEF NM
<1>11. /\ MovesOf(r, "POS_SALE")' = MovesOf(p, "POS_SALE")
       /\ MovesOf(r, "RETURN")' = MovesOf(p, "RETURN") \union NM
  BY <1>1, <1>3, <1>5 DEF MovesOf, TillMoves
<1>12. \A o \in orders' :
         MovesOf(o, "POS_SALE")' = {SaleMove(o, k) : k \in 1..Len(Lines(o))}
  BY <1>4, <1>8, <1>10, <1>11 DEF MovesInv
<1>13. \A o \in orders' : o.status = "REFUNDED" /\ Len(Lines(o)) # 0 =>
         MovesOf(o, "RETURN")' # {}
  <2>1. Len(Lines(r)) # 0 => NM # {}
    BY <1>1, <1>6, <1>9
  <2> QED
    BY <2>1, <1>4, <1>10, <1>11 DEF MovesInv
<1>14. \A m \in MovesOf(r, "RETURN")' :
        {n.line : n \in {q \in MovesOf(r, "RETURN")' : q.id = m.id}}
          = 1..Len(Lines(r))
  <2> SUFFICES ASSUME NEW m \in MovesOf(r, "RETURN")'
               PROVE  {n.line : n \in {q \in MovesOf(r, "RETURN")' : q.id = m.id}}
                        = 1..Len(Lines(r))
    OBVIOUS
  <2>1. CASE m \in NM
    <3>1. {q \in MovesOf(r, "RETURN")' : q.id = m.id} = NM
      BY <2>1, <1>5, <1>7, <1>11 DEF MovesOf, TillMoves
    <3> QED
      BY <3>1, <1>1, <1>6
  <2>2. CASE m \in MovesOf(p, "RETURN")
    <3>1. m \in moves
      BY <2>2 DEF MovesOf, TillMoves
    <3>2. {q \in MovesOf(r, "RETURN")' : q.id = m.id}
            = {q \in MovesOf(p, "RETURN") : q.id = m.id}
      BY <3>1, <1>5, <1>7, <1>11
    <3> QED
      BY <2>2, <3>2, <1>8 DEF MovesInv
  <2> QED
    BY <1>11, <2>1, <2>2
<1>15. \A o \in orders' : \A m \in MovesOf(o, "RETURN")' :
        {n.line : n \in {q \in MovesOf(o, "RETURN")' : q.id = m.id}}
          = 1..Len(Lines(o))
  BY <1>4, <1>10, <1>14 DEF MovesInv
<1>16. \A v \in Workers : InTx(v)' => \A m \in moves' : m.id # txid'[v]
  <2> SUFFICES ASSUME NEW v \in Workers, InTx(v)'
               PROVE  \A m \in moves' : m.id # txid'[v]
    OBVIOUS
  <2>1. v # w /\ InTx(v) /\ txid'[v] = txid[v]
    BY <1>1 DEF Commits, Keeps
  <2>2. txid[v] # txid[w]
    BY <1>1, <2>1 DEF OrdersInv
  <2> QED
    BY <1>1, <1>5, <2>1, <2>2 DEF MovesInv
<1>17. \A o \in orders : \E q \in orders' : /\ q.tenant = o.tenant
                                            /\ q.number = o.number
                                            /\ o.status = "REFUNDED" => q.status = "REFUNDED"
  <2> SUFFICES ASSUME NEW o \in orders
               PROVE  \E q \in orders' : /\ q.tenant = o.tenant
                                         /\ q.number = o.number
                                         /\ o.status = "REFUNDED" => q.status = "REFUNDED"
    OBVIOUS
  <2>1. CASE o.id = r.id
    <3>1. o = p
      BY <2>1, <1>3 DEF OrdersInv
    <3> QED
      BY <3>1, <1>3, <1>4
  <2>2. CASE o.id # r.id
    BY <2>2, <1>4
  <2> QED
    BY <2>1, <2>2
<1>18. \A m \in TillMoves' : m.reason = "POS_SALE" =>
         \E o \in orders' : m.tenant = o.tenant /\ m.ref = o.number
  BY <1>1, <1>5, <1>17 DEF MovesInv, TillMoves
<1>19. \A m \in TillMoves' : m.reason = "RETURN" =>
         \E o \in orders' : /\ m.tenant = o.tenant /\ m.ref = o.number
                            /\ o.status = "REFUNDED"
  <2> SUFFICES ASSUME NEW m \in TillMoves', m.reason = "RETURN"
               PROVE  \E o \in orders' : /\ m.tenant = o.tenant /\ m.ref = o.number
                                         /\ o.status = "REFUNDED"
    OBVIOUS
  <2>1. CASE m \in NM
    BY <2>1, <1>3, <1>4, <1>5
  <2>2. CASE m \in TillMoves
    <3>1. PICK o \in orders : /\ m.tenant = o.tenant /\ m.ref = o.number
                              /\ o.status = "REFUNDED"
      BY <2>2 DEF MovesInv
    <3> QED
      BY <3>1, <1>17
  <2> QED
    BY <1>1, <2>1, <2>2 DEF TillMoves
<1> QED
  BY <1>12, <1>13, <1>15, <1>16, <1>18, <1>19 DEF MovesInv, Lines, SaleMove

LEMMA MovesInvStep ==
  PosTypeOK /\ OrdersInv /\ MovesInv /\ [PosNext]_vars => MovesInv'
BY StepKinds, MovesInvQuiet, MovesInvBegin, MovesInvSale, MovesInvRefund

LEMMA MovesInvAlways == PosSpec => []MovesInv
<1>1. PosSpec => PosInit /\ [][PosNext]_vars
  BY DEF PosSpec
<1> QED
  BY <1>1, PosTypes, OrdersInvAlways, MovesInvInit, MovesInvStep, PTL

(* Every stored order has taken exactly its lines out of stock, once, and   *)
(* nothing was taken out without an order: no rollback, crash, retry or     *)
(* overlap leaves a move too many or too few.                              *)
THEOREM SalesAndStockAgree == PosSpec => []SaleMovesMatchOrders
<1>1. ASSUME PosTypeOK, MovesInv PROVE SaleMovesMatchOrders
  <2>1. ASSUME NEW o \in orders
        PROVE  /\ Len(Lines(o)) \in Nat
               /\ DOMAIN Lines(o) = 1..Len(Lines(o))
               /\ MovesOf(o, "POS_SALE") = {SaleMove(o, k) : k \in 1..Len(Lines(o))}
    BY <1>1, LinesType DEF PosTypeOK, DbTypeOK, MovesInv
  <2>2. ASSUME NEW o \in orders, NEW k
        PROVE  /\ SaleMove(o, k).line = k
               /\ SaleMove(o, k).product = Lines(o)[k].product
               /\ SaleMove(o, k).qty = Lines(o)[k].qty
               /\ SaleMove(o, k).from = Order[o.uuid].warehouse
    BY DEF SaleMove
  <2>3. ASSUME NEW o \in orders, NEW k \in DOMAIN Lines(o)
        PROVE  \E m \in MovesOf(o, "POS_SALE") :
                 /\ m.product = Lines(o)[k].product
                 /\ m.qty = Lines(o)[k].qty
                 /\ m.from = Order[o.uuid].warehouse
                 /\ \A n \in MovesOf(o, "POS_SALE") : n.line = k <=> n = m
    <3>1. SaleMove(o, k) \in MovesOf(o, "POS_SALE")
      BY <2>1
    <3>2. \A n \in MovesOf(o, "POS_SALE") : n.line = k <=> n = SaleMove(o, k)
      BY <2>1, <2>2
    <3> QED
      BY <3>1, <3>2, <2>2
  <2>4. \A o \in orders : \A m \in MovesOf(o, "POS_SALE") :
          m.line \in DOMAIN Lines(o)
    BY <2>1, <2>2
  <2>5. \A m \in TillMoves : m.reason = "POS_SALE" =>
          \E o \in orders : m \in MovesOf(o, "POS_SALE")
    BY <1>1 DEF MovesInv, MovesOf, TillMoves
  <2> QED
    BY <2>3, <2>4, <2>5 DEF SaleMovesMatchOrders
<1> QED
  BY <1>1, PosTypes, MovesInvAlways, PTL

(* An order is refunded exactly when its goods were returned, and each      *)
(* refund returned all of them.                                            *)
THEOREM RefundsComplete == PosSpec => []RefundsAreWhole
<1>1. ASSUME PosTypeOK, OrdersInv, MovesInv PROVE RefundsAreWhole
  <2>1. \A o \in orders : /\ Lines(o) \in Seq(OrderLines)
                          /\ DOMAIN Lines(o) = 1..Len(Lines(o))
    BY <1>1, LinesType DEF PosTypeOK, DbTypeOK
  <2>2. ASSUME NEW o \in orders, MovesOf(o, "RETURN") # {}
        PROVE  o.status = "REFUNDED"
    <3>1. PICK m \in TillMoves : /\ m.reason = "RETURN"
                             /\ m.tenant = o.tenant /\ m.ref = o.number
      BY <2>2 DEF MovesOf, TillMoves
    <3>2. PICK p \in orders : /\ m.tenant = p.tenant /\ m.ref = p.number
                              /\ p.status = "REFUNDED"
      BY <1>1, <3>1 DEF MovesInv
    <3>3. Clash(p, o)
      BY <3>1, <3>2 DEF Clash, SameNumber
    <3>4. p = o
      BY <1>1, <3>3 DEF OrdersInv
    <3> QED
      BY <3>2, <3>4
  <2>3. ASSUME NEW o \in orders, Lines(o) # <<>>, o.status = "REFUNDED"
        PROVE  MovesOf(o, "RETURN") # {}
    <3>1. Len(Lines(o)) # 0
      BY <2>1, <2>3
    <3> QED
      BY <1>1, <2>3, <3>1 DEF MovesInv
  <2>4. \A o \in orders : \A m \in MovesOf(o, "RETURN") :
          {n.line : n \in {r \in MovesOf(o, "RETURN") : r.id = m.id}}
            = DOMAIN Lines(o)
    BY <1>1, <2>1 DEF MovesInv
  <2> QED
    BY <2>2, <2>3, <2>4 DEF RefundsAreWhole
<1> QED
  BY <1>1, PosTypes, OrdersInvAlways, MovesInvAlways, PTL

-----------------------------------------------------------------------------
(* What devices and the workflow engine are told.                          *)

\* A good answer names a stored order.
Good(a) ==
  a.outcome = "ok" => \E o \in orders : o.id = a.order /\ o.uuid = a.uuid

\* Answers, given or collected, are good; a sale under way or announced is
\* of the order the worker handles; and events are of stored orders, each once.
ToldInv ==
  /\ \A a \in answers : Good(a)
  /\ \A w \in Workers : \A a \in results[w] : Good(a)
  /\ \A w \in Workers : InTx(w) /\ todo[w] # <<>> => row[w].uuid = Current(w)
  /\ \A w \in Workers : pc[w] = "emit" =>
       /\ row[w].uuid = Current(w)
       /\ \E o \in orders : o.id = row[w].id /\ o.uuid = row[w].uuid
       /\ \A i \in DOMAIN events : events[i] # row[w].id
  /\ \A v, w \in Workers : v # w /\ pc[v] = "emit" /\ pc[w] = "emit" =>
       row[v].id # row[w].id
  /\ EventsOncePerOrder

LEMMA OrdersStay ==
  ASSUME PosTypeOK, OrdersInv, [PosNext]_vars
  PROVE  \A o \in orders : \E p \in orders' : p.id = o.id /\ p.uuid = o.uuid
<1>1. CASE orders' = orders
  BY <1>1
<1>2. CASE \E w \in Workers : Commits(w)
  BY <1>2, CommittedRows DEF Commits
<1>3. ASSUME NEW w \in Workers, Insert(w) \/ MarkRefunded(w) PROVE orders' = orders
  BY <1>3 DEF Insert, MarkRefunded, db
<1> QED
  BY <1>1, <1>2, <1>3, StepKinds DEF Quiet

LEMMA GoodStays ==
  ASSUME PosTypeOK, OrdersInv, [PosNext]_vars, NEW a, Good(a) PROVE Good(a)'
BY OrdersStay DEF Good

\* The good answers a step adds to those collected.
Collects(w) ==
  \A v \in Workers : \A a \in results'[v] :
    \/ a \in results[v]
    \/ a.outcome # "ok"
    \/ /\ v = w /\ a.uuid = Current(w)
       /\ \/ Emit(w) /\ a.order = row[w].id
          \/ \E o \in orders : o.uuid = Current(w) /\ o.id = a.order

\* The workers that are about to announce an order.
Announces(v) ==
  pc'[v] = "emit" =>
    \/ pc[v] = "emit" /\ row'[v] = row[v] /\ todo'[v] = todo[v]
    \/ CommitSale(v)

Given ==
  \A a \in answers' : a \in answers \/ \E w \in Workers : a \in results[w]

Tells(w) ==
  /\ Given
  /\ Collects(w)
  /\ \A v \in Workers : Announces(v)
  /\ events' = events \/ Emit(w)

LEMMA SettleTells ==
  ASSUME PosTypeOK, NEW w \in Workers, NEW order, NEW outcome,
         Settle(w, order, outcome), UNCHANGED answers,
         events' = events \/ Emit(w),
         \/ outcome # "ok"
         \/ Emit(w) /\ order = row[w].id
         \/ \E o \in orders : o.uuid = Current(w) /\ o.id = order,
         \A v \in Workers \ {w} : row'[v] = row[v]
  PROVE  Tells(w)
<1> DEFINE a == [uuid |-> Current(w), order |-> order, outcome |-> outcome]
<1>1. a.uuid = Current(w) /\ a.order = order /\ a.outcome = outcome
  OBVIOUS
<1>2. results' = [results EXCEPT ![w] = results[w] \union {a}]
  BY DEF Settle
<1>3. results \in [Workers -> SUBSET Answers]
  BY DEF PosTypeOK, LocalTypeOK
<1> HIDE DEF a
<1>4. \A v \in Workers : \A b \in results'[v] :
        b \in results[v] \/ (v = w /\ b = a)
  BY <1>2, <1>3
<1>5. Collects(w)
  BY <1>1, <1>4 DEF Collects
<1>6. ASSUME NEW v \in Workers PROVE Announces(v)
  <2>1. pc'[w] # "emit"
    BY DEF Settle, PosTypeOK, LocalTypeOK
  <2>2. v # w => pc'[v] = pc[v] /\ todo'[v] = todo[v]
    BY DEF Settle, PosTypeOK, LocalTypeOK
  <2> QED
    BY <2>1, <2>2 DEF Announces
<1> QED
  BY <1>5, <1>6 DEF Tells, Given

LEMMA TellsStep ==
  ASSUME PosTypeOK, PosNext
  PROVE  \/ \E w \in Workers : Tells(w)
         \/ UNCHANGED <<answers, results, events, pc, row, todo>>
<1>0. /\ pc \in [Workers -> Awaits] /\ results \in [Workers -> SUBSET Answers]
      /\ row \in [Workers -> Nullable(OrderRows)] /\ todo \in [Workers -> Seq(Uuids)]
  BY DEF PosTypeOK, LocalTypeOK
<1>1. ASSUME NEW w \in Workers, UNCHANGED <<answers, results, events>>,
             \A v \in Workers : Announces(v)
      PROVE  Tells(w)
  BY <1>1 DEF Tells, Given, Collects
<1>2. ASSUME NEW w \in Workers, Step(w) PROVE Tells(w)
  <2>1. CASE LookupFound(w)
    BY <2>1, SettleTells DEF LookupFound, Stored, Visible, world
  <2>2. CASE RejectUnderpaid(w)
    BY <2>2, SettleTells DEF RejectUnderpaid, world
  <2>3. CASE LookupMiss(w)
    BY <1>0, <1>1, <2>3 DEF LookupMiss, world, Announces
  <2>4. CASE Count(w)
    BY <1>0, <1>1, <2>4 DEF Count, world, Announces
  <2>5. CASE InsertDuplicate(w)
    BY <2>5, SettleTells DEF InsertDuplicate, world
  <2>6. CASE InsertNoSession(w)
    BY <2>6, SettleTells DEF InsertNoSession, world
  <2>7. CASE WriteLine(w)
    BY <1>0, <1>1, <2>7 DEF WriteLine, world, Announces
  <2>8. CASE CommitSale(w)
    BY <1>0, <1>1, <2>8 DEF CommitSale, world, locals, Announces
  <2>9. CASE Emit(w)
    BY <1>0, <2>9, SettleTells DEF Emit, EndTx
  <2>10. CASE Respond(w)
    BY <1>0, <2>10 DEF Respond, Tells, Given, Collects, Announces
  <2>11. CASE CommitRefund(w)
    BY <1>0, <1>1, <2>11 DEF CommitRefund, EndTx, world, Announces
  <2>12. CASE Insert(w)
    BY <1>0, <1>1, <2>12 DEF Insert, world, Announces
  <2>13. CASE MarkRefunded(w)
    BY <1>0, <1>1, <2>13 DEF MarkRefunded, world, Announces
  <2> QED
    BY <1>2, <2>1, <2>2, <2>3, <2>4, <2>5, <2>6, <2>7, <2>8, <2>9, <2>10, <2>11,
       <2>12, <2>13 DEF Step
<1>3. ASSUME NEW w \in Workers, Throw(w), EndTx(w),
             UNCHANGED <<answers, events>>
      PROVE  Tells(w)
  <2>1. \A v \in Workers \ {w} : row'[v] = row[v]
    BY <1>0, <1>3 DEF EndTx
  <2>2. CASE todo[w] # <<>> /\ Settle(w, None, "failed")
    BY <1>3, <2>1, <2>2, SettleTells
  <2>3. CASE pc' = [pc EXCEPT ![w] = "idle"] /\ UNCHANGED <<todo, results, yr, cnt>>
    BY <1>0, <1>1, <1>3, <2>1, <2>3 DEF Announces
  <2> QED
    BY <1>3, <2>2, <2>3 DEF Throw
<1>4. ASSUME NEW w \in Workers, Failure(w) PROVE Tells(w)
  <2>1. CASE LoseResponse(w)
    BY <1>0, <2>1 DEF LoseResponse, Tells, Given, Collects, Announces
  <2> QED
    BY <1>3, <1>4, <2>1 DEF Failure, Fail, CommitUnconfirmed
<1>5. ASSUME NEW w \in Workers, StartRefund(w) PROVE Tells(w)
  BY <1>0, <1>1, <1>5 DEF StartRefund, Announces
<1>6. ASSUME NEW w \in Workers, NEW batch \in Batches, Submit(w, batch)
      PROVE  Tells(w)
  BY <1>0, <1>6 DEF Submit, world, Tells, Given, Collects, Announces
<1>7. ASSUME Crash PROVE \E w \in Workers : Tells(w)
  BY <1>0, <1>7 DEF Crash, Tells, Given, Collects, Announces
<1>8. CASE \/ \E s \in Sessions : OpenSession(s) \/ CloseSession(s)
           \/ NewYear \/ StockMove
  BY <1>8 DEF OpenSession, CloseSession, NewYear, StockMove, locals, world
<1> QED
  BY <1>2, <1>4, <1>5, <1>6, <1>7, <1>8 DEF PosNext

LEMMA AnswersStep ==
  ASSUME PosTypeOK, OrdersInv, ToldInv, PosNext
  PROVE  /\ \A a \in answers' : Good(a)'
         /\ \A w \in Workers : \A a \in results'[w] : Good(a)'
<1>1. CASE UNCHANGED <<answers, results, events, pc, row, todo>>
  BY <1>1, GoodStays DEF ToldInv
<1>2. ASSUME NEW w \in Workers, Tells(w)
      PROVE  /\ \A a \in answers' : Good(a)'
             /\ \A v \in Workers : \A a \in results'[v] : Good(a)'
  <2>1. ASSUME NEW a \in answers' PROVE Good(a)'
    <3>1. Good(a)
      BY <1>2, <2>1 DEF Tells, Given, ToldInv
    <3> QED
      BY <3>1, GoodStays
  <2>2. ASSUME NEW v \in Workers, NEW a \in results'[v] PROVE Good(a)'
    <3>1. CASE a \in results[v] \/ a.outcome # "ok"
      <4>1. Good(a)
        BY <3>1 DEF ToldInv, Good
      <4> QED
        BY <4>1, GoodStays
    <3>2. CASE Emit(w) /\ a.order = row[w].id /\ a.uuid = Current(w)
      <4>1. Good(a)
        BY <3>2 DEF Emit, ToldInv, Good
      <4> QED
        BY <4>1, GoodStays
    <3>3. CASE \E o \in orders : o.uuid = a.uuid /\ o.id = a.order
      <4>1. Good(a)
        BY <3>3 DEF Good
      <4> QED
        BY <4>1, GoodStays
    <3> QED
      BY <1>2, <2>2, <3>1, <3>2, <3>3 DEF Tells, Collects
  <2> QED
    BY <2>1, <2>2
<1> QED
  BY <1>1, <1>2, TellsStep

\* A transaction that inserts an order inserts the one the worker handles.
LEMMA SaleIsCurrent ==
  ASSUME PosTypeOK, ToldInv, PosNext, NEW w \in Workers, InTx(w)',
         todo'[w] # <<>>
  PROVE  row'[w].uuid = Head(todo'[w])
<1>1. CASE Keeps(w)
  BY <1>1 DEF Keeps, ToldInv, Current
<1>2. ASSUME NEW v \in Workers, Insert(v) PROVE row'[w].uuid = Head(todo'[w])
  <2>1. CASE v = w
    <3> DEFINE n == NewRow(w, Current(w))
    <3>1. n.uuid = Head(todo[w])
      BY DEF NewRow, Current
    <3>2. row' = [row EXCEPT ![w] = n] /\ todo' = todo
      BY <1>2, <2>1 DEF Insert
    <3> HIDE DEF n
    <3> QED
      BY <3>1, <3>2 DEF PosTypeOK, LocalTypeOK
  <2>2. CASE v # w
    <3>1. Keeps(w)
      BY <1>2, <2>2 DEF Insert, Keeps, InTx, PosTypeOK, LocalTypeOK
    <3> QED
      BY <1>1, <3>1
  <2> QED
    BY <2>1, <2>2
<1>3. ASSUME NEW v \in Workers, MarkRefunded(v) PROVE row'[w].uuid = Head(todo'[w])
  <2>1. todo[v] = <<>> /\ todo' = todo
    BY <1>3 DEF MarkRefunded, PosTypeOK, WorkerOK
  <2>2. Keeps(w)
    BY <1>3, <2>1 DEF MarkRefunded, Keeps, InTx, PosTypeOK, LocalTypeOK
  <2> QED
    BY <1>1, <2>2
<1>4. ASSUME NEW v \in Workers, Commits(v) PROVE row'[w].uuid = Head(todo'[w])
  BY <1>1, <1>4 DEF Commits
<1> QED
  BY <1>1, <1>2, <1>3, <1>4, StepKinds DEF Quiet

\* What is announced next is stored, and was not announced before.
LEMMA AnnounceStep ==
  ASSUME PosTypeOK, OrdersInv, ToldInv, PosNext,
         NEW w \in Workers, pc'[w] = "emit"
  PROVE  /\ row'[w].uuid = Head(todo'[w])
         /\ \E o \in orders' : o.id = row'[w].id /\ o.uuid = row'[w].uuid
         /\ \A i \in DOMAIN events' : events'[i] # row'[w].id
<1>0. events \in Seq(RowIds) /\ row \in [Workers -> Nullable(OrderRows)]
  BY DEF PosTypeOK, DbTypeOK, LocalTypeOK
<1>1. CASE pc[w] = "emit" /\ row'[w] = row[w] /\ todo'[w] = todo[w]
  <2>1. /\ row'[w].uuid = Head(todo'[w])
        /\ \E o \in orders' : o.id = row'[w].id /\ o.uuid = row'[w].uuid
    BY <1>1, OrdersStay DEF ToldInv, Current
  <2>2. CASE events' = events
    BY <1>1, <2>1, <2>2 DEF ToldInv
  <2>3. ASSUME NEW v \in Workers, Emit(v)
        PROVE  \A i \in DOMAIN events' : events'[i] # row'[w].id
    <3>1. pc[v] = "emit" /\ pc'[v] # "emit" /\ row[v].id \in RowIds
      BY <2>3 DEF Emit, Settle, PosTypeOK, LocalTypeOK, WorkerOK, OrderRows
    <3>2. row[v].id # row[w].id
      BY <1>1, <3>1 DEF ToldInv
    <3>3. events' = Append(events, row[v].id)
      BY <2>3 DEF Emit
    <3>4. \A i \in DOMAIN events' : \/ events'[i] = row[v].id
                                    \/ i \in DOMAIN events /\ events'[i] = events[i]
      BY <1>0, <3>1, <3>3
    <3> QED
      BY <1>1, <3>2, <3>4 DEF ToldInv
  <2> QED
    BY <2>1, <2>2, <2>3, TellsStep DEF Tells
<1>2. CASE CommitSale(w)
  <2>1. /\ Publish(w) /\ InTx(w) /\ todo[w] # <<>>
        /\ row' = row /\ todo' = todo /\ events' = events
    BY <1>2 DEF CommitSale, Publish, locals, world
  <2>2. row[w].uuid = Current(w)
    BY <2>1 DEF ToldInv
  <2>3. row[w] \in orders'
    BY <2>1, CommittedRows
  <2>4. \A o \in orders : o.id # row[w].id
    BY <2>1 DEF OrdersInv
  <2>5. \A i \in DOMAIN events : events[i] # row[w].id
    BY <2>4 DEF ToldInv, EventsOncePerOrder
  <2> QED
    BY <2>1, <2>2, <2>3, <2>5 DEF Current
<1>3. Announces(w)
  BY TellsStep DEF Tells, Announces
<1> QED
  BY <1>1, <1>2, <1>3 DEF Announces

LEMMA AnnouncedApart ==
  ASSUME PosTypeOK, OrdersInv, ToldInv, PosNext,
         NEW v \in Workers, NEW w \in Workers, v # w,
         pc'[v] = "emit", pc'[w] = "emit"
  PROVE  row'[v].id # row'[w].id
<1>0. Announces(v) /\ Announces(w)
  BY TellsStep DEF Tells, Announces
<1>1. ASSUME NEW x \in Workers, NEW y \in Workers, x # y, CommitSale(x),
             pc'[y] = "emit", Announces(y)
      PROVE  row'[x].id # row'[y].id
  <2>1. /\ InTx(x) /\ todo[x] # <<>> /\ row' = row
        /\ pc' = [pc EXCEPT ![x] = "emit"]
    BY <1>1 DEF CommitSale, Publish, locals
  <2>2. pc[y] = "emit"
    BY <1>1, <2>1 DEF PosTypeOK, LocalTypeOK
  <2>3. PICK o \in orders : o.id = row[y].id
    BY <2>2 DEF ToldInv
  <2>4. o.id # row[x].id
    BY <2>1 DEF OrdersInv
  <2> QED
    BY <2>1, <2>3, <2>4
<1>2. CASE /\ pc[v] = "emit" /\ row'[v] = row[v]
           /\ pc[w] = "emit" /\ row'[w] = row[w]
  BY <1>2 DEF ToldInv
<1> QED
  BY <1>0, <1>1, <1>2 DEF Announces

LEMMA EventsStep ==
  ASSUME PosTypeOK, OrdersInv, ToldInv, PosNext PROVE EventsOncePerOrder'
<1>0. events \in Seq(RowIds) /\ EventsOncePerOrder
  BY DEF PosTypeOK, DbTypeOK, ToldInv
<1>1. CASE events' = events
  BY <1>0, <1>1, OrdersStay DEF EventsOncePerOrder
<1>2. ASSUME NEW w \in Workers, Emit(w) PROVE EventsOncePerOrder'
  <2> DEFINE x == row[w].id
  <2>1. pc[w] = "emit" /\ x \in RowIds /\ events' = Append(events, x)
    BY <1>2 DEF Emit, PosTypeOK, WorkerOK, OrderRows
  <2>2. /\ \E o \in orders : o.id = x
        /\ \A i \in DOMAIN events : events[i] # x
    BY <2>1 DEF ToldInv
  <2> HIDE DEF x
  <2>3. /\ DOMAIN events' = DOMAIN events \union {Len(events) + 1}
        /\ \A i \in DOMAIN events : events'[i] = events[i]
        /\ events'[Len(events) + 1] = x
    BY <1>0, <2>1
  <2>4. \A i \in DOMAIN events' : \E o \in orders : o.id = events'[i]
    BY <1>0, <2>2, <2>3 DEF EventsOncePerOrder
  <2>5. \A i \in DOMAIN events' : \E o \in orders' : o.id = events'[i]
    BY <2>4, OrdersStay
  <2>6. \A i, j \in DOMAIN events' : events'[i] = events'[j] => i = j
    BY <1>0, <2>2, <2>3 DEF EventsOncePerOrder
  <2> QED
    BY <2>5, <2>6 DEF EventsOncePerOrder
<1> QED
  BY <1>1, <1>2, TellsStep DEF Tells

LEMMA ToldInit == PosInit => ToldInv
<1> SUFFICES ASSUME PosInit PROVE ToldInv
  OBVIOUS
<1>1. EventsOncePerOrder
  BY DEF PosInit, EventsOncePerOrder
<1> QED
  BY <1>1 DEF PosInit, ToldInv, InTx, Good

LEMMA ToldStep ==
  PosTypeOK /\ OrdersInv /\ ToldInv /\ [PosNext]_vars => ToldInv'
<1>1. ASSUME PosTypeOK, OrdersInv, ToldInv, PosNext PROVE ToldInv'
  <2>1. \A w \in Workers : (InTx(w) /\ todo[w] # <<>> => row[w].uuid = Current(w))'
    BY <1>1, SaleIsCurrent DEF Current
  <2>2. \A w \in Workers : (pc[w] = "emit" =>
          /\ row[w].uuid = Current(w)
          /\ \E o \in orders : o.id = row[w].id /\ o.uuid = row[w].uuid
          /\ \A i \in DOMAIN events : events[i] # row[w].id)'
    BY <1>1, AnnounceStep DEF Current
  <2>3. \A v, w \in Workers :
          (v # w /\ pc[v] = "emit" /\ pc[w] = "emit" => row[v].id # row[w].id)'
    BY <1>1, AnnouncedApart
  <2> QED
    BY <1>1, <2>1, <2>2, <2>3, AnswersStep, EventsStep DEF ToldInv
<1>2. ASSUME ToldInv, UNCHANGED vars PROVE ToldInv'
  BY <1>2 DEF ToldInv, EventsOncePerOrder, InTx, Good, Current, vars, db,
              locals, world
<1> QED
  BY <1>1, <1>2

LEMMA ToldAlways == PosSpec => []ToldInv
BY PosTypes, OrdersInvAlways, ToldInit, ToldStep, PTL DEF PosSpec

(* A device that is told "ok" holds the id of the stored order, however    *)
(* its attempts overlap and fail (submitOrder, syncBatch).                 *)
THEOREM AnswersAreTrue == PosSpec => []OkIsTheStoredOrder
<1>1. ToldInv => OkIsTheStoredOrder
  BY DEF ToldInv, OkIsTheStoredOrder, Good
<1> QED
  BY <1>1, ToldAlways, PTL

(* pos.order.created is emitted for stored orders only, and at most once   *)
(* for each, although retries find the order again (submitOrder).          *)
THEOREM AnnouncedOnce == PosSpec => []EventsOncePerOrder
<1>1. ToldInv => EventsOncePerOrder
  BY DEF ToldInv
<1> QED
  BY <1>1, ToldAlways, PTL

-----------------------------------------------------------------------------
(* The number the next order would get is free.                            *)

\* No order of any device is backdated.
Undated == \A u \in Uuids : Order[u].year = None

\* What a scoped request of tenant t counts in table S for year y.
Rows(S, t, y) == {o \in S : o.tenant = t /\ o.year >= y}

CountIn(S, t, y) == Cardinality(Rows(S, t, y))

\* No number, stored or held by a transaction, is beyond the count of its
\* year; requests are scoped, and number in a year that has begun.
NumberingInv ==
  /\ \A o \in orders : o.number.seq <= CountIn(orders, o.tenant, o.number.year)
  /\ \A w \in Workers : todo[w] # <<>> => scoped[w] = TRUE
  /\ \A w \in Workers : yr[w] <= year
  /\ \A w \in Workers : pc[w] = "insert" =>
       cnt[w] <= CountIn(orders, Order[Head(todo[w])].tenant, yr[w])
  /\ \A w \in Workers : InTx(w) /\ todo[w] # <<>> =>
       /\ row[w].number.seq
            <= CountIn(orders, row[w].tenant, row[w].number.year) + 1
       /\ row[w].number.year <= row[w].year

LEMMA CountedRows ==
  ASSUME NEW t, NEW y
  PROVE  Counted(t, TRUE, y) = Rows(orders, t, y)
BY DEF Counted, Visible, Rows

LEMMA CountType ==
  ASSUME NEW S, IsFiniteSet(S), NEW t, NEW y
  PROVE  IsFiniteSet(Rows(S, t, y)) /\ CountIn(S, t, y) \in Nat
BY FS_Subset, FS_CardinalityType DEF Rows, CountIn

\* A refund replaces a row by one that is counted where it was.
LEMMA ReplacedRow ==
  ASSUME NEW S, IsFiniteSet(S), NEW p \in S, NEW r, NEW t, NEW y,
         r.tenant = p.tenant, r.year = p.year, r \notin S \ {p}
  PROVE  CountIn((S \ {p}) \union {r}, t, y) = CountIn(S, t, y)
<1> DEFINE C == Rows(S, t, y)
           D == Rows((S \ {p}) \union {r}, t, y)
<1>1. IsFiniteSet(C) /\ Cardinality(C) \in Nat
  BY CountType DEF CountIn
<1>2. CASE p \in C
  <2>1. D = (C \ {p}) \union {r} /\ r \notin C \ {p}
    BY <1>2 DEF Rows
  <2>2. IsFiniteSet(C \ {p}) /\ Cardinality(C \ {p}) = Cardinality(C) - 1
    BY <1>1, <1>2, FS_RemoveElement
  <2>3. Cardinality(D) = Cardinality(C \ {p}) + 1
    BY <2>1, <2>2, FS_AddElement
  <2> QED
    BY <1>1, <2>2, <2>3 DEF CountIn
<1>3. CASE p \notin C
  <2>1. D = C
    BY <1>3 DEF Rows
  <2> QED
    BY <2>1 DEF CountIn
<1> QED
  BY <1>2, <1>3

\* A sale adds one to the counts of its tenant up to its year.
LEMMA AddedRow ==
  ASSUME NEW S, IsFiniteSet(S), NEW r, r \notin S, NEW t, NEW y
  PROVE  CountIn(S \union {r}, t, y)
           = CountIn(S, t, y) + (IF r.tenant = t /\ r.year >= y THEN 1 ELSE 0)
<1> DEFINE C == Rows(S, t, y)
           D == Rows(S \union {r}, t, y)
<1>1. IsFiniteSet(C) /\ Cardinality(C) \in Nat
  BY CountType DEF CountIn
<1>2. CASE r.tenant = t /\ r.year >= y
  <2>1. D = C \union {r} /\ r \notin C
    BY <1>2 DEF Rows
  <2>2. Cardinality(D) = Cardinality(C) + 1
    BY <1>1, <2>1, FS_AddElement
  <2> QED
    BY <1>2, <2>2 DEF CountIn
<1>3. CASE ~(r.tenant = t /\ r.year >= y)
  <2>1. D = C
    BY <1>3 DEF Rows
  <2> QED
    BY <1>1, <1>3, <2>1 DEF CountIn
<1> QED
  BY <1>2, <1>3

LEMMA OrdersFinite == PosTypeOK => IsFiniteSet(orders)
BY DEF PosTypeOK, DbTypeOK

LEMMA RefundKeepsCounts ==
  ASSUME PosTypeOK, OrdersInv, NEW w \in Workers, Publish(w), todo[w] = <<>>,
         NEW t, NEW y
  PROVE  CountIn(orders', t, y) = CountIn(orders, t, y)
<1>1. PICK p \in orders : row[w] = Refunded(p)
  BY DEF Publish, OrdersInv
<1>2. PICK r : r = row[w]
  OBVIOUS
<1>3. r.id = p.id /\ r.tenant = p.tenant /\ r.year = p.year
  BY <1>1, <1>2 DEF PosTypeOK, DbTypeOK, OrderRows, Refunded
<1>4. \A o \in orders : o.id = r.id => o = p
  BY <1>3 DEF OrdersInv
<1>5. orders' = (orders \ {p}) \union {r} /\ r \notin orders \ {p}
  BY <1>2, <1>3, <1>4 DEF Publish
<1>6. PICK S : S = orders
  OBVIOUS
<1>7. CountIn((S \ {p}) \union {r}, t, y) = CountIn(S, t, y)
  BY <1>3, <1>5, <1>6, OrdersFinite, ReplacedRow
<1> QED
  BY <1>5, <1>6, <1>7

LEMMA SaleCounts ==
  ASSUME PosTypeOK, OrdersInv, NEW w \in Workers, Publish(w), todo[w] # <<>>,
         NEW t, NEW y
  PROVE  CountIn(orders', t, y) = CountIn(orders, t, y)
           + (IF row[w].tenant = t /\ row[w].year >= y THEN 1 ELSE 0)
<1>1. PICK S, r : S = orders /\ r = row[w]
  OBVIOUS
<1>2. orders' = S \union {r} /\ r \notin S
  BY <1>1 DEF Publish, OrdersInv
<1>3. IsFiniteSet(S)
  BY <1>1, OrdersFinite
<1>4. CountIn(S \union {r}, t, y)
        = CountIn(S, t, y) + (IF r.tenant = t /\ r.year >= y THEN 1 ELSE 0)
  BY <1>2, <1>3, AddedRow
<1> QED
  BY <1>1, <1>2, <1>4

\* Nothing that happens makes a count smaller.
LEMMA CountsGrow ==
  ASSUME PosTypeOK, OrdersInv, [PosNext]_vars, NEW t, NEW y
  PROVE  /\ CountIn(orders, t, y) \in Nat /\ CountIn(orders', t, y) \in Nat
         /\ CountIn(orders, t, y) <= CountIn(orders', t, y)
<1>0. CountIn(orders, t, y) \in Nat /\ CountIn(orders', t, y) \in Nat
  <2>1. IsFiniteSet(orders) /\ IsFiniteSet(orders')
    BY TypeStep, OrdersFinite DEF PosTypeOK, DbTypeOK
  <2> QED
    BY <2>1, CountType
<1>1. CASE orders' = orders
  BY <1>0, <1>1
<1>2. ASSUME NEW w \in Workers, Commits(w)
      PROVE  CountIn(orders, t, y) <= CountIn(orders', t, y)
  <2>1. CASE todo[w] = <<>>
    BY <1>0, <1>2, <2>1, RefundKeepsCounts DEF Commits
  <2>2. CASE todo[w] # <<>>
    <3>1. CountIn(orders', t, y) = CountIn(orders, t, y)
            + (IF row[w].tenant = t /\ row[w].year >= y THEN 1 ELSE 0)
      BY <1>2, <2>2, SaleCounts DEF Commits
    <3> QED
      BY <1>0, <3>1
  <2> QED
    BY <2>1, <2>2
<1>3. ASSUME NEW w \in Workers, Insert(w) \/ MarkRefunded(w) PROVE orders' = orders
  BY <1>3 DEF Insert, MarkRefunded, db
<1> QED
  BY <1>0, <1>1, <1>2, <1>3, StepKinds DEF Quiet

\* Requests stay scoped, and reach the insert by their own count only.
Numbered(v) ==
  /\ todo'[v] # <<>> => scoped'[v] = TRUE
  /\ yr'[v] <= year'
  /\ pc'[v] = "insert" =>
       \/ Count(v)
       \/ /\ pc[v] = "insert" /\ todo'[v] = todo[v]
          /\ yr'[v] = yr[v] /\ cnt'[v] = cnt[v]

LEMMA SettleNumbered ==
  ASSUME PosTypeOK, NumberingInv, NEW w \in Workers, NEW order, NEW outcome,
         Settle(w, order, outcome), todo[w] # <<>>, UNCHANGED <<scoped, year>>,
         NEW v \in Workers
  PROVE  Numbered(v)
<1>0. /\ todo[v] # <<>> => scoped[v] = TRUE
      /\ todo[w] # <<>> => scoped[w] = TRUE
      /\ yr[v] <= year
  BY DEF NumberingInv
<1>1. /\ yr'[v] = IF v = w THEN 0 ELSE yr[v]
      /\ cnt'[v] = IF v = w THEN 0 ELSE cnt[v]
      /\ pc'[w] # "insert"
      /\ v # w => pc'[v] = pc[v] /\ todo'[v] = todo[v]
  BY DEF Settle, PosTypeOK, LocalTypeOK
<1>2. 0 <= year
  BY DEF PosTypeOK, DbTypeOK
<1> QED
  BY <1>0, <1>1, <1>2 DEF Numbered

LEMMA NumberedStep ==
  ASSUME Headers = {TRUE}, PosTypeOK, NumberingInv, [PosNext]_vars,
         NEW v \in Workers
  PROVE  Numbered(v)
<1>0. /\ pc \in [Workers -> Awaits] /\ todo \in [Workers -> Seq(Uuids)]
      /\ yr \in [Workers -> Nat] /\ cnt \in [Workers -> Nat]
      /\ scoped \in [Workers -> BOOLEAN] /\ year \in Nat
      /\ todo[v] # <<>> => scoped[v] = TRUE
      /\ yr[v] <= year
  BY DEF PosTypeOK, DbTypeOK, LocalTypeOK, NumberingInv
<1>1. \A w \in Workers : /\ pc[w] \in {"lookup", "count", "insert", "emit"} =>
                              todo[w] # <<>>
                         /\ pc[w] \in {"idle", "respond", "update"} =>
                              todo[w] = <<>>
  BY DEF PosTypeOK, WorkerOK
<1>2. CASE /\ UNCHANGED <<pc, todo, yr, cnt, scoped>>
           /\ year' \in Nat /\ year' >= year
  BY <1>0, <1>2 DEF Numbered
<1>3. ASSUME NEW w \in Workers, Step(w) PROVE Numbered(v)
  <2>1. CASE LookupFound(w)
    BY <1>1, <2>1, SettleNumbered DEF LookupFound, world
  <2>2. CASE RejectUnderpaid(w)
    BY <1>1, <2>2, SettleNumbered DEF RejectUnderpaid, world
  <2>3. CASE LookupMiss(w)
    BY <1>0, <2>3 DEF LookupMiss, world, Numbered
  <2>4. CASE Count(w)
    BY <1>0, <2>4 DEF Count, world, Numbered
  <2>5. CASE Insert(w)
    BY <1>0, <2>5 DEF Insert, world, Numbered
  <2>6. CASE InsertDuplicate(w)
    BY <1>1, <2>6, SettleNumbered DEF InsertDuplicate, world
  <2>7. CASE InsertNoSession(w)
    BY <1>1, <2>7, SettleNumbered DEF InsertNoSession, world
  <2>8. CASE WriteLine(w)
    BY <1>0, <1>2, <2>8 DEF WriteLine, world
  <2>9. CASE CommitSale(w)
    BY <1>0, <2>9 DEF CommitSale, locals, world, Numbered
  <2>10. CASE Emit(w)
    BY <1>1, <2>10, SettleNumbered DEF Emit
  <2>11. CASE Respond(w)
    BY <1>0, <1>1, <2>11 DEF Respond, Numbered
  <2>12. CASE MarkRefunded(w)
    BY <1>0, <2>12 DEF MarkRefunded, world, Numbered
  <2>13. CASE CommitRefund(w)
    BY <1>0, <2>13 DEF CommitRefund, world, Numbered
  <2> QED
    BY <1>3, <2>1, <2>2, <2>3, <2>4, <2>5, <2>6, <2>7, <2>8, <2>9, <2>10, <2>11,
       <2>12, <2>13 DEF Step
<1>4. ASSUME NEW w \in Workers, Throw(w), UNCHANGED <<scoped, year>>
      PROVE  Numbered(v)
  <2>1. CASE todo[w] # <<>> /\ Settle(w, None, "failed")
    BY <1>4, <2>1, SettleNumbered
  <2>2. CASE pc' = [pc EXCEPT ![w] = "idle"] /\ UNCHANGED <<todo, results, yr, cnt>>
    BY <1>0, <1>4, <2>2 DEF Numbered
  <2> QED
    BY <1>4, <2>1, <2>2 DEF Throw
<1>5. ASSUME NEW w \in Workers, Failure(w) PROVE Numbered(v)
  <2>1. CASE LoseResponse(w)
    BY <1>0, <1>1, <2>1 DEF LoseResponse, Numbered
  <2> QED
    BY <1>4, <1>5, <2>1 DEF Failure, Fail, CommitUnconfirmed
<1>6. ASSUME NEW w \in Workers, StartRefund(w) PROVE Numbered(v)
  BY <1>0, <1>6 DEF StartRefund, Numbered
<1>7. ASSUME NEW w \in Workers, NEW batch \in Batches, Submit(w, batch)
      PROVE  Numbered(v)
  <2>1. scoped' = [scoped EXCEPT ![w] = TRUE]
    BY <1>7 DEF Submit
  <2> QED
    BY <1>0, <1>7, <2>1 DEF Submit, world, Numbered
<1>8. CASE Crash
  BY <1>0, <1>8 DEF Crash, Numbered
<1>9. ASSUME NEW s \in Sessions, OpenSession(s) \/ CloseSession(s)
      PROVE  Numbered(v)
  BY <1>0, <1>2, <1>9 DEF OpenSession, CloseSession, locals, world
<1>10. CASE NewYear
  BY <1>0, <1>2, <1>10 DEF NewYear, locals
<1>11. CASE StockMove
  BY <1>0, <1>2, <1>11 DEF StockMove, locals, world
<1>12. CASE UNCHANGED vars
  BY <1>0, <1>2, <1>12 DEF vars, locals, world
<1> QED
  BY <1>3, <1>5, <1>6, <1>7, <1>8, <1>9, <1>10, <1>11, <1>12 DEF PosNext

\* A count that was made, and is not yet used, is not beyond the count now.
LEMMA CountedStep ==
  ASSUME Headers = {TRUE}, PosTypeOK, OrdersInv, NumberingInv, [PosNext]_vars,
         NEW v \in Workers, pc'[v] = "insert"
  PROVE  cnt'[v] <= CountIn(orders', Order[Head(todo'[v])].tenant, yr'[v])
<1>1. PICK t, y : t = Order[Head(todo'[v])].tenant /\ y = yr'[v]
  OBVIOUS
<1>2. CASE Count(v)
  <2>1. scoped[v] = TRUE
    BY <1>2 DEF Count, NumberingInv, PosTypeOK, WorkerOK
  <2>2. /\ orders' = orders /\ todo' = todo /\ yr' = yr
        /\ cnt'[v] = Cardinality(Counted(t, TRUE, y))
    BY <1>1, <1>2, <2>1 DEF Count, Current, db, PosTypeOK, LocalTypeOK
  <2>3. cnt'[v] = CountIn(orders, t, y)
    BY <2>2, CountedRows DEF CountIn
  <2> QED
    BY <1>1, <2>2, <2>3, CountsGrow
<1>3. CASE /\ pc[v] = "insert" /\ todo'[v] = todo[v]
           /\ yr'[v] = yr[v] /\ cnt'[v] = cnt[v]
  <2>1. cnt[v] <= CountIn(orders, t, y) /\ cnt[v] \in Nat
    BY <1>1, <1>3 DEF NumberingInv, PosTypeOK, LocalTypeOK
  <2> QED
    BY <1>1, <1>3, <2>1, CountsGrow
<1> QED
  BY <1>2, <1>3, NumberedStep DEF Numbered

\* The number a transaction holds is at most the next one of its year, which
\* is no later than the year of its order.
LEMMA HeldStep ==
  ASSUME Headers = {TRUE}, Undated, PosTypeOK, OrdersInv, NumberingInv,
         [PosNext]_vars, NEW v \in Workers, InTx(v)', todo'[v] # <<>>
  PROVE  /\ row'[v].number.seq
              <= CountIn(orders', row'[v].tenant, row'[v].number.year) + 1
         /\ row'[v].number.year <= row'[v].year
<1>1. CASE Keeps(v)
  <2>1. InTx(v) /\ row'[v] = row[v] /\ todo[v] # <<>>
    BY <1>1 DEF Keeps
  <2>2. PICK r : r = row[v]
    OBVIOUS
  <2>3. r \in OrderRows
    BY <2>1, <2>2 DEF PosTypeOK, WorkerOK, InTx
  <2>4. /\ r.number.seq <= CountIn(orders, r.tenant, r.number.year) + 1
        /\ r.number.year <= r.year
        /\ r.number.seq \in Nat
    BY <2>1, <2>2, <2>3 DEF NumberingInv, OrderRows, Numbers
  <2> QED
    BY <2>1, <2>2, <2>4, CountsGrow
<1>2. ASSUME NEW w \in Workers, Insert(w), v # w PROVE Keeps(v)
  BY <1>2 DEF Insert, Keeps, InTx, PosTypeOK, LocalTypeOK
<1>3. CASE Insert(v)
  <2>1. Current(v) \in Uuids /\ pc[v] = "insert"
    <3>1. todo[v] \in Seq(Uuids) /\ todo[v] # <<>> /\ pc[v] = "insert"
      BY <1>3 DEF Insert, PosTypeOK, LocalTypeOK, WorkerOK
    <3> QED
      BY <3>1 DEF Current
  <2>2. PICK n : n = NewRow(v, Current(v))
    OBVIOUS
  <2>3. /\ n.tenant = Order[Head(todo[v])].tenant
        /\ n.number.year = yr[v] /\ n.number.seq = cnt[v] + 1
        /\ n.year = year
    BY <2>1, <2>2 DEF NewRow, Undated, Current
  <2>4. row'[v] = n /\ orders' = orders
    BY <1>3, <2>2 DEF Insert, db, PosTypeOK, LocalTypeOK
  <2>5. /\ cnt[v] <= CountIn(orders, n.tenant, n.number.year)
        /\ yr[v] <= year /\ cnt[v] \in Nat
    BY <2>1, <2>3 DEF NumberingInv, PosTypeOK, LocalTypeOK
  <2>6. CountIn(orders, n.tenant, n.number.year) \in Nat
    BY CountsGrow
  <2> QED
    BY <2>3, <2>4, <2>5, <2>6
<1>4. ASSUME NEW w \in Workers, MarkRefunded(w) PROVE Keeps(v)
  <2>1. todo[w] = <<>> /\ todo' = todo
    BY <1>4 DEF MarkRefunded, PosTypeOK, WorkerOK
  <2> QED
    BY <1>4, <2>1 DEF MarkRefunded, Keeps, InTx, PosTypeOK, LocalTypeOK
<1>5. ASSUME NEW w \in Workers, Commits(w) PROVE Keeps(v)
  BY <1>5 DEF Commits
<1> QED
  BY <1>1, <1>2, <1>3, <1>4, <1>5, StepKinds DEF Quiet

\* A stored number is never beyond the count of its year.
LEMMA StoredStep ==
  ASSUME PosTypeOK, OrdersInv, NumberingInv, [PosNext]_vars, NEW o \in orders'
  PROVE  o.number.seq <= CountIn(orders', o.tenant, o.number.year)
<1>1. ASSUME NEW p \in orders, p.number = o.number, p.tenant = o.tenant
      PROVE  o.number.seq <= CountIn(orders', o.tenant, o.number.year)
  <2>1. o.number.seq <= CountIn(orders, o.tenant, o.number.year)
    BY <1>1 DEF NumberingInv
  <2>2. o.number.seq \in Nat
    BY <1>1 DEF PosTypeOK, DbTypeOK, OrderRows, Numbers
  <2> QED
    BY <2>1, <2>2, CountsGrow
<1>2. CASE o \in orders
  BY <1>1, <1>2
<1>3. ASSUME NEW w \in Workers, Commits(w), o \notin orders
      PROVE  o.number.seq <= CountIn(orders', o.tenant, o.number.year)
  <2>1. Publish(w) /\ o = row[w] /\ o \in OrderRows /\ InTx(w)
    BY <1>3, CommittedRows DEF Commits, Publish
  <2>2. CASE todo[w] = <<>>
    <3>1. PICK p \in orders : o = Refunded(p)
      BY <2>1, <2>2 DEF OrdersInv
    <3>2. p.number = o.number /\ p.tenant = o.tenant
      BY <3>1, RefundedRow DEF PosTypeOK, DbTypeOK
    <3> QED
      BY <1>1, <3>2
  <2>3. CASE todo[w] # <<>>
    <3>1. /\ o.number.seq <= CountIn(orders, o.tenant, o.number.year) + 1
          /\ o.number.year <= o.year
      BY <2>1, <2>3 DEF NumberingInv
    <3>2. o.number.seq \in Nat /\ o.number.year \in Nat /\ o.year \in Nat
      BY <2>1 DEF OrderRows, Numbers
    <3>3. CountIn(orders', o.tenant, o.number.year)
            = CountIn(orders, o.tenant, o.number.year) + 1
      BY <2>1, <2>3, <3>1, <3>2, SaleCounts
    <3> QED
      BY <3>1, <3>3
  <2> QED
    BY <2>2, <2>3
<1>4. ASSUME NEW w \in Workers, Insert(w) \/ MarkRefunded(w) PROVE orders' = orders
  BY <1>4 DEF Insert, MarkRefunded, db
<1> QED
  BY <1>2, <1>3, <1>4, StepKinds DEF Quiet

LEMMA NumberingInit == PosInit => NumberingInv
BY DEF PosInit, NumberingInv, InTx

LEMMA NumberingStep ==
  ASSUME Headers = {TRUE}, Undated, PosTypeOK, OrdersInv, NumberingInv,
         [PosNext]_vars
  PROVE  NumberingInv'
<1>1. \A w \in Workers : (todo'[w] # <<>> => scoped'[w] = TRUE) /\ yr'[w] <= year'
  BY NumberedStep DEF Numbered
<1> QED
  BY <1>1, StoredStep, CountedStep, HeldStep DEF NumberingInv

\* Where requests are scoped and no order is backdated, the number the next
\* order of a tenant would get is free, whatever is counted and stored in
\* between, also when the year turns (submitOrder).
THEOREM NumbersStayFree ==
  ASSUME Headers = {TRUE}, Undated
  PROVE  PosSpec => []NextNumberFree
<1>1. PosInit => NumberingInv
  BY NumberingInit
<1>2. PosTypeOK /\ OrdersInv /\ NumberingInv /\ [PosNext]_vars => NumberingInv'
  BY NumberingStep
<1>3. PosTypeOK /\ NumberingInv => NextNumberFree
  <2> SUFFICES ASSUME PosTypeOK, NumberingInv, NEW o \in orders,
                      o.number.year = year
               PROVE  o.number.seq
                        # Cardinality(Counted(o.tenant, TRUE, year)) + 1
    BY DEF NextNumberFree
  <2>1. o.number.seq <= CountIn(orders, o.tenant, year) /\ o.number.seq \in Nat
    BY DEF NumberingInv, PosTypeOK, DbTypeOK, OrderRows, Numbers
  <2>2. CountIn(orders, o.tenant, year) \in Nat
    BY OrdersFinite, CountType
  <2>3. CountIn(orders, o.tenant, year)
          = Cardinality(Counted(o.tenant, TRUE, year))
    BY DEF CountIn, Rows, Counted, Visible
  <2>4. o.number.seq # CountIn(orders, o.tenant, year) + 1
    BY <2>1, <2>2
  <2> QED
    BY <2>3, <2>4
<1> QED
  BY <1>1, <1>2, <1>3, PosTypes, OrdersInvAlways, PTL DEF PosSpec

-----------------------------------------------------------------------------
(* The handlers implement the order book.                                  *)

(* The book shows the status of the one row of an order.                   *)
LEMMA ShownRow ==
  ASSUME OrdersInv, NEW o \in orders
  PROVE  BookOf(o.uuid) = o.status
<1>1. \A p \in orders : p.uuid = o.uuid => p = o
  BY DEF OrdersInv, Clash, SameUuid
<1> QED
  BY <1>1 DEF BookOf

LEMMA ShownRowAfter ==
  ASSUME OrdersInv', NEW o \in orders'
  PROVE  BookOf(o.uuid)' = o.status
<1>1. \A p \in orders' : p.uuid = o.uuid => p = o
  BY DEF OrdersInv, Clash, SameUuid
<1> QED
  BY <1>1 DEF BookOf

(* Only a response gives answers, and it gives those collected.            *)
LEMMA WhoAnswers ==
  ASSUME [PosNext]_vars
  PROVE  \/ answers' = answers
         \/ \E w \in Workers : Respond(w)
<1>1. ASSUME NEW w \in Workers, Step(w)
      PROVE  answers' = answers \/ Respond(w)
  BY <1>1 DEF Step, LookupFound, RejectUnderpaid, LookupMiss, Count, Insert,
     InsertDuplicate, InsertNoSession, WriteLine, CommitSale, Emit,
     MarkRefunded, CommitRefund, world
<1>2. ASSUME NEW w \in Workers, Failure(w) PROVE answers' = answers
  BY <1>2 DEF Failure, Fail, CommitUnconfirmed, LoseResponse
<1>3. ASSUME NEW w \in Workers, StartRefund(w) PROVE answers' = answers
  BY <1>3 DEF StartRefund
<1>4. ASSUME NEW w \in Workers, NEW batch \in Batches, Submit(w, batch)
      PROVE  answers' = answers
  BY <1>4 DEF Submit, world
<1>5. ASSUME NEW s \in Sessions, OpenSession(s) \/ CloseSession(s)
      PROVE  answers' = answers
  BY <1>5 DEF OpenSession, CloseSession, world
<1>6. ASSUME Crash \/ NewYear \/ StockMove PROVE answers' = answers
  BY <1>6 DEF Crash, NewYear, StockMove, world
<1>7. UNCHANGED vars => answers' = answers
  BY DEF vars, world
<1> QED
  BY <1>1, <1>2, <1>3, <1>4, <1>5, <1>6, <1>7 DEF PosNext

(* Where no row changes, the book shows the same.                          *)
LEMMA SameBook ==
  ASSUME orders' = orders
  PROVE  \A u \in Uuids : BookOf(u)' = BookOf(u)
BY DEF BookOf

(* A commit sells an order that was open, or refunds one that was sold,    *)
(* and no other order changes.                                             *)
LEMMA CommitShows ==
  ASSUME PosTypeOK, OrdersInv, OrdersInv', NEW w \in Workers, Publish(w)
  PROVE  \E u \in Uuids :
           /\ u = row[w].uuid
           /\ \A v \in Uuids \ {u} : BookOf(v)' = BookOf(v)
           /\ \/ /\ row[w].status = "PAID"
                 /\ BookOf(u) = "open" /\ BookOf(u)' = "PAID"
              \/ /\ row[w].status = "REFUNDED"
                 /\ BookOf(u) \in {"PAID", "REFUNDED"} /\ BookOf(u)' = "REFUNDED"
<1>0. PICK r \in OrderRows : r = row[w]
  BY CommittedRows
<1> DEFINE u == r.uuid
<1>1. /\ r \in orders' /\ InTx(w)
      /\ \A o \in orders' : o # r => o \in orders /\ o.id # r.id
      /\ \A o \in orders : o \in orders' \/ o.id = r.id
      /\ \A o \in orders : o.id = r.id => o.uuid = u
  BY <1>0, CommittedRows DEF Publish
<1>2. u \in Uuids
  BY <1>1 DEF OrderRows
<1>3. BookOf(u)' = r.status
  BY <1>1, ShownRowAfter
<1>4. ASSUME NEW v \in Uuids \ {u} PROVE BookOf(v)' = BookOf(v)
  <2>1. {o \in orders' : o.uuid = v} = {o \in orders : o.uuid = v}
    BY <1>1, <1>4
  <2>2. CASE {o \in orders : o.uuid = v} = {}
    BY <2>1, <2>2 DEF BookOf
  <2>3. CASE {o \in orders : o.uuid = v} # {}
    <3>1. PICK o \in orders : o.uuid = v
      BY <2>3
    <3>2. o \in orders'
      BY <2>1, <3>1
    <3> QED
      BY <3>1, <3>2, ShownRow, ShownRowAfter
  <2> QED
    BY <2>2, <2>3
<1>5. CASE todo[w] # <<>>
  <2>1. r.status = "PAID" /\ \A o \in orders : ~Clash(o, r)
    BY <1>0, <1>1, <1>5 DEF OrdersInv
  <2>2. BookOf(u) = "open"
    BY <2>1 DEF BookOf, Clash, SameUuid
  <2>3. BookOf(u)' = "PAID"
    BY <1>3, <2>1
  <2> QED
    BY <1>0, <1>2, <1>4, <2>1, <2>2, <2>3
<1>6. CASE todo[w] = <<>>
  <2>1. PICK o \in orders : r = Refunded(o)
    BY <1>0, <1>1, <1>6 DEF OrdersInv
  <2>2. o.uuid = u /\ r.status = "REFUNDED" /\ o.status \in {"PAID", "REFUNDED"}
    BY <2>1, RefundedRow DEF PosTypeOK, DbTypeOK, OrderRows, Refunded
  <2>3. BookOf(u) \in {"PAID", "REFUNDED"}
    BY <2>2, ShownRow
  <2>4. BookOf(u)' = "REFUNDED"
    BY <1>3, <2>2
  <2> QED
    BY <1>0, <1>2, <1>4, <2>2, <2>3, <2>4
<1> QED
  BY <1>5, <1>6

-----------------------------------------------------------------------------
(* Quantities, as sums of one function.                                    *)

(* The quantity of each row there can be.                                  *)
Qty == [m \in MoveRows |-> m.qty]

LEMMA QtyType == \A m \in MoveRows : Qty[m] = m.qty /\ Qty[m] \in Int
BY DEF Qty, MoveRows

LEMMA QuantityIsSum ==
  ASSUME NEW S \in SUBSET MoveRows, IsFiniteSet(S)
  PROVE  Quantity(S) = SumFunctionOnSet(Qty, S) /\ Quantity(S) \in Int
<1> DEFINE q == [m \in S |-> m.qty]
<1>1. \A m \in S : Qty[m] \in Int /\ q[m] = Qty[m]
  BY QtyType
<1>2. Quantity(S) = SumFunctionOnSet(q, S)
  BY DEF Quantity, SumFunction
<1> HIDE DEF q
<1> QED
  BY <1>1, <1>2, SumSame, SumInt

(* Rows without a warehouse, and rows of another product, do not count.    *)
LEMMA BalanceUnion ==
  ASSUME NEW S \in SUBSET MoveRows, IsFiniteSet(S),
         NEW T \in SUBSET MoveRows, IsFiniteSet(T), S \intersect T = {},
         NEW p, NEW w
  PROVE  /\ Balance(S \union T, p, w) = Balance(S, p, w) + Balance(T, p, w)
         /\ Balance(S, p, w) \in Int /\ Balance(T, p, w) \in Int
<1> DEFINE In(U) == {m \in U : m.product = p /\ m.to = w}
           Out(U) == {m \in U : m.product = p /\ m.from = w}
<1>1. ASSUME NEW A \in SUBSET MoveRows, IsFiniteSet(A),
             NEW B \in SUBSET MoveRows, IsFiniteSet(B), A \intersect B = {}
      PROVE  /\ Quantity(A \union B) = Quantity(A) + Quantity(B)
             /\ Quantity(A) \in Int /\ Quantity(B) \in Int
  <2>1. IsFiniteSet(A \union B) /\ A \union B \in SUBSET MoveRows
    BY <1>1, FS_Union
  <2>2. \A m \in A \union B : Qty[m] \in Int
    BY QtyType
  <2> QED
    BY <1>1, <2>1, <2>2, SumUnion, QuantityIsSum
<1>2. /\ IsFiniteSet(In(S)) /\ IsFiniteSet(In(T))
      /\ IsFiniteSet(Out(S)) /\ IsFiniteSet(Out(T))
  BY FS_Subset
<1>3. /\ In(S \union T) = In(S) \union In(T) /\ In(S) \intersect In(T) = {}
      /\ Out(S \union T) = Out(S) \union Out(T) /\ Out(S) \intersect Out(T) = {}
      /\ In(S) \in SUBSET MoveRows /\ In(T) \in SUBSET MoveRows
      /\ Out(S) \in SUBSET MoveRows /\ Out(T) \in SUBSET MoveRows
  OBVIOUS
<1>4. \A U : Balance(U, p, w) = Quantity(In(U)) - Quantity(Out(U))
  BY DEF Balance
<1> HIDE DEF In, Out
<1>5. /\ Quantity(In(S \union T)) = Quantity(In(S)) + Quantity(In(T))
      /\ Quantity(In(S)) \in Int /\ Quantity(In(T)) \in Int
  BY <1>1, <1>2, <1>3
<1>6. /\ Quantity(Out(S \union T)) = Quantity(Out(S)) + Quantity(Out(T))
      /\ Quantity(Out(S)) \in Int /\ Quantity(Out(T)) \in Int
  BY <1>1, <1>2, <1>3
<1> QED
  BY <1>4, <1>5, <1>6

LEMMA EmptyBalance ==
  ASSUME NEW p, NEW w
  PROVE  Balance({}, p, w) = 0
<1>1. Quantity({}) = 0
  BY SumEmpty, FS_EmptySet, QuantityIsSum
<1>2. /\ {m \in {} : m.product = p /\ m.to = w} = {}
      /\ {m \in {} : m.product = p /\ m.from = w} = {}
  OBVIOUS
<1> QED
  BY <1>1, <1>2 DEF Balance

(* The quantity a product shows in all is what its warehouses show: every   *)
(* row that names a warehouse is counted there, by its destination and by   *)
(* its origin.                                                             *)
LEMMA TotalOverWarehouses ==
  ASSUME PosTypeOK
  PROVE  TotalIsSumOfWarehouses
<1> SUFFICES ASSUME NEW p \in Products
             PROVE  OnHand(p) = SumFunction([w \in Warehouses |-> OnHandIn(p, w)])
  BY DEF TotalIsSumOfWarehouses
<1> DEFINE P == {m \in moves : m.product = p}
           to == [m \in P |-> m.to]
           from == [m \in P |-> m.from]
           Into == [w \in Warehouses |-> SumFunctionOnSet(Qty, {m \in P : to[m] = w})]
           OutOf == [w \in Warehouses |-> SumFunctionOnSet(Qty, {m \in P : from[m] = w})]
           Shown == [w \in Warehouses |-> OnHandIn(p, w)]
<1>1. /\ moves \in SUBSET MoveRows /\ IsFiniteSet(moves)
      /\ P \in SUBSET MoveRows /\ IsFiniteSet(P)
      /\ \A m \in P : Qty[m] \in Int
  BY FS_Subset, QtyType DEF PosTypeOK, DbTypeOK
<1>2. SumFunctionOnSet(Into, Warehouses)
        = SumFunctionOnSet(Qty, {m \in P : to[m] \in Warehouses})
  <2>1. IsFiniteSet(Warehouses) /\ IsFiniteSet(P) /\ \A m \in P : Qty[m] \in Int
    BY <1>1, InventoryAssumption
  <2> HIDE DEF P, to
  <2> QED
    BY ONLY <2>1, SumByKey DEF Into, OutOf
<1>3. SumFunctionOnSet(OutOf, Warehouses)
        = SumFunctionOnSet(Qty, {m \in P : from[m] \in Warehouses})
  <2>1. IsFiniteSet(Warehouses) /\ IsFiniteSet(P) /\ \A m \in P : Qty[m] \in Int
    BY <1>1, InventoryAssumption
  <2> HIDE DEF P, from
  <2> QED
    BY ONLY <2>1, SumByKey DEF Into, OutOf
<1>4. \A m \in moves : m.to \in Nullable(Warehouses) /\ m.from \in Nullable(Warehouses)
  BY <1>1 DEF MoveRows
<1>5. /\ {m \in P : to[m] \in Warehouses} = {m \in moves : m.product = p /\ m.to # None}
      /\ {m \in P : from[m] \in Warehouses} = {m \in moves : m.product = p /\ m.from # None}
  BY <1>4 DEF Nullable
<1>6. OnHand(p) = SumFunctionOnSet(Into, Warehouses) - SumFunctionOnSet(OutOf, Warehouses)
  <2>1. /\ IsFiniteSet({m \in moves : m.product = p /\ m.to # None})
        /\ IsFiniteSet({m \in moves : m.product = p /\ m.from # None})
        /\ {m \in moves : m.product = p /\ m.to # None} \in SUBSET MoveRows
        /\ {m \in moves : m.product = p /\ m.from # None} \in SUBSET MoveRows
    BY <1>1, FS_Subset
  <2>2. /\ Quantity({m \in moves : m.product = p /\ m.to # None})
             = SumFunctionOnSet(Qty, {m \in moves : m.product = p /\ m.to # None})
        /\ Quantity({m \in moves : m.product = p /\ m.from # None})
             = SumFunctionOnSet(Qty, {m \in moves : m.product = p /\ m.from # None})
    BY <2>1, QuantityIsSum
  <2> HIDE DEF Into, OutOf
  <2> QED
    BY <1>2, <1>3, <1>5, <2>2 DEF OnHand
<1>7. ASSUME NEW w \in Warehouses
      PROVE  /\ Into[w] \in Int /\ OutOf[w] \in Int
             /\ Shown[w] = Into[w] - OutOf[w]
  <2>1. /\ {m \in P : to[m] = w} = {m \in moves : m.product = p /\ m.to = w}
        /\ {m \in P : from[m] = w} = {m \in moves : m.product = p /\ m.from = w}
    OBVIOUS
  <2>2. /\ IsFiniteSet({m \in moves : m.product = p /\ m.to = w})
        /\ IsFiniteSet({m \in moves : m.product = p /\ m.from = w})
        /\ {m \in moves : m.product = p /\ m.to = w} \in SUBSET MoveRows
        /\ {m \in moves : m.product = p /\ m.from = w} \in SUBSET MoveRows
    BY <1>1, FS_Subset
  <2>3. /\ Into[w] = Quantity({m \in moves : m.product = p /\ m.to = w})
        /\ OutOf[w] = Quantity({m \in moves : m.product = p /\ m.from = w})
        /\ Into[w] \in Int /\ OutOf[w] \in Int
    BY <2>1, <2>2, QuantityIsSum
  <2> QED
    BY <2>3 DEF OnHandIn, Balance
<1>8. SumFunctionOnSet(Shown, Warehouses)
        = SumFunctionOnSet(Into, Warehouses) - SumFunctionOnSet(OutOf, Warehouses)
  <2> HIDE DEF Into, OutOf, Shown
  <2> QED
    BY <1>7, SumMinus
<1> QED
  BY <1>6, <1>8 DEF SumFunction

(* The total without a warehouse filter is always the sum over the         *)
(* warehouses, whatever sales, refunds and transfers were recorded (onHand, *)
(* move).                                                                  *)
THEOREM TotalsAgree == PosSpec => []TotalIsSumOfWarehouses
BY PosTypes, TotalOverWarehouses, PTL

-----------------------------------------------------------------------------
(* What a commit does to the stock.                                        *)

LEMMA NewMovesType ==
  ASSUME PosTypeOK, NEW w \in Workers, InTx(w)
  PROVE  NewMoves(w) \in SUBSET MoveRows /\ IsFiniteSet(NewMoves(w))
BY LineMoveType, NewMovesFinite DEF NewMoves

(* A sale takes what its order takes, a refund nothing.                    *)
LEMMA NewMovesTake ==
  ASSUME PosTypeOK, NEW w \in Workers, Publish(w),
         NEW p \in Products, NEW h \in Warehouses
  PROVE  /\ row[w].status = "PAID" =>
              /\ Balance(NewMoves(w), p, h) = 0 - Taken(row[w].uuid, p, h)
              /\ Taken(row[w].uuid, p, h) \in Int
         /\ row[w].status # "PAID" => Balance(NewMoves(w), p, h) = 0
<1> DEFINE u == row[w].uuid
           ls == Order[u].lines
           N == NewMoves(w)
           Out == {m \in N : m.product = p /\ m.from = h}
<1>1. /\ row[w] \in OrderRows /\ InTx(w) /\ line[w] = Len(ls)
      /\ ls \in Seq(OrderLines)
  BY LinesType DEF Publish, PosTypeOK, WorkerOK, InTx, Lines
<1>2. DOMAIN ls = 1..line[w] /\ \A k \in DOMAIN ls : ls[k] \in OrderLines
  BY <1>1
<1>3. N \in SUBSET MoveRows /\ IsFiniteSet(N)
  BY <1>1, NewMovesType
<1>4. ASSUME NEW k \in DOMAIN ls
      PROVE  /\ LineMove(w, k).product = ls[k].product
             /\ LineMove(w, k).qty = ls[k].qty
             /\ LineMove(w, k).line = k
             /\ LineMove(w, k).to = None
             /\ LineMove(w, k).from = IF row[w].status = "PAID"
                                      THEN Order[u].warehouse ELSE None
  BY DEF LineMove, Lines
<1>5. N = {LineMove(w, k) : k \in DOMAIN ls}
  BY <1>2 DEF NewMoves
<1>6. {m \in N : m.product = p /\ m.to = h} = {} /\ h # None
  BY <1>4, <1>5
<1> HIDE DEF N
<1>7. Quantity({}) = 0
  BY SumEmpty, FS_EmptySet, QuantityIsSum
<1>8. Balance(N, p, h) = 0 - Quantity(Out)
  BY <1>6, <1>7 DEF Balance
<1>9. CASE row[w].status # "PAID" \/ Order[u].warehouse # h
  <2>1. Out = {}
    <3>1. \A k \in DOMAIN ls : LineMove(w, k).from # h
      BY <1>4, <1>6, <1>9
    <3>2. \A m \in N : m.from # h
      BY <1>5, <3>1
    <3> QED
      BY <3>2
  <2>2. Balance(N, p, h) = 0
    <3> HIDE DEF Out
    <3> QED
      BY <1>7, <1>8, <2>1
  <2>3. row[w].status = "PAID" => Taken(u, p, h) = 0
    BY <1>9 DEF Taken
  <2> HIDE DEF u, ls
  <2> QED
    BY <2>2, <2>3 DEF N, u
<1>10. CASE row[w].status = "PAID" /\ Order[u].warehouse = h
  <2> DEFINE K == {k \in DOMAIN ls : ls[k].product = p}
             b == [k \in K |-> LineMove(w, k)]
             q == [k \in DOMAIN ls |-> ls[k].qty]
  <2>1. Out = {b[k] : k \in K}
    <3>1. \A k \in DOMAIN ls : /\ LineMove(w, k).from = h
                              /\ LineMove(w, k).product = ls[k].product
      BY <1>4, <1>10
    <3> HIDE DEF ls
    <3> QED
      BY <1>5, <3>1
  <2>2. IsFiniteSet(K)
    <3>1. IsFiniteSet(1..line[w])
      BY FS_Interval DEF PosTypeOK, LocalTypeOK
    <3> QED
      BY <1>2, <3>1, FS_Subset
  <2>3. \A j, k \in K : b[j] = b[k] => j = k
    <3>1. \A k \in DOMAIN ls : LineMove(w, k).line = k
      BY <1>4
    <3> HIDE DEF ls
    <3> QED
      BY <3>1
  <2>4. \A k \in K : Qty[b[k]] \in Int /\ q[k] = Qty[b[k]]
    <3> SUFFICES ASSUME NEW k \in K PROVE Qty[b[k]] \in Int /\ q[k] = Qty[b[k]]
      OBVIOUS
    <3>1. b[k] \in MoveRows /\ b[k].qty = q[k]
      BY <1>3, <1>4, <1>5
    <3> QED
      BY <3>1, QtyType
  <2>5. SumFunctionOnSet(Qty, Out) = SumFunctionOnSet(q, K)
    <3> HIDE DEF K, b, q, Out
    <3> QED
      BY <2>1, <2>2, <2>3, <2>4, SumImage
  <2>6. IsFiniteSet(Out) /\ Out \in SUBSET MoveRows
    BY <1>3, FS_Subset
  <2>7. Quantity(Out) = SumFunctionOnSet(Qty, Out) /\ Quantity(Out) \in Int
    BY <2>6, QuantityIsSum
  <2>8. Taken(u, p, h) = SumFunctionOnSet(q, K)
    BY <1>10 DEF Taken
  <2>9. Balance(N, p, h) = 0 - Taken(u, p, h) /\ Taken(u, p, h) \in Int
    BY <1>8, <2>5, <2>7, <2>8
  <2> HIDE DEF u, ls
  <2> QED
    BY <1>10, <2>9 DEF N, u
<1> QED
  BY <1>9, <1>10

(* The till's moves grow by the new ones when a transaction commits.       *)
LEMMA TillGrows ==
  ASSUME PosTypeOK, MovesInv, NEW w \in Workers, Publish(w)
  PROVE  /\ TillMoves' = TillMoves \union NewMoves(w)
         /\ TillMoves \intersect NewMoves(w) = {}
<1>1. moves' = moves \union NewMoves(w) /\ InTx(w)
  BY DEF Publish, NewMoves
<1>2. \A m \in NewMoves(w) : m.id = txid[w] /\ m.by = "till"
  BY DEF NewMoves, LineMove
<1>3. \A m \in moves : m.id # txid[w]
  BY <1>1 DEF MovesInv
<1> QED
  BY <1>1, <1>2, <1>3 DEF TillMoves

LEMMA CommitTakes ==
  ASSUME PosTypeOK, MovesInv, NEW w \in Workers, Publish(w),
         NEW p \in Products, NEW h \in Warehouses
  PROVE  /\ row[w].status = "PAID" =>
              Balance(TillMoves', p, h)
                = Balance(TillMoves, p, h) - Taken(row[w].uuid, p, h)
         /\ row[w].status # "PAID" =>
              Balance(TillMoves', p, h) = Balance(TillMoves, p, h)
<1> DEFINE N == NewMoves(w)
<1>1. InTx(w)
  BY DEF Publish
<1>2. /\ N \in SUBSET MoveRows /\ IsFiniteSet(N)
      /\ TillMoves \in SUBSET MoveRows /\ IsFiniteSet(TillMoves)
  BY <1>1, NewMovesType, FS_Subset DEF PosTypeOK, DbTypeOK, TillMoves
<1>3. TillMoves' = TillMoves \union N /\ TillMoves \intersect N = {}
  BY TillGrows
<1>4. /\ Balance(TillMoves \union N, p, h) = Balance(TillMoves, p, h) + Balance(N, p, h)
      /\ Balance(TillMoves, p, h) \in Int /\ Balance(N, p, h) \in Int
  <2> HIDE DEF N
  <2> QED
    BY <1>2, <1>3, BalanceUnion
<1>5. Balance(TillMoves', p, h) = Balance(TillMoves, p, h) + Balance(N, p, h)
  BY <1>3, <1>4
<1>6. CASE row[w].status = "PAID"
  <2>1. Balance(N, p, h) = 0 - Taken(row[w].uuid, p, h)
    BY <1>6, NewMovesTake
  <2>2. Taken(row[w].uuid, p, h) \in Int
    BY <1>6, NewMovesTake
  <2> QED
    BY <1>4, <1>5, <1>6, <2>1, <2>2
<1>7. CASE row[w].status # "PAID"
  BY <1>4, <1>5, <1>7, NewMovesTake
<1> QED
  BY <1>6, <1>7

-----------------------------------------------------------------------------
(* The handlers implement the order book.                                  *)

(* What the book shows of the stored rows, and of the answers.             *)
Shown == <<[u \in Uuids |-> BookOf(u)],
           [pw \in Products \X Warehouses |-> Balance(TillMoves, pw[1], pw[2])],
           {u \in Uuids : Acked(u)}>>

LEMMA BookStarts == PosInit => Book!Init
<1> SUFFICES ASSUME PosInit PROVE Book!Init
  OBVIOUS
<1>1. TillMoves = {} /\ orders = {} /\ answers = {}
  BY DEF PosInit, InventoryInit, TillMoves
<1>2. \A u \in Uuids : BookOf(u) = "open" /\ ~Acked(u)
  BY <1>1 DEF BookOf, Acked
<1> QED
  BY <1>1, <1>2, EmptyBalance DEF Book!Init

(* A response confirms the orders it has good answers for: all are stored. *)
LEMMA RespondConfirms ==
  ASSUME PosTypeOK, OrdersInv, ToldInv, NEW w \in Workers, Respond(w)
  PROVE  Book!Next
<1> DEFINE U == {u \in Uuids : \E a \in results[w] : a.uuid = u /\ a.outcome = "ok"}
<1>1. ASSUME NEW u \in U PROVE BookOf(u) # "open"
  <2>1. PICK o \in orders : o.uuid = u
    BY DEF ToldInv, Good
  <2>2. o.status # "open"
    BY DEF PosTypeOK, DbTypeOK, OrderRows
  <2> QED
    BY <2>1, <2>2, ShownRow
<1>2. answers' = answers \union results[w] /\ orders' = orders /\ moves' = moves
  BY DEF Respond, db
<1>3. {u \in Uuids : Acked(u)}' = {u \in Uuids : Acked(u)} \union U
  BY <1>2 DEF Acked
<1>4. [u \in Uuids |-> BookOf(u)]' = [u \in Uuids |-> BookOf(u)]
  BY <1>2, SameBook
<1>5. TillMoves' = TillMoves
  BY <1>2 DEF TillMoves
<1>6. U \in SUBSET Uuids
  OBVIOUS
<1> HIDE DEF U
<1>7. Book!Confirm(U)
  BY <1>1, <1>3, <1>4, <1>5, <1>6 DEF Book!Confirm
<1> QED
  BY <1>6, <1>7 DEF Book!Next

(* A manual move, like most steps, shows nothing in the book.              *)
LEMMA QuietShowsNothing ==
  ASSUME PosTypeOK, orders' = orders, answers' = answers,
         moves' = moves \/ StockMove
  PROVE  Shown' = Shown
<1>1. TillMoves' = TillMoves
  <2>1. CASE moves' = moves
    BY <2>1 DEF TillMoves
  <2>2. CASE StockMove
    <3>1. PICK p \in Products, from \in Nullable(Warehouses),
               to \in Nullable(Warehouses), q \in HandQty,
               r \in HandReasons, t \in Tenants, ref \in HandRefs :
            moves' = moves \union
              {[id |-> FreshId, line |-> 1, product |-> p, from |-> from,
                to |-> to, qty |-> q, reason |-> r, tenant |-> t,
                ref |-> ref, by |-> "user"]}
      BY <2>2 DEF StockMove, ManualMove
    <3> DEFINE m == [id |-> FreshId, line |-> 1, product |-> p, from |-> from,
                     to |-> to, qty |-> q, reason |-> r,
                     tenant |-> t, ref |-> ref, by |-> "user"]
    <3>2. moves' = moves \union {m} /\ m.by = "user"
      BY <3>1
    <3> HIDE DEF m
    <3> QED
      BY <3>2 DEF TillMoves
  <2> QED
    BY <2>1, <2>2
<1>2. {u \in Uuids : Acked(u)}' = {u \in Uuids : Acked(u)}
  BY DEF Acked
<1>3. [u \in Uuids |-> BookOf(u)]' = [u \in Uuids |-> BookOf(u)]
  BY SameBook
<1> QED
  BY <1>1, <1>2, <1>3 DEF Shown

(* A commit sells its order with its stock, or refunds it.                 *)
LEMMA CommitSellsOrRefunds ==
  ASSUME PosTypeOK, OrdersInv, OrdersInv', MovesInv, answers' = answers,
         NEW w \in Workers, Publish(w)
  PROVE  Book!Next
<1> DEFINE stock == [pw \in Products \X Warehouses |-> Balance(TillMoves, pw[1], pw[2])]
<1>1. {v \in Uuids : Acked(v)}' = {v \in Uuids : Acked(v)}
  BY DEF Acked
<1>2. PICK u \in Uuids :
        /\ u = row[w].uuid
        /\ \A v \in Uuids \ {u} : BookOf(v)' = BookOf(v)
        /\ \/ /\ row[w].status = "PAID"
              /\ BookOf(u) = "open" /\ BookOf(u)' = "PAID"
           \/ /\ row[w].status = "REFUNDED"
              /\ BookOf(u) \in {"PAID", "REFUNDED"} /\ BookOf(u)' = "REFUNDED"
  BY CommitShows
<1>3. \A pw \in Products \X Warehouses :
        pw[1] \in Products /\ pw[2] \in Warehouses
  OBVIOUS
<1>4. CASE /\ row[w].status = "PAID"
           /\ BookOf(u) = "open" /\ BookOf(u)' = "PAID"
  <2>1. [v \in Uuids |-> BookOf(v)]' = [[v \in Uuids |-> BookOf(v)] EXCEPT ![u] = "PAID"]
    BY <1>2, <1>4
  <2>2. \A pw \in Products \X Warehouses :
          Balance(TillMoves', pw[1], pw[2])
            = Balance(TillMoves, pw[1], pw[2]) - Taken(u, pw[1], pw[2])
    BY <1>2, <1>3, <1>4, CommitTakes
  <2>3. Book!Sell(u)
    BY <1>1, <1>2, <1>4, <2>1, <2>2 DEF Book!Sell
  <2> QED
    BY <1>2, <2>3 DEF Book!Next
<1>5. CASE /\ row[w].status = "REFUNDED"
           /\ BookOf(u) \in {"PAID", "REFUNDED"} /\ BookOf(u)' = "REFUNDED"
  <2>1. [v \in Uuids |-> BookOf(v)]'
          = [[v \in Uuids |-> BookOf(v)] EXCEPT ![u] = "REFUNDED"]
    BY <1>2, <1>5
  <2>2. stock' = stock
    BY <1>3, <1>5, CommitTakes
  <2>3. Book!Refund(u)
    BY <1>1, <1>2, <1>5, <2>1, <2>2 DEF Book!Refund
  <2> QED
    BY <1>2, <2>3 DEF Book!Next
<1> QED
  BY <1>2, <1>4, <1>5

LEMMA BookStep ==
  ASSUME PosTypeOK, OrdersInv, OrdersInv', MovesInv, ToldInv, [PosNext]_vars
  PROVE  [Book!Next]_Shown
<1>1. CASE \E w \in Workers : Respond(w)
  BY <1>1, RespondConfirms
<1>2. CASE answers' = answers
  <2>1. CASE \E w \in Workers : Commits(w)
    BY <1>2, <2>1, CommitSellsOrRefunds DEF Commits
  <2>2. CASE Quiet \/ \E w \in Workers : Insert(w) \/ MarkRefunded(w)
    <3>1. orders' = orders /\ (moves' = moves \/ StockMove)
      BY <2>2 DEF Quiet, Insert, MarkRefunded, db
    <3> QED
      BY <1>2, <3>1, QuietShowsNothing
  <2> QED
    BY <2>1, <2>2, StepKinds
<1> QED
  BY <1>1, <1>2, WhoAnswers

(* The handlers, their failures and crashes implement the order book: an   *)
(* order is sold at most once, its stock leaves with it and neither before  *)
(* nor twice, it is never unsold, and confirmed only after its sale         *)
(* (submitOrder, syncBatch, refund).                                       *)
THEOREM OrdersImplementBook == PosSpec => ImplementsBook
<1>1. PosTypeOK /\ OrdersInv /\ OrdersInv' /\ MovesInv /\ ToldInv /\ [PosNext]_vars
        => [Book!Next]_Shown
  BY BookStep
<1> QED
  BY <1>1, BookStarts, PosTypes, OrdersInvAlways, MovesInvAlways, ToldAlways, PTL
  DEF PosSpec, ImplementsBook, Book!Spec, Shown

=============================================================================
