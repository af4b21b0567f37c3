-------------------------- MODULE InvoicingProofs --------------------------
(***************************************************************************)
(* Proofs about invoices and the ledger, for any accounts, journals,       *)
(* drafts, ids and requests, and any unit of the amounts.                  *)
(*                                                                         *)
(* Numbers.  A number is one more than a count; the count was no more than *)
(* the invoices of its type stored when it was taken, and invoices are     *)
(* never deleted.  So no number exceeds the invoices of its type, which    *)
(* keeps the next one free.                                                *)
(*                                                                         *)
(* Entries.  post accepts lines whose sums agree, and rounding moves the   *)
(* difference by half a Grain per line at most; a reversal negates it.  An *)
(* entry loses the sides on accounts that are deleted; as post takes none  *)
(* that is deleted, what is left is the entry as posted, cleared of the    *)
(* accounts deleted by now.  The lines of an invoice are rounded already,  *)
(* so that posting leaves them alone and the sums that agree are those of  *)
(* the stored totals.                                                      *)
(*                                                                         *)
(* Reports.  Debit minus credit, summed over the tenant's accounts of each *)
(* type, is summed over the lines of every entry: the two orders agree.    *)
(***************************************************************************)
EXTENDS Invoicing, SumTheorems, TLAPS, FiniteSetTheorems

\* All invoices of a type, also those the count does not see.
OfType(type) == {i \in invoices : i.type = type}

Size(type) == Cardinality(OfType(type))

\* What the counting argument needs of tables and requests.
RowsOK ==
  /\ IsFiniteSet(invoices)
  /\ \A i \in invoices : i.number.seq \in Nat
  /\ pc \in [Workers -> {"idle", "count", "insert"}]
  /\ draft \in [Workers -> Drafts \union {None}]
  /\ cnt \in [Workers -> Nat]

\* A count under way is no more than the invoices of its type.
CountsBounded ==
  \A w \in Workers : pc[w] = "insert" => cnt[w] <= Size(DraftOf[draft[w]].type)

\* Neither is a number.
NumbersBounded == \A i \in invoices : i.number.seq <= Size(i.type)

IInv == RowsOK /\ CountsBounded /\ NumbersBounded /\ InvoiceNumbersUnique

-----------------------------------------------------------------------------
(* The steps, as far as they concern invoices.                             *)

Creating(w) ==
  \/ \E d \in Drafts : StartCreate(w, d)
  \/ CountInvoices(w)
  \/ InsertRefused(w)

LEMMA StepKinds ==
  ASSUME [Next]_vars
  PROVE  \/ UNCHANGED <<invoices, pc, draft, cnt>>
         \/ \E w \in Workers : Creating(w)
         \/ \E w \in Workers : InsertInvoice(w)
BY DEF Next, vars, locals, Creating, ConfirmAndPost, WriteJournal, ReverseEntry,
       EditChart

LEMMA CreatingKeeps ==
  ASSUME NEW w \in Workers, Creating(w)
  PROVE  UNCHANGED invoices
BY DEF Creating, StartCreate, CountInvoices, InsertRefused

LEMMA SizeIsNat ==
  ASSUME IsFiniteSet(invoices), NEW t
  PROVE  IsFiniteSet(OfType(t)) /\ Size(t) \in Nat
<1>1. OfType(t) \in SUBSET invoices
  BY DEF OfType
<1> QED
  BY <1>1, FS_Subset, FS_CardinalityType DEF Size

\* The invoice a worker inserts is new, takes a free number, and is one more
\* of its type.
LEMMA Inserted ==
  ASSUME RowsOK, NEW w \in Workers, InsertInvoice(w)
  PROVE  \E n : /\ invoices' = invoices \union {n}
                /\ n \notin invoices
                /\ ~NumberTaken(n)
                /\ n.type = DraftOf[draft[w]].type
                /\ n.number.seq = cnt[w] + 1
<1>1. PICK id \in InvoiceIds \ {i.id : i \in invoices} :
        /\ ~NumberTaken(NewInvoice(id, w))
        /\ invoices' = invoices \union {NewInvoice(id, w)}
  BY DEF InsertInvoice
<1> DEFINE n == NewInvoice(id, w)
<1>2. /\ n.id = id
      /\ n.type = DraftOf[draft[w]].type
      /\ n.number.seq = cnt[w] + 1
  BY DEF NewInvoice
<1>3. n \notin invoices
  BY <1>1, <1>2
<1> QED
  BY <1>1, <1>2, <1>3

LEMMA Grows ==
  ASSUME RowsOK, [Next]_vars, NEW t
  PROVE  /\ IsFiniteSet(invoices')
         /\ Size(t) \in Nat /\ Size(t)' \in Nat
         /\ Size(t) <= Size(t)'
<1>1. invoices \subseteq invoices' /\ IsFiniteSet(invoices')
  <2>1. CASE \E w \in Workers : InsertInvoice(w)
    <3>1. PICK w \in Workers : InsertInvoice(w)
      BY <2>1
    <3>2. PICK n : invoices' = invoices \union {n}
      BY <3>1, Inserted
    <3> QED
      BY <3>2, FS_AddElement DEF RowsOK
  <2>2. CASE ~(\E w \in Workers : InsertInvoice(w))
    <3>1. invoices' = invoices
      BY <2>2, StepKinds, CreatingKeeps
    <3> QED
      BY <3>1 DEF RowsOK
  <2> QED
    BY <2>1, <2>2
<1>2. IsFiniteSet(OfType(t)') /\ OfType(t) \in SUBSET (OfType(t)')
  <2>1. OfType(t)' \in SUBSET invoices' /\ OfType(t) \in SUBSET (OfType(t)')
    BY <1>1 DEF OfType
  <2> QED
    BY <1>1, <2>1, FS_Subset
<1>3. Size(t) \in Nat
  BY SizeIsNat DEF RowsOK
<1>4. Size(t)' \in Nat
  BY <1>2, FS_CardinalityType DEF Size
<1>5. Size(t) <= Size(t)'
  BY <1>2, FS_Subset DEF Size
<1> QED
  BY <1>1, <1>3, <1>4, <1>5

LEMMA GrowsByOne ==
  ASSUME RowsOK, NEW n, n \notin invoices, invoices' = invoices \union {n}
  PROVE  Size(n.type)' = Size(n.type) + 1
<1>1. OfType(n.type)' = OfType(n.type) \union {n} /\ n \notin OfType(n.type)
  BY DEF OfType
<1>2. IsFiniteSet(OfType(n.type))
  BY SizeIsNat DEF RowsOK
<1> QED
  BY <1>1, <1>2, FS_AddElement DEF Size

LEMMA CountedBounded ==
  ASSUME RowsOK, NEW t
  PROVE  Cardinality(Counted(t)) \in Nat /\ Cardinality(Counted(t)) <= Size(t)
<1>1. IsFiniteSet(OfType(t)) /\ Counted(t) \in SUBSET OfType(t)
  BY SizeIsNat DEF RowsOK, Counted, OfType
<1> QED
  BY <1>1, FS_Subset, FS_CardinalityType DEF Size

-----------------------------------------------------------------------------
(* The invariant.                                                          *)

LEMMA RowsStep == IInv /\ [Next]_vars => RowsOK'
<1> SUFFICES ASSUME IInv, [Next]_vars PROVE RowsOK'
  OBVIOUS
<1>1. IsFiniteSet(invoices')
  BY Grows DEF IInv
<1>2. CASE UNCHANGED <<invoices, pc, draft, cnt>>
  BY <1>1, <1>2 DEF IInv, RowsOK
<1>3. ASSUME NEW w \in Workers, Creating(w) PROVE RowsOK'
  <2>1. UNCHANGED invoices
    BY <1>3, CreatingKeeps
  <2>2. CASE \E d \in Drafts : StartCreate(w, d)
    BY <1>1, <2>1, <2>2 DEF StartCreate, IInv, RowsOK
  <2>3. CASE CountInvoices(w)
    <3>1. Cardinality(Counted(DraftOf[draft[w]].type)) \in Nat
      BY CountedBounded DEF IInv
    <3> QED
      BY <1>1, <2>1, <2>3, <3>1 DEF CountInvoices, IInv, RowsOK
  <2>4. CASE InsertRefused(w)
    BY <1>1, <2>1, <2>4 DEF InsertRefused, Leave, IInv, RowsOK
  <2> QED
    BY <1>3, <2>2, <2>3, <2>4 DEF Creating
<1>4. ASSUME NEW w \in Workers, InsertInvoice(w) PROVE RowsOK'
  <2>1. PICK n : /\ invoices' = invoices \union {n}
                 /\ n.number.seq = cnt[w] + 1
    BY <1>4, Inserted DEF IInv
  <2>2. cnt[w] \in Nat
    BY DEF IInv, RowsOK
  <2>3. \A i \in invoices' : i.number.seq \in Nat
    BY <2>1, <2>2 DEF IInv, RowsOK
  <2>4. /\ pc' \in [Workers -> {"idle", "count", "insert"}]
        /\ draft' \in [Workers -> Drafts \union {None}]
        /\ cnt' \in [Workers -> Nat]
    BY <1>4 DEF InsertInvoice, Leave, IInv, RowsOK
  <2> QED
    BY <1>1, <2>3, <2>4 DEF RowsOK
<1> QED
  BY <1>2, <1>3, <1>4, StepKinds

LEMMA CountsStep == IInv /\ [Next]_vars => CountsBounded'
<1> SUFFICES ASSUME IInv, [Next]_vars, NEW v \in Workers, pc'[v] = "insert"
             PROVE  (cnt[v] <= Size(DraftOf[draft[v]].type))'
  BY DEF CountsBounded
<1>0. PICK t : t = DraftOf[draft[v]].type
  OBVIOUS
<1>1. Size(t) \in Nat /\ Size(t)' \in Nat /\ Size(t) <= Size(t)'
  BY Grows DEF IInv
<1>2. cnt[v] \in Nat /\ (pc[v] = "insert" => cnt[v] <= Size(t))
  BY <1>0 DEF IInv, RowsOK, CountsBounded
<1>3. CASE pc[v] = "insert" /\ cnt'[v] = cnt[v] /\ draft'[v] = draft[v]
  <2>1. (Size(DraftOf[draft[v]].type))' = Size(t)'
    BY <1>0, <1>3 DEF Size, OfType
  <2>2. cnt'[v] <= Size(t)'
    BY <1>1, <1>2, <1>3
  <2> QED
    BY <2>1, <2>2
<1>4. CASE CountInvoices(v)
  <2>1. /\ cnt'[v] = Cardinality(Counted(t))
        /\ draft' = draft /\ invoices' = invoices
    BY <1>0, <1>4 DEF CountInvoices, IInv, RowsOK
  <2>2. Cardinality(Counted(t)) <= Size(t)
    BY CountedBounded DEF IInv
  <2>3. (Size(DraftOf[draft[v]].type))' = Size(t)
    BY <1>0, <2>1 DEF Size, OfType
  <2> QED
    BY <2>1, <2>2, <2>3
<1>5. \/ CountInvoices(v)
      \/ pc[v] = "insert" /\ cnt'[v] = cnt[v] /\ draft'[v] = draft[v]
  <2>1. CASE UNCHANGED <<invoices, pc, draft, cnt>>
    BY <2>1
  <2>2. ASSUME NEW w \in Workers, Creating(w) \/ InsertInvoice(w),
               ~CountInvoices(v)
        PROVE  pc[v] = "insert" /\ cnt'[v] = cnt[v] /\ draft'[v] = draft[v]
    BY <2>2 DEF Creating, StartCreate, CountInvoices, InsertRefused,
                InsertInvoice, Leave, IInv, RowsOK
  <2> QED
    BY <2>1, <2>2, StepKinds
<1> QED
  BY <1>3, <1>4, <1>5

LEMMA NumbersStep ==
  IInv /\ [Next]_vars => NumbersBounded' /\ InvoiceNumbersUnique'
<1> SUFFICES ASSUME IInv, [Next]_vars
             PROVE  NumbersBounded' /\ InvoiceNumbersUnique'
  OBVIOUS
<1>1. \A i \in invoices : i.number.seq <= Size(i.type)'
  <2> TAKE i \in invoices
  <2>1. /\ Size(i.type) \in Nat /\ Size(i.type)' \in Nat
        /\ Size(i.type) <= Size(i.type)'
    BY Grows DEF IInv
  <2>2. i.number.seq \in Nat /\ i.number.seq <= Size(i.type)
    BY DEF IInv, RowsOK, NumbersBounded
  <2> QED
    BY <2>1, <2>2
<1>2. CASE invoices' = invoices
  BY <1>1, <1>2 DEF IInv, NumbersBounded, InvoiceNumbersUnique
<1>3. ASSUME NEW w \in Workers, InsertInvoice(w)
      PROVE  NumbersBounded' /\ InvoiceNumbersUnique'
  <2>1. PICK n : /\ invoices' = invoices \union {n}
                 /\ n \notin invoices
                 /\ ~NumberTaken(n)
                 /\ n.type = DraftOf[draft[w]].type
                 /\ n.number.seq = cnt[w] + 1
    BY <1>3, Inserted DEF IInv
  <2>2. pc[w] = "insert"
    BY <1>3 DEF InsertInvoice
  <2>3. cnt[w] \in Nat /\ cnt[w] <= Size(n.type)
    BY <2>1, <2>2 DEF IInv, RowsOK, CountsBounded
  <2>4. Size(n.type)' = Size(n.type) + 1 /\ Size(n.type) \in Nat
    BY <2>1, GrowsByOne, SizeIsNat DEF IInv, RowsOK
  <2>5. NumbersBounded'
    BY <1>1, <2>1, <2>3, <2>4 DEF NumbersBounded
  <2>6. InvoiceNumbersUnique'
    BY <2>1 DEF IInv, InvoiceNumbersUnique, NumberTaken
  <2> QED
    BY <2>5, <2>6
<1> QED
  BY <1>2, <1>3, StepKinds, CreatingKeeps

LEMMA IInvAlways == InvoicingSpec => []IInv
<1>1. InvoicingInit => IInv
  BY FS_EmptySet DEF InvoicingInit, IInv, RowsOK, CountsBounded,
                     NumbersBounded, InvoiceNumbersUnique
<1>2. IInv /\ [Next]_vars => IInv'
  BY RowsStep, CountsStep, NumbersStep DEF IInv
<1> QED
  BY <1>1, <1>2, PTL DEF InvoicingSpec

\* No two invoices share a number, in whatever order requests count and
\* insert, although sales and debit notes are counted apart (create).
THEOREM UniqueInvoiceNumbers == InvoicingSpec => []InvoiceNumbersUnique
<1>1. IInv => InvoiceNumbersUnique
  BY DEF IInv
<1> QED
  BY <1>1, IInvAlways, PTL

\* While no invoice of a type is backdated, the number the next one computes
\* is not taken by an invoice of the type (nextNumber).
THEOREM InvoiceNumbersStayFree == InvoicingSpec => []NextInvoiceNumberFree
<1>1. IInv => NextInvoiceNumberFree
  <2> SUFFICES ASSUME IInv, NEW i \in invoices,
                      \A j \in invoices : j.type = i.type => ~j.backdated
               PROVE  i.number.seq # Cardinality(Counted(i.type)) + 1
    BY DEF NextInvoiceNumberFree
  <2>1. Counted(i.type) = OfType(i.type)
    BY DEF Counted, OfType
  <2>2. i.number.seq \in Nat /\ i.number.seq <= Size(i.type)
    BY DEF IInv, RowsOK, NumbersBounded
  <2>3. Size(i.type) \in Nat
    BY SizeIsNat DEF IInv, RowsOK
  <2> QED
    BY <2>1, <2>2, <2>3 DEF Size
<1> QED
  BY <1>1, IInvAlways, PTL
-----------------------------------------------------------------------------
(* Rounding.                                                               *)

(* The rounded amount is a multiple of Grain within half of it.            *)
LEMMA RoundsUp ==
  ASSUME NEW x \in Nat
  PROVE  \E n \in Nat : /\ Fixed(x) = Grain * n
                        /\ 2 * x < 2 * (Grain * n) + Grain
                        /\ 2 * (Grain * n) <= 2 * x + Grain
<1> DEFINE g == Grain
           n == (2 * x + g) \div (2 * g)
<1>1. g \in Nat /\ g > 0
  BY LedgerAssumption
<1>2. /\ n \in Int
      /\ (2 * g) * n <= 2 * x + g
      /\ 2 * x + g < (2 * g) * n + 2 * g
  <2> HIDE DEF g
  <2> DEFINE m == 2 * g
             y == 2 * x + g
  <2>1. m \in Nat /\ m > 0 /\ y \in Nat
    BY <1>1
  <2>2. y \div m \in Int /\ m * (y \div m) <= y /\ y < m * (y \div m) + m
    <3> HIDE DEF m, y
    <3>1. y \div m \in Int
      BY <2>1
    <3>2. m * (y \div m) <= y
      BY <2>1
    <3>3. y < m * (y \div m) + m
      BY <2>1
    <3> QED
      BY <3>1, <3>2, <3>3
  <2> QED
    BY <2>2
<1>3. n \in Nat
  <2> HIDE DEF g, n
  <2> SUFFICES ASSUME n < 0 PROVE FALSE
    BY <1>2
  <2>1. (2 * g) * n <= -(2 * g)
    BY <1>1, <1>2
  <2> QED
    BY <1>1, <1>2, <2>1
<1>4. Fixed(x) = g * n
  BY DEF Fixed
<1>5. (2 * g) * n = 2 * (g * n) /\ g * n \in Int
  <2> HIDE DEF g, n
  <2> QED
    BY <1>1, <1>3
<1>6. 2 * x < 2 * (g * n) + g /\ 2 * (g * n) <= 2 * x + g
  <2> HIDE DEF g, n
  <2> QED
    BY <1>1, <1>2, <1>5
<1> QED
  BY <1>3, <1>4, <1>6

(* The multiples of Grain on either side of an amount differ by Grain.     *)
LEMMA MultiplesApart ==
  ASSUME NEW m \in Int, NEW n \in Int, m < n
  PROVE  Grain * m + Grain <= Grain * n /\ Grain * m \in Int /\ Grain * n \in Int
<1> DEFINE g == Grain
<1>1. g \in Nat /\ g > 0
  BY LedgerAssumption
<1> HIDE DEF g
<1>2. g * m \in Int /\ g * n \in Int
  BY <1>1
<1>3. n - m - 1 \in Nat /\ g * (n - m - 1) \in Nat
  BY <1>1
<1>4. g * n = g * m + g + g * (n - m - 1)
  BY <1>1, <1>2, <1>3
<1>5. g * m + g <= g * n
  BY <1>1, <1>2, <1>3, <1>4
<1> QED
  BY <1>2, <1>5 DEF g

(* Of any amount, also a negative one: a multiple of Grain within half of it. *)
LEMMA RoundsTo ==
  ASSUME NEW x \in Int
  PROVE  \E n \in Int : /\ Fixed(x) = Grain * n /\ Grain * n \in Int
                        /\ 2 * x <= 2 * (Grain * n) + Grain
                        /\ 2 * (Grain * n) <= 2 * x + Grain
<1> DEFINE g == Grain
<1>1. g \in Nat /\ g > 0
  BY LedgerAssumption
<1>2. CASE x >= 0
  <2>1. PICK n \in Nat : /\ Fixed(x) = g * n
                         /\ 2 * x < 2 * (g * n) + g
                         /\ 2 * (g * n) <= 2 * x + g
    BY <1>2, RoundsUp
  <2>2. g * n \in Int
    <3> HIDE DEF g
    <3> QED
      BY <1>1
  <2>3. 2 * x <= 2 * (g * n) + g
    <3> HIDE DEF g
    <3> QED
      BY <1>1, <2>1, <2>2
  <2> QED
    BY <2>1, <2>2, <2>3
<1>3. CASE x < 0
  <2>1. -x \in Nat /\ -x > 0
    BY <1>3
  <2>2. Fixed(x) = -Fixed(-x)
    BY <1>3, <2>1 DEF Fixed
  <2>3. PICK n \in Nat : /\ Fixed(-x) = g * n
                         /\ 2 * (-x) < 2 * (g * n) + g
                         /\ 2 * (g * n) <= 2 * (-x) + g
    BY <2>1, RoundsUp
  <2>4. -n \in Int /\ g * (-n) = -(g * n) /\ g * n \in Int /\ g * (-n) \in Int
    <3> HIDE DEF g
    <3> QED
      BY <1>1
  <2>5. /\ Fixed(x) = g * (-n)
        /\ 2 * x <= 2 * (g * (-n)) + g
        /\ 2 * (g * (-n)) <= 2 * x + g
    <3> HIDE DEF g, Fixed
    <3> QED
      BY <1>1, <2>2, <2>3, <2>4
  <2> QED
    BY <2>4, <2>5
<1> QED
  BY <1>2, <1>3

LEMMA FixedNear ==
  ASSUME NEW x \in Int
  PROVE  /\ Fixed(x) \in Int
         /\ 2 * (Fixed(x) - x) <= Grain
         /\ -Grain <= 2 * (Fixed(x) - x)
<1>1. Grain \in Nat
  BY LedgerAssumption
<1>2. /\ Fixed(x) \in Int
      /\ 2 * x <= 2 * Fixed(x) + Grain /\ 2 * Fixed(x) <= 2 * x + Grain
  BY RoundsTo
<1> HIDE DEF Fixed
<1> QED
  BY <1>1, <1>2

(* What is stored is rounded already: rounding it again changes nothing.   *)
LEMMA FixedTwice ==
  ASSUME NEW x \in Int
  PROVE  Fixed(x) \in Int /\ Fixed(Fixed(x)) = Fixed(x)
<1> DEFINE g == Grain
<1>1. g \in Nat /\ g > 0
  BY LedgerAssumption
<1>2. PICK n \in Int : Fixed(x) = g * n /\ g * n \in Int
  BY RoundsTo
<1>3. PICK m \in Int : /\ Fixed(g * n) = g * m /\ g * m \in Int
                       /\ 2 * (g * n) <= 2 * (g * m) + g
                       /\ 2 * (g * m) <= 2 * (g * n) + g
  BY <1>2, RoundsTo
<1>4. m = n
  <2>1. m < n => g * m + g <= g * n
    BY MultiplesApart
  <2>2. n < m => g * n + g <= g * m
    BY MultiplesApart
  <2>3. ~(m < n) /\ ~(n < m)
    <3> HIDE DEF g
    <3> QED
      BY <1>1, <1>2, <1>3, <2>1, <2>2
  <2> QED
    BY <2>3
<1> QED
  BY <1>2, <1>3, <1>4

(* Two amounts that round to the same one are no more than Grain apart, so *)
(* that their difference rounds to Grain at most, either way.              *)
LEMMA HiddenByRounding ==
  ASSUME NEW s \in Int, NEW t \in Int, Fixed(s + t) = Fixed(s)
  PROVE  Fixed(t) \in {-Grain, 0, Grain}
<1> DEFINE g == Grain
<1>1. g \in Nat /\ g > 0
  BY LedgerAssumption
<1>2. t <= g /\ -g <= t
  <2>1. s + t \in Int
    OBVIOUS
  <2>2. /\ Fixed(s) \in Int
        /\ 2 * (Fixed(s) - s) <= g /\ -g <= 2 * (Fixed(s) - s)
        /\ 2 * (Fixed(s) - (s + t)) <= g /\ -g <= 2 * (Fixed(s) - (s + t))
    BY <2>1, FixedNear
  <2> HIDE DEF g, Fixed
  <2> QED
    BY <1>1, <2>2
<1>3. PICK n \in Int : /\ Fixed(t) = g * n /\ g * n \in Int
                       /\ 2 * t <= 2 * (g * n) + g
                       /\ 2 * (g * n) <= 2 * t + g
  BY RoundsTo
<1>4. g * 0 = 0 /\ g * 1 = g /\ g * (-1) = -g
  <2> HIDE DEF g
  <2> QED
    BY <1>1
<1>5. n = -1 \/ n = 0 \/ n = 1
  <2>1. 1 < n => g * 1 + g <= g * n
    BY MultiplesApart
  <2>2. n < -1 => g * n + g <= g * (-1)
    BY MultiplesApart
  <2>3. ~(1 < n) /\ ~(n < -1)
    <3> HIDE DEF g
    <3> QED
      BY <1>1, <1>2, <1>3, <1>4, <2>1, <2>2
  <2> QED
    BY <2>3
<1> QED
  BY <1>3, <1>4, <1>5

-----------------------------------------------------------------------------
(* The sums of an entry.                                                   *)

Amounts(lines) == [k \in DOMAIN lines |-> lines[k].amount]

DebitLines(lines) == {k \in DOMAIN lines : lines[k].debit # None}

CreditLines(lines) == {k \in DOMAIN lines : lines[k].credit # None}

LEMMA LinesType ==
  ASSUME NEW lines \in Seq(PostingLines)
  PROVE  /\ DOMAIN lines = 1 .. Len(lines) /\ Len(lines) \in Nat
         /\ IsFiniteSet(DOMAIN lines)
         /\ Cardinality(DOMAIN lines) = Len(lines)
         /\ \A k \in DOMAIN lines : lines[k] \in PostingLines
<1>1. DOMAIN lines = 1 .. Len(lines) /\ Len(lines) \in Nat
  OBVIOUS
<1>2. IsFiniteSet(1 .. Len(lines)) /\ Cardinality(1 .. Len(lines)) = Len(lines)
  BY <1>1, FS_Interval
<1>3. \A k \in DOMAIN lines : lines[k] \in PostingLines
  BY <1>1
<1> QED
  BY <1>1, <1>2, <1>3

LEMMA SumsOfLines ==
  ASSUME NEW lines \in Seq(PostingLines)
  PROVE  /\ Debits(lines) = SumFunctionOnSet(Amounts(lines), DebitLines(lines))
         /\ Credits(lines) = SumFunctionOnSet(Amounts(lines), CreditLines(lines))
         /\ Debits(lines) \in Int /\ Credits(lines) \in Int
         /\ \A k \in DOMAIN lines : Amounts(lines)[k] \in Int
<1>1. Debits(lines) = SumFunctionOnSet(Amounts(lines), DebitLines(lines))
  BY DEF Debits, SumOf, Amounts, DebitLines
<1>2. Credits(lines) = SumFunctionOnSet(Amounts(lines), CreditLines(lines))
  BY DEF Credits, SumOf, Amounts, CreditLines
<1>3. \A k \in DOMAIN lines : Amounts(lines)[k] \in Int
  BY LinesType DEF Amounts, PostingLines
<1>4. /\ IsFiniteSet(DOMAIN lines)
      /\ DebitLines(lines) \in SUBSET DOMAIN lines
      /\ CreditLines(lines) \in SUBSET DOMAIN lines
  BY LinesType DEF DebitLines, CreditLines
<1>5. IsFiniteSet(DebitLines(lines)) /\ IsFiniteSet(CreditLines(lines))
  BY <1>4, FS_Subset
<1>6. /\ SumFunctionOnSet(Amounts(lines), DebitLines(lines)) \in Int
      /\ SumFunctionOnSet(Amounts(lines), CreditLines(lines)) \in Int
  BY <1>3, <1>4, <1>5, SumInt
<1> QED
  BY <1>1, <1>2, <1>3, <1>6

(* The lines of a reversal have the sides swapped, and so do its sums.     *)
LEMMA MirrorSwaps ==
  ASSUME NEW lines \in Seq(PostingLines)
  PROVE  /\ Mirror(lines) \in Seq(PostingLines)
         /\ Len(Mirror(lines)) = Len(lines)
         /\ Debits(Mirror(lines)) = Credits(lines)
         /\ Credits(Mirror(lines)) = Debits(lines)
<1> DEFINE m == Mirror(lines)
<1>1. DOMAIN lines = 1 .. Len(lines) /\ Len(lines) \in Nat
  BY LinesType
<1>2. \A k \in DOMAIN lines : /\ m[k] \in PostingLines
                              /\ m[k].debit = lines[k].credit
                              /\ m[k].credit = lines[k].debit
                              /\ m[k].amount = lines[k].amount
  BY LinesType DEF Mirror, PostingLines
<1>3. m = [k \in 1 .. Len(lines) |-> m[k]]
  BY <1>1 DEF Mirror
<1>4. m \in Seq(PostingLines) /\ Len(m) = Len(lines) /\ DOMAIN m = DOMAIN lines
  <2> HIDE DEF m
  <2> QED
    BY <1>1, <1>2, <1>3
<1>5. /\ DebitLines(m) = CreditLines(lines)
      /\ CreditLines(m) = DebitLines(lines)
      /\ Amounts(m) = Amounts(lines)
  <2> HIDE DEF m
  <2> QED
    BY <1>2, <1>4 DEF DebitLines, CreditLines, Amounts
<1> HIDE DEF m
<1>6. Debits(m) = Credits(lines) /\ Credits(m) = Debits(lines)
  BY <1>4, <1>5, SumsOfLines
<1> QED
  BY <1>4, <1>6 DEF m

(* Rounding every line moves the difference of the sums by half a Grain    *)
(* per line at most.                                                       *)
LEMMA StoredType ==
  ASSUME NEW lines \in Seq(PostingLines)
  PROVE  /\ Stored(lines) \in Seq(PostingLines)
         /\ Len(Stored(lines)) = Len(lines)
         /\ DebitLines(Stored(lines)) = DebitLines(lines)
         /\ CreditLines(Stored(lines)) = CreditLines(lines)
         /\ \A k \in DOMAIN lines :
              Amounts(Stored(lines))[k] = Fixed(lines[k].amount)
<1> DEFINE m == Stored(lines)
<1>1. DOMAIN lines = 1 .. Len(lines) /\ Len(lines) \in Nat
  BY LinesType
<1>2. \A k \in DOMAIN lines : /\ m[k] \in PostingLines
                              /\ m[k].debit = lines[k].debit
                              /\ m[k].credit = lines[k].credit
                              /\ m[k].amount = Fixed(lines[k].amount)
  <2> SUFFICES ASSUME NEW k \in DOMAIN lines
               PROVE  /\ m[k] \in PostingLines
                      /\ m[k].debit = lines[k].debit
                      /\ m[k].credit = lines[k].credit
                      /\ m[k].amount = Fixed(lines[k].amount)
    OBVIOUS
  <2>1. lines[k] \in PostingLines
    BY LinesType
  <2>2. Fixed(lines[k].amount) \in Int
    BY <2>1, FixedNear DEF PostingLines
  <2>3. m[k] = [lines[k] EXCEPT !.amount = Fixed(lines[k].amount)]
    BY DEF Stored
  <2> QED
    BY <2>1, <2>2, <2>3 DEF PostingLines
<1>3. m = [k \in 1 .. Len(lines) |-> m[k]]
  BY <1>1 DEF Stored
<1>4. m \in Seq(PostingLines) /\ Len(m) = Len(lines) /\ DOMAIN m = DOMAIN lines
  <2> HIDE DEF m
  <2> QED
    BY <1>1, <1>2, <1>3
<1> HIDE DEF m
<1>5. DebitLines(m) = DebitLines(lines) /\ CreditLines(m) = CreditLines(lines)
  BY <1>2, <1>4 DEF DebitLines, CreditLines
<1>6. \A k \in DOMAIN lines : Amounts(m)[k] = Fixed(lines[k].amount)
  BY <1>2, <1>4 DEF Amounts
<1> QED
  BY <1>4, <1>5, <1>6 DEF m

LEMMA RoundingPerLine ==
  ASSUME NEW lines \in Seq(PostingLines), Debits(lines) = Credits(lines)
  PROVE  LET d == Debits(Stored(lines)) - Credits(Stored(lines))
         IN /\ 2 * d <= Grain * Len(lines)
            /\ -(2 * d) <= Grain * Len(lines)
<1> DEFINE K == DOMAIN lines
           D == DebitLines(lines)
           C == CreditLines(lines)
           a == Amounts(lines)
           s == Amounts(Stored(lines))
           r == [k \in K |-> s[k] - a[k]]       \* what rounding adds
           rd == [k \in K |-> IF k \in D THEN r[k] ELSE 0]
           rc == [k \in K |-> IF k \in C THEN r[k] ELSE 0]
           f == [k \in K |-> rd[k] - rc[k]]
           f2 == [k \in K |-> f[k] + f[k]]
<1>1. Grain \in Nat
  BY LedgerAssumption
<1>2. /\ IsFiniteSet(K) /\ Cardinality(K) = Len(lines)
      /\ D \in SUBSET K /\ C \in SUBSET K
  BY LinesType DEF DebitLines, CreditLines
<1>3. IsFiniteSet(D) /\ IsFiniteSet(C)
  BY <1>2, FS_Subset
<1>4. \A k \in K : /\ a[k] \in Int /\ s[k] \in Int /\ r[k] = s[k] - a[k]
                   /\ 2 * r[k] <= Grain /\ -Grain <= 2 * r[k]
  <2> TAKE k \in K
  <2>1. a[k] = lines[k].amount /\ a[k] \in Int
    BY SumsOfLines DEF Amounts
  <2>2. s[k] = Fixed(a[k])
    BY <2>1, StoredType
  <2> QED
    BY <2>1, <2>2, FixedNear
<1>5. /\ \A k \in D : rd[k] = r[k]
      /\ \A k \in K \ D : rd[k] = 0
      /\ \A k \in C : rc[k] = r[k]
      /\ \A k \in K \ C : rc[k] = 0
      /\ \A k \in K : f[k] = rd[k] - rc[k] /\ f2[k] = f[k] + f[k]
  BY <1>2
<1>6. /\ Debits(lines) = SumFunctionOnSet(a, D)
      /\ Credits(lines) = SumFunctionOnSet(a, C)
  BY SumsOfLines
<1>7. /\ Debits(Stored(lines)) = SumFunctionOnSet(s, D)
      /\ Credits(Stored(lines)) = SumFunctionOnSet(s, C)
  BY StoredType, SumsOfLines
<1> HIDE DEF K, D, C, a, s, r, rd, rc, f, f2
<1>8. \A k \in K : r[k] \in Int /\ rd[k] \in Int /\ rc[k] \in Int
                   /\ f[k] \in Int /\ f2[k] \in Int
  <2> TAKE k \in K
  <2>1. r[k] \in Int
    BY <1>4
  <2>2. (rd[k] = r[k] \/ rd[k] = 0) /\ (rc[k] = r[k] \/ rc[k] = 0)
    BY <1>5
  <2>3. f[k] = rd[k] - rc[k] /\ f2[k] = f[k] + f[k]
    BY <1>5
  <2>4. rd[k] \in Int /\ rc[k] \in Int
    BY <2>1, <2>2
  <2>5. f[k] \in Int
    BY <2>3, <2>4
  <2> QED
    BY <2>1, <2>3, <2>4, <2>5
<1>9. SumFunctionOnSet(r, D) = SumFunctionOnSet(s, D) - SumFunctionOnSet(a, D)
  <2>1. \A k \in D : s[k] \in Int /\ a[k] \in Int /\ r[k] = s[k] - a[k]
    BY <1>2, <1>4
  <2> QED
    BY <1>3, <2>1, SumMinus
<1>10. SumFunctionOnSet(r, C) = SumFunctionOnSet(s, C) - SumFunctionOnSet(a, C)
  <2>1. \A k \in C : s[k] \in Int /\ a[k] \in Int /\ r[k] = s[k] - a[k]
    BY <1>2, <1>4
  <2> QED
    BY <1>3, <2>1, SumMinus
<1>11. SumFunctionOnSet(rd, K) = SumFunctionOnSet(r, D)
  <2>1. \A k \in D : r[k] \in Int /\ rd[k] = r[k]
    BY <1>2, <1>5, <1>8
  <2> QED
    BY <1>2, <1>5, <2>1, SumSupport
<1>12. SumFunctionOnSet(rc, K) = SumFunctionOnSet(r, C)
  <2>1. \A k \in C : r[k] \in Int /\ rc[k] = r[k]
    BY <1>2, <1>5, <1>8
  <2> QED
    BY <1>2, <1>5, <2>1, SumSupport
<1>13. SumFunctionOnSet(f, K) = SumFunctionOnSet(rd, K) - SumFunctionOnSet(rc, K)
  <2>1. \A k \in K : rd[k] \in Int /\ rc[k] \in Int /\ f[k] = rd[k] - rc[k]
    BY <1>5, <1>8
  <2> QED
    BY <1>2, <2>1, SumMinus
<1>14. SumFunctionOnSet(f2, K) = SumFunctionOnSet(f, K) + SumFunctionOnSet(f, K)
  <2>1. \A k \in K : f[k] \in Int /\ f2[k] = f[k] + f[k]
    BY <1>5, <1>8
  <2> QED
    BY <1>2, <2>1, SumPlus
<1>15. /\ SumFunctionOnSet(f2, K) <= Grain * Cardinality(K)
       /\ -SumFunctionOnSet(f2, K) <= Grain * Cardinality(K)
  <2>1. ASSUME NEW k \in K PROVE f2[k] \in Int /\ -Grain <= f2[k] /\ f2[k] <= Grain
    <3>1. /\ r[k] \in Int /\ f2[k] = f[k] + f[k] /\ f[k] = rd[k] - rc[k]
          /\ 2 * r[k] <= Grain /\ -Grain <= 2 * r[k]
      BY <1>4, <1>5, <1>8
    <3>2. (rd[k] = r[k] \/ rd[k] = 0) /\ (rc[k] = r[k] \/ rc[k] = 0)
      BY <1>5
    <3> QED
      BY <1>1, <3>1, <3>2
  <2> QED
    BY <1>1, <1>2, <2>1, SumBound
<1>16. /\ SumFunctionOnSet(s, D) \in Int /\ SumFunctionOnSet(s, C) \in Int
       /\ SumFunctionOnSet(a, D) \in Int /\ SumFunctionOnSet(f, K) \in Int
  <2>1. /\ \A k \in D : a[k] \in Int /\ s[k] \in Int
        /\ \A k \in C : s[k] \in Int
    BY <1>2, <1>4
  <2> QED
    BY <1>2, <1>3, <1>8, <2>1, SumInt
<1>17. SumFunctionOnSet(f, K) = SumFunctionOnSet(s, D) - SumFunctionOnSet(s, C)
  <2>1. SumFunctionOnSet(a, D) = SumFunctionOnSet(a, C)
    BY <1>6
  <2>2. SumFunctionOnSet(f, K)
          = (SumFunctionOnSet(s, D) - SumFunctionOnSet(a, D))
              - (SumFunctionOnSet(s, C) - SumFunctionOnSet(a, D))
    BY <1>9, <1>10, <1>11, <1>12, <1>13, <2>1
  <2> QED
    BY <1>16, <2>2
<1>18. SumFunctionOnSet(f2, K)
         = 2 * (Debits(Stored(lines)) - Credits(Stored(lines)))
  BY <1>7, <1>14, <1>16, <1>17
<1> QED
  BY <1>2, <1>15, <1>18

-----------------------------------------------------------------------------
(* The reports.                                                            *)

\* What the lines debit, and credit, account a with.
DebitOn(lines, a) ==
  SumFunctionOnSet(Amounts(lines), {k \in DOMAIN lines : lines[k].debit = a})

CreditOn(lines, a) ==
  SumFunctionOnSet(Amounts(lines), {k \in DOMAIN lines : lines[k].credit = a})

LEMMA SumsOnAccount ==
  ASSUME NEW lines \in Seq(PostingLines), NEW a
  PROVE  DebitOn(lines, a) \in Int /\ CreditOn(lines, a) \in Int
<1> DEFINE D == {k \in DOMAIN lines : lines[k].debit = a}
           C == {k \in DOMAIN lines : lines[k].credit = a}
<1>1. IsFiniteSet(D) /\ IsFiniteSet(C) /\ D \subseteq DOMAIN lines
        /\ C \subseteq DOMAIN lines
  <2>1. D \in SUBSET DOMAIN lines /\ C \in SUBSET DOMAIN lines
    OBVIOUS
  <2> HIDE DEF D, C
  <2> QED
    BY <2>1, LinesType, FS_Subset
<1>2. /\ \A k \in D : Amounts(lines)[k] \in Int
      /\ \A k \in C : Amounts(lines)[k] \in Int
  <2> HIDE DEF D, C
  <2> QED
    BY <1>1, SumsOfLines
<1>3. SumFunctionOnSet(Amounts(lines), D) \in Int
  <2> HIDE DEF D, C
  <2> QED
    BY <1>1, <1>2, SumInt
<1>4. SumFunctionOnSet(Amounts(lines), C) \in Int
  <2> HIDE DEF D, C
  <2> QED
    BY <1>1, <1>2, SumInt
<1> QED
  BY <1>3, <1>4 DEF DebitOn, CreditOn

LEMMA OwnFinite == IsFiniteSet(Own)
<1>1. Own \in SUBSET Accounts
  BY DEF Own
<1> QED
  BY <1>1, LedgerAssumption, FS_Subset

(* Over the accounts shown, these are the sums of the lines on one of them. *)
LEMMA SumsOverAccounts ==
  ASSUME NEW lines \in Seq(PostingLines)
  PROVE  /\ SumFunctionOnSet([a \in Own |-> DebitOn(lines, a)], Own)
              = SumOf(lines, LAMBDA l : l.debit \in Own)
         /\ SumFunctionOnSet([a \in Own |-> CreditOn(lines, a)], Own)
              = SumOf(lines, LAMBDA l : l.credit \in Own)
<1> DEFINE K == DOMAIN lines
           f == Amounts(lines)
           O == Own
           dr == [k \in K |-> lines[k].debit]
           cr == [k \in K |-> lines[k].credit]
<1>1. IsFiniteSet(K) /\ IsFiniteSet(O) /\ \A k \in K : f[k] \in Int
  BY LinesType, SumsOfLines, OwnFinite
<1>2. /\ {k \in K : dr[k] \in O} = {k \in K : lines[k].debit \in O}
      /\ {k \in K : cr[k] \in O} = {k \in K : lines[k].credit \in O}
  <2> HIDE DEF O
  <2> QED
    OBVIOUS
<1>3. /\ SumOf(lines, LAMBDA l : l.debit \in Own)
           = SumFunctionOnSet(f, {k \in K : dr[k] \in O})
      /\ SumOf(lines, LAMBDA l : l.credit \in Own)
           = SumFunctionOnSet(f, {k \in K : cr[k] \in O})
  BY <1>2 DEF SumOf, Amounts
<1>4. /\ [a \in O |-> DebitOn(lines, a)]
           = [a \in O |-> SumFunctionOnSet(f, {k \in K : dr[k] = a})]
      /\ [a \in O |-> CreditOn(lines, a)]
           = [a \in O |-> SumFunctionOnSet(f, {k \in K : cr[k] = a})]
  <2>1. ASSUME NEW a
        PROVE  /\ {k \in K : lines[k].debit = a} = {k \in K : dr[k] = a}
               /\ {k \in K : lines[k].credit = a} = {k \in K : cr[k] = a}
    OBVIOUS
  <2>2. ASSUME NEW a
        PROVE  /\ DebitOn(lines, a) = SumFunctionOnSet(f, {k \in K : dr[k] = a})
               /\ CreditOn(lines, a) = SumFunctionOnSet(f, {k \in K : cr[k] = a})
    BY <2>1 DEF DebitOn, CreditOn
  <2> HIDE DEF K, f, O, dr, cr
  <2> QED
    BY <2>2
<1> HIDE DEF K, f, O, dr, cr
<1>5. SumFunctionOnSet([a \in O |->
                          SumFunctionOnSet(f, {k \in K : dr[k] = a})], O)
        = SumFunctionOnSet(f, {k \in K : dr[k] \in O})
  BY <1>1, SumByKey
<1>6. SumFunctionOnSet([a \in O |->
                          SumFunctionOnSet(f, {k \in K : cr[k] = a})], O)
        = SumFunctionOnSet(f, {k \in K : cr[k] \in O})
  BY <1>1, SumByKey
<1>7. /\ SumFunctionOnSet([a \in O |-> DebitOn(lines, a)], O)
           = SumOf(lines, LAMBDA l : l.debit \in Own)
      /\ SumFunctionOnSet([a \in O |-> CreditOn(lines, a)], O)
           = SumOf(lines, LAMBDA l : l.credit \in Own)
  BY <1>3, <1>4, <1>5, <1>6
<1> QED
  BY <1>7 DEF O

\* Debit minus credit of the lines on account a.
NetOn(lines, a) == DebitOn(lines, a) - CreditOn(lines, a)

LEMMA NetOverAccounts ==
  ASSUME NEW lines \in Seq(PostingLines)
  PROVE  SumFunctionOnSet([a \in Own |-> NetOn(lines, a)], Own) = OffOwn(lines)
<1> DEFINE O == Own
           d == [a \in O |-> DebitOn(lines, a)]
           c == [a \in O |-> CreditOn(lines, a)]
           n == [a \in O |-> NetOn(lines, a)]
<1>1. \A a \in O : d[a] \in Int /\ c[a] \in Int /\ n[a] = d[a] - c[a]
  BY SumsOnAccount DEF NetOn
<1>2. IsFiniteSet(O)
  BY OwnFinite
<1>3. OffOwn(lines) = SumFunctionOnSet(d, O) - SumFunctionOnSet(c, O)
  BY SumsOverAccounts DEF OffOwn
<1>4. SumFunctionOnSet(n, O) = SumFunctionOnSet(d, O) - SumFunctionOnSet(c, O)
  <2> HIDE DEF d, c, n, O
  <2> QED
    BY <1>1, <1>2, SumMinus
<1> QED
  BY <1>3, <1>4

LEMMA NetIsSum ==
  ASSUME NEW S, NEW a
  PROVE  Net(S, a) = SumFunctionOnSet([e \in S |-> NetOn(e.lines, a)], S)
BY DEF Net, SumOf, SumFunction, NetOn, DebitOn, CreditOn, Amounts

(* All the entries say of the accounts shown.                              *)
LEMMA NetsAddUp ==
  ASSUME NEW S, IsFiniteSet(S), \A e \in S : e.lines \in Seq(PostingLines)
  PROVE  /\ \A a \in Own : Net(S, a) \in Int
         /\ SumFunctionOnSet([a \in Own |-> Net(S, a)], Own)
              = SumFunction([e \in S |-> OffOwn(e.lines)])
<1> DEFINE f == [e \in S |-> [a \in Own |-> NetOn(e.lines, a)]]
           byEntry == [e \in S |-> SumFunctionOnSet(f[e], Own)]
           byAccount == [a \in Own |->
                           SumFunctionOnSet([e \in S |-> f[e][a]], S)]
<1>1. IsFiniteSet(Own)
  BY OwnFinite
<1>2. \A e \in S : \A a \in Own : f[e][a] = NetOn(e.lines, a) /\ f[e][a] \in Int
  BY SumsOnAccount DEF NetOn
<1>3. \A a \in Own :
        /\ [e \in S |-> f[e][a]] = [e \in S |-> NetOn(e.lines, a)]
        /\ \A x \in S : [e \in S |-> f[e][a]][x] \in Int
  <2> HIDE DEF f
  <2> QED
    BY <1>2
<1>4. \A a \in Own :
        /\ Net(S, a) = SumFunctionOnSet([e \in S |-> f[e][a]], S)
        /\ Net(S, a) \in Int
  <2> TAKE a \in Own
  <2> DEFINE h == [e \in S |-> f[e][a]]
  <2>1. Net(S, a) = SumFunctionOnSet(h, S) /\ \A e \in S : h[e] \in Int
    <3> HIDE DEF f
    <3> QED
      BY <1>3, NetIsSum
  <2> HIDE DEF h
  <2>2. SumFunctionOnSet(h, S) \in Int
    BY <2>1, SumInt
  <2> QED
    BY <2>1, <2>2 DEF h
<1>5. [a \in Own |-> Net(S, a)] = byAccount
  <2> HIDE DEF f
  <2> QED
    BY <1>4
<1>6. [e \in S |-> OffOwn(e.lines)] = byEntry
  <2>1. ASSUME NEW e \in S
        PROVE  OffOwn(e.lines) = SumFunctionOnSet(f[e], Own)
    <3>1. f[e] = [a \in Own |-> NetOn(e.lines, a)]
      OBVIOUS
    <3> QED
      BY <3>1, NetOverAccounts
  <2> HIDE DEF f
  <2> QED
    BY <2>1
<1>7. SumFunctionOnSet(byEntry, S) = SumFunctionOnSet(byAccount, Own)
  <2> HIDE DEF f
  <2> QED
    BY <1>1, <1>2, SumSwap
<1>8. DOMAIN byEntry = S
  OBVIOUS
<1> HIDE DEF byEntry, byAccount
<1> QED
  BY <1>4, <1>5, <1>6, <1>7, <1>8 DEF SumFunction

OfAccountType(t) == {a \in Own : chart[a].type = t}

\* Every account has a row, or none, and those deleted have none.
ChartOK ==
  /\ chart \in [Accounts -> AccountRows \union {None}]
  /\ deleted \subseteq Accounts
  /\ \A a \in deleted : chart[a] = None

(* The total of a type is the sum of its nets, with the sign of the type.  *)
LEMMA TotalsOfTypes ==
  ASSUME NEW S, \A a \in Own : Net(S, a) \in Int,
         NEW t \in AccountTypes
  PROVE  LET n == SumFunctionOnSet([a \in Own |-> Net(S, a)], OfAccountType(t))
         IN /\ n \in Int
            /\ TotalOf(S, t) = IF t \in {"ASSET", "EXPENSE"} THEN n ELSE -n
<1> DEFINE A == OfAccountType(t)
           f == [a \in Own |-> Net(S, a)]
           zero == [a \in A |-> 0]
           g == [a \in A |-> Balance(S, a)]
<1>1. IsFiniteSet(A) /\ A \subseteq Own
  <2>1. A \in SUBSET Own
    BY DEF OfAccountType
  <2> QED
    BY <2>1, OwnFinite, FS_Subset
<1>2. \A a \in A : /\ f[a] \in Int /\ zero[a] = 0
                   /\ g[a] = IF t \in {"ASSET", "EXPENSE"} THEN f[a] ELSE -f[a]
  BY <1>1 DEF Balance, NormalDebit, OfAccountType
<1>3. TotalOf(S, t) = SumFunctionOnSet(g, A)
  BY DEF TotalOf, SumFunction, OfAccountType
<1> HIDE DEF A, f, g, zero
<1>4. SumFunctionOnSet(f, A) \in Int /\ SumFunctionOnSet(zero, A) = 0
  BY <1>1, <1>2, SumInt, SumZero
<1>5. CASE t \in {"ASSET", "EXPENSE"}
  <2>1. \A a \in A : f[a] \in Int /\ g[a] = f[a]
    BY <1>2, <1>5
  <2>2. SumFunctionOnSet(g, A) = SumFunctionOnSet(f, A)
    BY <1>1, <2>1, SumSame
  <2> QED
    BY <1>3, <1>4, <1>5, <2>2 DEF A, f
<1>6. CASE t \notin {"ASSET", "EXPENSE"}
  <2>1. \A a \in A : zero[a] \in Int /\ f[a] \in Int /\ g[a] = zero[a] - f[a]
    BY <1>2, <1>6
  <2>2. SumFunctionOnSet(g, A) = SumFunctionOnSet(zero, A) - SumFunctionOnSet(f, A)
    BY <1>1, <2>1, SumMinus
  <2>3. SumFunctionOnSet(g, A) = -SumFunctionOnSet(f, A)
    BY <1>4, <2>2
  <2> QED
    BY <1>3, <1>4, <1>6, <2>3 DEF A, f
<1> QED
  BY <1>5, <1>6

(* Every account is of one of the five types.                              *)
LEMMA FiveTypes ==
  ASSUME ChartOK, NEW f, \A a \in Own : f[a] \in Int
  PROVE  LET n(t) == SumFunctionOnSet(f, OfAccountType(t))
         IN SumFunctionOnSet(f, Own)
              = n("ASSET") + (n("LIABILITY") + (n("EQUITY")
                  + (n("INCOME") + n("EXPENSE"))))
<1> DEFINE n(t) == SumFunctionOnSet(f, OfAccountType(t))
           F == [t \in AccountTypes |-> n(t)]
<1>1. IsFiniteSet(Own) /\ \A a \in Own : chart[a].type \in AccountTypes
  BY OwnFinite DEF Own, ChartOK, AccountRows
<1>2. \A t \in AccountTypes : F[t] = n(t) /\ F[t] \in Int
  <2> TAKE t \in AccountTypes
  <2>1. OfAccountType(t) \in SUBSET Own
    BY DEF OfAccountType
  <2>2. n(t) \in Int
    BY <1>1, <2>1, FS_Subset, SumInt
  <2> QED
    BY <2>2
<1> DEFINE T1 == {"EXPENSE"}
           T2 == T1 \union {"INCOME"}
           T3 == T2 \union {"EQUITY"}
           T4 == T3 \union {"LIABILITY"}
           T5 == T4 \union {"ASSET"}
<1>3. T5 = AccountTypes
  BY DEF AccountTypes
<1>4. /\ "INCOME" \notin T1 /\ "EQUITY" \notin T2
      /\ "LIABILITY" \notin T3 /\ "ASSET" \notin T4
  OBVIOUS
<1>5. /\ IsFiniteSet(T1) /\ IsFiniteSet(T2) /\ IsFiniteSet(T3)
      /\ IsFiniteSet(T4) /\ IsFiniteSet(T5)
  <2>1. IsFiniteSet(T1)
    BY FS_Singleton
  <2>2. IsFiniteSet(T2)
    BY <2>1, FS_AddElement
  <2>3. IsFiniteSet(T3)
    BY <2>2, FS_AddElement
  <2>4. IsFiniteSet(T4)
    BY <2>3, FS_AddElement
  <2>5. IsFiniteSet(T5)
    BY <2>4, FS_AddElement
  <2> QED
    BY <2>1, <2>2, <2>3, <2>4, <2>5
<1>6. \A t \in T5 : F[t] \in Int /\ F[t] = n(t)
  BY <1>2, <1>3
<1>7. SumFunctionOnSet(f, Own) = SumFunctionOnSet(F, T5)
  <2> DEFINE O == Own
             ty == [a \in O |-> chart[a].type]
  <2>1. SumFunctionOnSet([t \in AccountTypes |->
                            SumFunctionOnSet(f, {a \in O : ty[a] = t})],
                         AccountTypes)
          = SumFunctionOnSet(f, {a \in O : ty[a] \in AccountTypes})
    <3>1. IsFiniteSet(AccountTypes)
      BY <1>3, <1>5
    <3> HIDE DEF ty
    <3> QED
      BY <1>1, <3>1, SumByKey
  <2>2. {a \in O : ty[a] \in AccountTypes} = O
    BY <1>1
  <2>3. F = [t \in AccountTypes |->
               SumFunctionOnSet(f, {a \in O : ty[a] = t})]
    <3>1. ASSUME NEW t
          PROVE  OfAccountType(t) = {a \in O : ty[a] = t}
      BY DEF OfAccountType
    <3> QED
      BY <3>1
  <2> HIDE DEF F
  <2> QED
    BY <1>3, <2>1, <2>2, <2>3
<1> HIDE DEF F
<1>8. SumFunctionOnSet(F, T1) = F["EXPENSE"]
  <2>1. T1 = {} \union {"EXPENSE"} /\ "EXPENSE" \notin {}
    OBVIOUS
  <2>2. SumFunctionOnSet(F, {} \union {"EXPENSE"})
          = F["EXPENSE"] + SumFunctionOnSet(F, {})
    BY <1>6, FS_EmptySet, SumAdd
  <2> QED
    BY <1>6, <2>1, <2>2, SumEmpty
<1>9. SumFunctionOnSet(F, T2) = F["INCOME"] + SumFunctionOnSet(F, T1)
  <2>1. \A t \in T1 \union {"INCOME"} : F[t] \in Int
    BY <1>6
  <2> HIDE DEF T1
  <2> QED
    BY <1>4, <1>5, <2>1, SumAdd
<1>10. SumFunctionOnSet(F, T3) = F["EQUITY"] + SumFunctionOnSet(F, T2)
  <2>1. \A t \in T2 \union {"EQUITY"} : F[t] \in Int
    BY <1>6
  <2> HIDE DEF T2
  <2> QED
    BY <1>4, <1>5, <2>1, SumAdd
<1>11. SumFunctionOnSet(F, T4) = F["LIABILITY"] + SumFunctionOnSet(F, T3)
  <2>1. \A t \in T3 \union {"LIABILITY"} : F[t] \in Int
    BY <1>6
  <2> HIDE DEF T3
  <2> QED
    BY <1>4, <1>5, <2>1, SumAdd
<1>12. SumFunctionOnSet(F, T5) = F["ASSET"] + SumFunctionOnSet(F, T4)
  <2>1. \A t \in T4 \union {"ASSET"} : F[t] \in Int
    BY <1>6
  <2> HIDE DEF T4
  <2> QED
    BY <1>4, <1>5, <2>1, SumAdd
<1>13. /\ F["ASSET"] = n("ASSET") /\ F["LIABILITY"] = n("LIABILITY")
       /\ F["EQUITY"] = n("EQUITY") /\ F["INCOME"] = n("INCOME")
       /\ F["EXPENSE"] = n("EXPENSE")
  BY <1>6
<1> HIDE DEF T1, T2, T3, T4, T5, n
<1>14. SumFunctionOnSet(f, Own)
         = n("ASSET") + (n("LIABILITY") + (n("EQUITY")
             + (n("INCOME") + n("EXPENSE"))))
  BY <1>7, <1>8, <1>9, <1>10, <1>11, <1>12, <1>13
<1> QED
  BY <1>14 DEF n

LEMMA ReportsAgree ==
  ASSUME ChartOK, NEW S, IsFiniteSet(S), \A e \in S : e.lines \in Seq(PostingLines)
  PROVE  Check(S) = NetIncome(S) + SumFunction([e \in S |-> OffOwn(e.lines)])
<1> DEFINE f == [a \in Own |-> Net(S, a)]
           n(t) == SumFunctionOnSet(f, OfAccountType(t))
<1>1. /\ \A a \in Own : f[a] \in Int
      /\ SumFunctionOnSet(f, Own) = SumFunction([e \in S |-> OffOwn(e.lines)])
  BY NetsAddUp
<1>2. \A t \in AccountTypes :
        /\ n(t) \in Int
        /\ TotalOf(S, t) = IF t \in {"ASSET", "EXPENSE"} THEN n(t) ELSE -n(t)
  <2>1. \A a \in Own : Net(S, a) \in Int
    BY NetsAddUp
  <2> QED
    BY <2>1, TotalsOfTypes
<1>3. /\ TotalOf(S, "ASSET") = n("ASSET") /\ n("ASSET") \in Int
      /\ TotalOf(S, "LIABILITY") = -n("LIABILITY") /\ n("LIABILITY") \in Int
      /\ TotalOf(S, "EQUITY") = -n("EQUITY") /\ n("EQUITY") \in Int
      /\ TotalOf(S, "INCOME") = -n("INCOME") /\ n("INCOME") \in Int
      /\ TotalOf(S, "EXPENSE") = n("EXPENSE") /\ n("EXPENSE") \in Int
  <2> HIDE DEF n
  <2> QED
    BY <1>2 DEF AccountTypes
<1>4. SumFunctionOnSet(f, Own)
        = n("ASSET") + (n("LIABILITY") + (n("EQUITY")
            + (n("INCOME") + n("EXPENSE"))))
  <2> HIDE DEF f
  <2> QED
    BY <1>1, FiveTypes
<1> HIDE DEF n, f
<1>5. Check(S) = NetIncome(S) + SumFunctionOnSet(f, Own)
  BY <1>3, <1>4 DEF Check, NetIncome
<1> QED
  BY <1>1, <1>5

-----------------------------------------------------------------------------
(* The lines of an invoice.                                                *)

\* The totals of an invoice are those of some draft, rounded apart.
Rounded(i) ==
  \E s, t \in Int : /\ i.subtotal = Fixed(s) /\ i.tax = Fixed(t)
                    /\ i.total = Fixed(s + t)

LEMMA OneMore ==
  ASSUME NEW x, NEW y, NEW z
  PROVE  LET s == <<x, y>> \o <<z>>
         IN /\ s \in Seq({x, y, z}) /\ Len(s) = 3
            /\ s[1] = x /\ s[2] = y /\ s[3] = z
<1>1. <<x, y>> \in Seq({x, y, z}) /\ <<z>> \in Seq({x, y, z})
  OBVIOUS
<1>2. Len(<<x, y>>) = 2 /\ Len(<<z>>) = 1
  OBVIOUS
<1> QED
  BY <1>1, <1>2

LEMMA NoneMore ==
  ASSUME NEW x, NEW y
  PROVE  <<x, y>> \o <<>> = <<x, y>>
<1>1. <<x, y>> \in Seq({x, y})
  OBVIOUS
<1> QED
  BY <1>1

LEMMA LinesOfInvoice ==
  ASSUME NEW i, NEW a \in Postings
  PROVE  LET L == InvoiceLines(i, a)
             TaxLine == i.tax > 0 /\ a.tax # None
         IN /\ L \in Seq(Range(L)) /\ Len(L) = (IF TaxLine THEN 3 ELSE 2)
            /\ L[1] = [debit |-> a.receivable, credit |-> None, amount |-> i.total]
            /\ L[2] = [debit |-> None, credit |-> a.revenue, amount |-> i.subtotal]
            /\ TaxLine =>
                 L[3] = [debit |-> None, credit |-> a.tax, amount |-> i.tax]
<1> DEFINE l1 == [debit |-> a.receivable, credit |-> None, amount |-> i.total]
           l2 == [debit |-> None, credit |-> a.revenue, amount |-> i.subtotal]
           l3 == [debit |-> None, credit |-> a.tax, amount |-> i.tax]
           L == InvoiceLines(i, a)
<1>1. CASE i.tax > 0 /\ a.tax # None
  <2>1. L = <<l1, l2>> \o <<l3>>
    BY <1>1 DEF InvoiceLines
  <2> HIDE DEF L, l1, l2, l3
  <2>2. /\ L \in Seq({l1, l2, l3}) /\ Len(L) = 3
        /\ L[1] = l1 /\ L[2] = l2 /\ L[3] = l3
    BY <2>1, OneMore
  <2>3. L \in Seq(Range(L))
    BY <2>2 DEF Range
  <2> QED
    BY <1>1, <2>2, <2>3 DEF L, l1, l2, l3
<1>2. CASE ~(i.tax > 0 /\ a.tax # None)
  <2>1. L = <<l1, l2>> \o <<>>
    BY <1>2 DEF InvoiceLines
  <2> HIDE DEF L, l1, l2
  <2>2. L = <<l1, l2>>
    BY <2>1, NoneMore
  <2>3. L \in Seq({l1, l2}) /\ Len(L) = 2 /\ L[1] = l1 /\ L[2] = l2
    BY <2>2
  <2>4. L \in Seq(Range(L))
    BY <2>3 DEF Range
  <2> QED
    BY <1>2, <2>3, <2>4 DEF L, l1, l2
<1> QED
  BY <1>1, <1>2

LEMMA InvoiceLinesType ==
  ASSUME NEW i, Rounded(i), NEW a \in Postings
  PROVE  /\ InvoiceLines(i, a) \in Seq(PostingLines)
         /\ Stored(InvoiceLines(i, a)) = InvoiceLines(i, a)
<1> DEFINE L == InvoiceLines(i, a)
<1>0. /\ L \in Seq(Range(L))
      /\ Len(L) = IF i.tax > 0 /\ a.tax # None THEN 3 ELSE 2
      /\ L[1] = [debit |-> a.receivable, credit |-> None, amount |-> i.total]
      /\ L[2] = [debit |-> None, credit |-> a.revenue, amount |-> i.subtotal]
      /\ i.tax > 0 /\ a.tax # None =>
           L[3] = [debit |-> None, credit |-> a.tax, amount |-> i.tax]
  BY LinesOfInvoice
<1>1. /\ i.total \in Int /\ Fixed(i.total) = i.total
      /\ i.subtotal \in Int /\ Fixed(i.subtotal) = i.subtotal
      /\ i.tax \in Int /\ Fixed(i.tax) = i.tax
  <2>1. PICK s \in Int, t \in Int : /\ i.subtotal = Fixed(s) /\ i.tax = Fixed(t)
                                    /\ i.total = Fixed(s + t)
    BY DEF Rounded
  <2>2. s + t \in Int
    OBVIOUS
  <2> QED
    BY <2>1, <2>2, FixedTwice
<1>2. a \in PostingInputs
  BY InvoicingAssumption
<1>3. \A k \in 1 .. Len(L) :
        /\ L[k] \in PostingLines
        /\ Fixed(L[k].amount) = L[k].amount
  <2> TAKE k \in 1 .. Len(L)
  <2>1. L[1] \in PostingLines /\ Fixed(L[1].amount) = L[1].amount
    BY <1>1, <1>2, <1>0 DEF PostingLines, PostingInputs
  <2>2. L[2] \in PostingLines /\ Fixed(L[2].amount) = L[2].amount
    BY <1>1, <1>2, <1>0 DEF PostingLines, PostingInputs
  <2>3. CASE Len(L) = 2
    BY <2>1, <2>2, <2>3
  <2>4. CASE Len(L) = 3
    <3>0. /\ a.tax # None
          /\ L[3] = [debit |-> None, credit |-> a.tax, amount |-> i.tax]
      BY <1>0, <2>4
    <3>1. L[3] \in PostingLines /\ Fixed(L[3].amount) = L[3].amount
      BY <1>1, <1>2, <3>0 DEF PostingLines, PostingInputs
    <3>2. k = 1 \/ k = 2 \/ k = 3
      BY <2>4
    <3> QED
      BY <2>1, <2>2, <3>1, <3>2
  <2> QED
    BY <2>3, <2>4, <1>0
<1>4. DOMAIN L = 1 .. Len(L) /\ L = [k \in 1 .. Len(L) |-> L[k]] /\ Len(L) \in Nat
  <2>1. L \in Seq(Range(L))
    BY <1>0
  <2> HIDE DEF L
  <2> QED
    BY <2>1
<1> HIDE DEF L
<1>5. L \in Seq(PostingLines)
  BY <1>3, <1>4
<1>6. Stored(L) = L
  <2>1. \A k \in DOMAIN L : [L[k] EXCEPT !.amount = Fixed(@)] = L[k]
    <3> TAKE k \in DOMAIN L
    <3>1. L[k] \in PostingLines /\ Fixed(L[k].amount) = L[k].amount
      BY <1>3, <1>4
    <3> HIDE DEF L
    <3> QED
      BY <3>1 DEF PostingLines
  <2> QED
    BY <1>4, <2>1 DEF Stored
<1> QED
  BY <1>5, <1>6 DEF L

(* An invoice the ledger takes is posted with its total on both sides.     *)
LEMMA InvoicePosted ==
  ASSUME NEW i, Rounded(i), NEW a \in Postings, Accepted(InvoiceLines(i, a))
  PROVE  LET L == InvoiceLines(i, a)
         IN /\ Debits(L) = i.total /\ Credits(L) = i.total
            /\ i.subtotal + i.tax - i.total \in {-Grain, 0, Grain}
            /\ Len(L) = 3 => i.subtotal + i.tax = i.total
<1> DEFINE L == InvoiceLines(i, a)
           f == Amounts(L)
<1>0. /\ L \in Seq(Range(L))
      /\ Len(L) = IF i.tax > 0 /\ a.tax # None THEN 3 ELSE 2
      /\ L[1] = [debit |-> a.receivable, credit |-> None, amount |-> i.total]
      /\ L[2] = [debit |-> None, credit |-> a.revenue, amount |-> i.subtotal]
      /\ i.tax > 0 /\ a.tax # None =>
           L[3] = [debit |-> None, credit |-> a.tax, amount |-> i.tax]
  BY LinesOfInvoice
<1>1. L \in Seq(PostingLines) /\ Debits(L) = Credits(L)
  BY InvoiceLinesType DEF Accepted
<1>2. PICK s \in Int, t \in Int : /\ i.subtotal = Fixed(s) /\ i.tax = Fixed(t)
                                  /\ i.total = Fixed(s + t)
  BY DEF Rounded
<1>3. /\ Fixed(s) \in Int /\ Fixed(t) \in Int /\ Fixed(s + t) \in Int
  <2>1. s + t \in Int
    OBVIOUS
  <2> QED
    BY <2>1, FixedTwice
<1>4. a.receivable # None /\ a.revenue # None
  BY InvoicingAssumption, LedgerAssumption DEF PostingInputs
<1>5. /\ DOMAIN L = 1 .. Len(L)
      /\ Debits(L) = SumFunctionOnSet(f, DebitLines(L))
      /\ Credits(L) = SumFunctionOnSet(f, CreditLines(L))
      /\ \A k \in DOMAIN L : f[k] = L[k].amount /\ f[k] \in Int
  <2> HIDE DEF L
  <2> QED
    BY <1>1, LinesType, SumsOfLines DEF Amounts
<1>6. /\ L[1].debit = a.receivable /\ L[1].credit = None /\ L[1].amount = i.total
      /\ L[2].debit = None /\ L[2].credit = a.revenue /\ L[2].amount = i.subtotal
  BY <1>0
<1>7. CASE Len(L) = 2
  <2> HIDE DEF L, f
  <2>1. DOMAIN L = {1, 2}
    BY <1>5, <1>7
  <2>2. DebitLines(L) = {1} /\ CreditLines(L) = {2}
    BY <1>4, <1>6, <2>1 DEF DebitLines, CreditLines
  <2>3. f[1] = i.total /\ f[2] = i.subtotal /\ f[1] \in Int /\ f[2] \in Int
    BY <1>5, <1>6, <2>1
  <2>4. Debits(L) = i.total /\ Credits(L) = i.subtotal
    <3>1. SumFunctionOnSet(f, {1}) = f[1]
      BY <2>3, SumOne
    <3>2. SumFunctionOnSet(f, {2}) = f[2]
      BY <2>3, SumOne
    <3> QED
      BY <1>5, <2>2, <2>3, <3>1, <3>2
  <2>5. i.total = i.subtotal
    BY <1>1, <2>4
  <2>6. i.tax \in {-Grain, 0, Grain}
    BY <1>2, <2>5, HiddenByRounding
  <2>7. i.subtotal + i.tax - i.total = i.tax
    BY <1>2, <1>3, <2>5
  <2> QED
    BY <1>7, <2>4, <2>5, <2>6, <2>7 DEF L
<1>8. CASE Len(L) = 3
  <2>1. /\ a.tax # None
        /\ L[3].debit = None /\ L[3].credit = a.tax /\ L[3].amount = i.tax
    BY <1>8, <1>0
  <2> HIDE DEF L, f
  <2>2. DOMAIN L = {1, 2, 3}
    BY <1>5, <1>8
  <2>3. DebitLines(L) = {1} /\ CreditLines(L) = {2, 3}
    BY <1>4, <1>6, <2>1, <2>2 DEF DebitLines, CreditLines
  <2>4. /\ f[1] = i.total /\ f[2] = i.subtotal /\ f[3] = i.tax
        /\ f[1] \in Int /\ f[2] \in Int /\ f[3] \in Int
    BY <1>5, <1>6, <2>1, <2>2
  <2>5. Debits(L) = i.total /\ Credits(L) = i.subtotal + i.tax
    <3>1. SumFunctionOnSet(f, {1}) = f[1]
      BY <2>4, SumOne
    <3>2. SumFunctionOnSet(f, {3} \union {2}) = f[2] + f[3]
      <4> DEFINE two == 2
                 three == 3
      <4>1. two # three /\ f[two] \in Int /\ f[three] \in Int
        BY <2>4
      <4> HIDE DEF two, three
      <4>2. SumFunctionOnSet(f, {three} \union {two}) = f[two] + f[three]
        BY <4>1, SumTwo
      <4> QED
        BY <4>2 DEF two, three
    <3>3. CreditLines(L) = {3} \union {2}
      BY <2>3
    <3> QED
      BY <1>5, <2>3, <2>4, <3>1, <3>2, <3>3
  <2>6. i.total = i.subtotal + i.tax
    BY <1>1, <2>5
  <2>7. i.subtotal + i.tax - i.total = 0
    BY <2>4, <2>6
  <2> QED
    BY <2>5, <2>6, <2>7 DEF L
<1> QED
  BY <1>7, <1>8, <1>0

-----------------------------------------------------------------------------
(* Accounts that are deleted.                                              *)

LEMMA WithoutType ==
  ASSUME NEW lines \in Seq(PostingLines), NEW a
  PROVE  Without(lines, a) \in Seq(PostingLines)
<1> DEFINE c == Without(lines, a)
<1>1. DOMAIN lines = 1 .. Len(lines) /\ Len(lines) \in Nat
  BY LinesType
<1>2. \A k \in DOMAIN lines : c[k] \in PostingLines
  BY LinesType DEF Without, PostingLines
<1>3. c = [k \in 1 .. Len(lines) |-> c[k]]
  BY <1>1 DEF Without
<1> HIDE DEF c
<1>4. c \in Seq(PostingLines)
  BY <1>1, <1>2, <1>3
<1> QED
  BY <1>4 DEF c

(* Lines the foreign keys take name no deleted account.                    *)
LEMMA KnownUncleared ==
  ASSUME ChartOK, NEW lines \in Seq(PostingLines), Known(lines)
  PROVE  Cleared(Stored(lines)) = Stored(lines)
<1> DEFINE m == Stored(lines)
<1>1. m \in Seq(PostingLines)
  BY StoredType
<1>2. /\ DOMAIN m = DOMAIN lines
      /\ \A k \in DOMAIN lines : /\ m[k] \in PostingLines
                                 /\ m[k].debit = lines[k].debit
                                 /\ m[k].credit = lines[k].credit
  <2>1. DOMAIN m = DOMAIN lines
    BY DEF Stored
  <2>2. ASSUME NEW k \in DOMAIN lines
        PROVE  m[k].debit = lines[k].debit /\ m[k].credit = lines[k].credit
    <3>1. lines[k] \in PostingLines
      BY LinesType
    <3>2. m[k] = [lines[k] EXCEPT !.amount = Fixed(lines[k].amount)]
      BY DEF Stored
    <3> QED
      BY <3>1, <3>2 DEF PostingLines
  <2>3. \A k \in DOMAIN m : m[k] \in PostingLines
    <3> HIDE DEF m
    <3> QED
      BY <1>1, LinesType
  <2> QED
    BY <2>1, <2>2, <2>3
<1> HIDE DEF m
<1>3. \A k \in DOMAIN m :
        /\ m[k].debit \in deleted => m[k].debit = None
        /\ m[k].credit \in deleted => m[k].credit = None
  BY <1>2 DEF ChartOK, Known
<1>4. Cleared(m) = [k \in DOMAIN m |-> m[k]]
  <2>1. ASSUME NEW k \in DOMAIN m
        PROVE  [debit |-> m[k].debit, credit |-> m[k].credit,
                amount |-> m[k].amount] = m[k]
    BY <1>2 DEF PostingLines
  <2>2. ASSUME NEW k \in DOMAIN m
        PROVE  /\ (IF m[k].debit \in deleted THEN None ELSE m[k].debit) = m[k].debit
               /\ (IF m[k].credit \in deleted THEN None ELSE m[k].credit) = m[k].credit
    BY <1>3
  <2> QED
    BY <2>1, <2>2 DEF Cleared
<1>5. m = [k \in DOMAIN m |-> m[k]]
  BY <1>1
<1> QED
  BY <1>4, <1>5 DEF m

LEMMA ClearedMirror ==
  ASSUME NEW lines
  PROVE  Cleared(Mirror(lines)) = Mirror(Cleared(lines))
BY DEF Cleared, Mirror

(* A deleted account takes its sides with it, and nothing else.            *)
LEMMA ClearedMore ==
  ASSUME NEW lines, NEW a, deleted' = deleted \union {a}
  PROVE  Without(Cleared(lines), a) = Cleared(lines)'
<1>1. ASSUME NEW b
      PROVE  LET c == IF b \in deleted THEN None ELSE b
             IN (IF c = a THEN None ELSE c) = (IF b \in deleted' THEN None ELSE b)
  OBVIOUS
<1> QED
  BY <1>1 DEF Cleared, Without

-----------------------------------------------------------------------------
(* What holds of the entries: they are lists of lines, each was off by half *)
(* a Grain per line at most and has only lost sides on deleted accounts     *)
(* since, and those of invoices were posted with their totals.              *)

Row(id, lines, posted, source, of) ==
  [id |-> id, lines |-> lines, posted |-> posted, source |-> source, of |-> of]

EntryOK(e) ==
  /\ e = Row(e.id, e.lines, e.posted, e.source, e.of)
  /\ e.lines \in Seq(PostingLines)
  /\ e.posted \in Seq(PostingLines)

EntriesOK == IsFiniteSet(entries) /\ \A e \in entries : EntryOK(e)

DraftsHeld == \A w \in Workers : pc[w] # "idle" => draft[w] \in Drafts

TotalsRounded == \A i \in invoices : Rounded(i)

LedgerInv ==
  /\ ChartOK /\ EntriesOK /\ DraftsHeld /\ TotalsRounded
  /\ BalancedUpToRounding /\ InvoicesPostedInFull

\* How an entry comes about.
NewEntry(n) ==
  /\ n = Row(n.id, n.lines, n.posted, n.source, n.of)
  /\ \/ /\ n.source = "manual"
        /\ \E lines \in Journals :
             /\ Accepted(lines) /\ Known(lines)
             /\ n.lines = Stored(lines) /\ n.posted = Stored(lines)
     \/ /\ n.source = "invoice"
        /\ \E i \in invoices, a \in Postings :
             LET lines == InvoiceLines(i, a)
             IN /\ Accepted(lines) /\ Known(lines)
                /\ n.lines = Stored(lines) /\ n.posted = Stored(lines)
                /\ n.of = i.id
     \/ /\ n.source = "reversal"
        /\ \E e \in entries : n.lines = Mirror(e.lines) /\ n.posted = Mirror(e.posted)

LEMMA EntryKinds ==
  ASSUME [Next]_vars
  PROVE  \/ entries' = entries /\ deleted' = deleted
         \/ /\ \E n : NewEntry(n) /\ entries' = entries \union {n}
            /\ UNCHANGED <<invoices, pc, draft, books>>
         \/ \E a \in Accounts : DeleteAccount(a)
<1>1. CASE UNCHANGED vars
  BY <1>1 DEF vars, books
<1>2. CASE \E w \in Workers, d \in Drafts : StartCreate(w, d)
  BY <1>2 DEF StartCreate, books
<1>3. CASE \E w \in Workers :
             CountInvoices(w) \/ InsertInvoice(w) \/ InsertRefused(w)
  BY <1>3 DEF CountInvoices, InsertInvoice, InsertRefused, books
<1>4. CASE \E i \in invoices : ConfirmAndPost(i)
  <2>1. PICK i \in invoices : ConfirmAndPost(i)
    BY <1>4
  <2>2. PICK a \in Postings : Post(InvoiceLines(i, a), "invoice", i.id)
    BY <2>1 DEF ConfirmAndPost
  <2> DEFINE lines == InvoiceLines(i, a)
  <2>3. PICK id \in FreshIds :
          entries' = entries \union
            {Row(id, Stored(lines), Stored(lines), "invoice", i.id)}
    BY <2>2 DEF Post, Insert, Row
  <2> DEFINE n == Row(id, Stored(lines), Stored(lines), "invoice", i.id)
  <2>4. NewEntry(n)
    BY <2>2 DEF NewEntry, Post, Row
  <2> QED
    BY <2>1, <2>2, <2>3, <2>4 DEF ConfirmAndPost, Post, locals
<1>5. CASE WriteJournal
  <2>1. PICK lines \in Journals : PostJournal(lines)
    BY <1>5 DEF WriteJournal
  <2>2. PICK id \in FreshIds :
          entries' = entries \union
            {Row(id, Stored(lines), Stored(lines), "manual", None)}
    BY <2>1 DEF PostJournal, Post, Insert, Row
  <2> DEFINE n == Row(id, Stored(lines), Stored(lines), "manual", None)
  <2>3. NewEntry(n)
    BY <2>1 DEF NewEntry, PostJournal, Post, Row
  <2> QED
    BY <1>5, <2>1, <2>2, <2>3 DEF WriteJournal, PostJournal, Post, locals
<1>6. CASE ReverseEntry
  <2>1. PICK e \in entries : ReverseOf(e)
    BY <1>6 DEF ReverseEntry
  <2>2. PICK id \in FreshIds :
          entries' = entries \union
            {Row(id, Mirror(e.lines), Mirror(e.posted), "reversal", e.id)}
    BY <2>1 DEF ReverseOf, Insert, Row
  <2> DEFINE n == Row(id, Mirror(e.lines), Mirror(e.posted), "reversal", e.id)
  <2>3. NewEntry(n)
    BY DEF NewEntry, Row
  <2> QED
    BY <1>6, <2>1, <2>2, <2>3 DEF ReverseEntry, ReverseOf, locals
<1>7. CASE EditChart
  BY <1>7 DEF EditChart, CreateAccount, UpdateAccount
<1> QED
  BY <1>1, <1>2, <1>3, <1>4, <1>5, <1>6, <1>7 DEF Next

LEMMA ChartStep ==
  ASSUME ChartOK, [Next]_vars
  PROVE  ChartOK'
<1>1. CASE UNCHANGED books
  BY <1>1 DEF books, ChartOK
<1>2. ASSUME NEW a \in Accounts, CreateAccount(a) \/ UpdateAccount(a)
      PROVE  ChartOK'
  <2>1. /\ a \notin deleted /\ deleted' = deleted
        /\ \E r \in AccountInputs : chart' = [chart EXCEPT ![a] = r]
    BY <1>2 DEF CreateAccount, UpdateAccount, ChartOK
  <2> QED
    BY <2>1, LedgerAssumption DEF ChartOK
<1>3. ASSUME NEW a \in Accounts, DeleteAccount(a)
      PROVE  ChartOK'
  BY <1>3 DEF DeleteAccount, ChartOK
<1>4. \/ UNCHANGED books
      \/ \E a \in Accounts : CreateAccount(a) \/ UpdateAccount(a) \/ DeleteAccount(a)
  BY DEF Next, vars, StartCreate, CountInvoices, InsertInvoice, InsertRefused,
         ConfirmAndPost, WriteJournal, PostJournal, Post, ReverseEntry, ReverseOf,
         EditChart
<1> QED
  BY <1>1, <1>2, <1>3, <1>4

LEMMA NewEntryBalanced ==
  ASSUME LedgerInv, NEW n, NewEntry(n)
  PROVE  /\ EntryOK(n)
         /\ 2 * Imbalance(n.posted) <= Grain * Len(n.posted)
         /\ -(2 * Imbalance(n.posted)) <= Grain * Len(n.posted)
         /\ n.lines = Cleared(n.posted)
<1>1. ASSUME NEW lines \in Seq(PostingLines), Accepted(lines), Known(lines),
             n.lines = Stored(lines), n.posted = Stored(lines)
      PROVE  /\ EntryOK(n)
             /\ 2 * Imbalance(n.posted) <= Grain * Len(n.posted)
             /\ -(2 * Imbalance(n.posted)) <= Grain * Len(n.posted)
             /\ n.lines = Cleared(n.posted)
  <2>1. Debits(lines) = Credits(lines)
    BY <1>1 DEF Accepted
  <2>2. Imbalance(n.posted) = Debits(Stored(lines)) - Credits(Stored(lines))
    BY <1>1 DEF Imbalance
  <2>3. Stored(lines) \in Seq(PostingLines) /\ Len(Stored(lines)) = Len(lines)
    BY StoredType
  <2>4. /\ 2 * (Debits(Stored(lines)) - Credits(Stored(lines))) <= Grain * Len(lines)
        /\ -(2 * (Debits(Stored(lines)) - Credits(Stored(lines))))
             <= Grain * Len(lines)
    BY <2>1, RoundingPerLine
  <2>5. Cleared(Stored(lines)) = Stored(lines)
    BY <1>1, KnownUncleared DEF LedgerInv
  <2>6. EntryOK(n)
    BY <1>1, <2>3 DEF NewEntry, EntryOK
  <2> QED
    BY <1>1, <2>2, <2>3, <2>4, <2>5, <2>6
<1>2. CASE \E lines \in Journals :
             /\ Accepted(lines) /\ Known(lines)
             /\ n.lines = Stored(lines) /\ n.posted = Stored(lines)
  BY <1>1, <1>2, LedgerAssumption
<1>3. CASE \E i \in invoices, a \in Postings :
             /\ Accepted(InvoiceLines(i, a)) /\ Known(InvoiceLines(i, a))
             /\ n.lines = Stored(InvoiceLines(i, a))
             /\ n.posted = Stored(InvoiceLines(i, a))
  <2>1. PICK i \in invoices, a \in Postings :
             /\ Accepted(InvoiceLines(i, a)) /\ Known(InvoiceLines(i, a))
             /\ n.lines = Stored(InvoiceLines(i, a))
             /\ n.posted = Stored(InvoiceLines(i, a))
    BY <1>3
  <2>2. InvoiceLines(i, a) \in Seq(PostingLines)
    BY InvoiceLinesType DEF LedgerInv, TotalsRounded
  <2> QED
    BY <1>1, <2>1, <2>2
<1>4. CASE \E e \in entries : n.lines = Mirror(e.lines) /\ n.posted = Mirror(e.posted)
  <2>1. PICK e \in entries : n.lines = Mirror(e.lines) /\ n.posted = Mirror(e.posted)
    BY <1>4
  <2> DEFINE p == e.posted
  <2>2. /\ e.lines \in Seq(PostingLines) /\ p \in Seq(PostingLines)
        /\ e.lines = Cleared(p)
        /\ 2 * (Debits(p) - Credits(p)) <= Grain * Len(p)
        /\ -(2 * (Debits(p) - Credits(p))) <= Grain * Len(p)
    BY DEF LedgerInv, EntriesOK, EntryOK, BalancedUpToRounding, Imbalance
  <2> HIDE DEF p
  <2>3. /\ n.posted \in Seq(PostingLines) /\ Len(n.posted) = Len(p)
        /\ Imbalance(n.posted) = Credits(p) - Debits(p)
    BY <2>1, <2>2, MirrorSwaps DEF Imbalance, p
  <2>4. Debits(p) \in Int /\ Credits(p) \in Int
    BY <2>2, SumsOfLines
  <2>5. /\ 2 * Imbalance(n.posted) = -(2 * (Debits(p) - Credits(p)))
        /\ -(2 * Imbalance(n.posted)) = 2 * (Debits(p) - Credits(p))
    BY <2>3, <2>4
  <2>6. n.lines = Cleared(n.posted)
    BY <2>1, <2>2, ClearedMirror DEF p
  <2>7. EntryOK(n)
    BY <2>1, <2>2, <2>3, MirrorSwaps DEF NewEntry, EntryOK
  <2> QED
    BY <2>2, <2>3, <2>5, <2>6, <2>7
<1> QED
  BY <1>2, <1>3, <1>4 DEF NewEntry

LEMMA NewEntryInFull ==
  ASSUME LedgerInv, NEW n, NewEntry(n), n.source = "invoice"
  PROVE  \E i \in invoices :
           /\ i.id = n.of
           /\ Debits(n.posted) = i.total
           /\ Credits(n.posted) = i.total
           /\ i.subtotal + i.tax - i.total \in {-Grain, 0, Grain}
           /\ Len(n.posted) = 3 => i.subtotal + i.tax = i.total
<1>1. PICK i \in invoices, a \in Postings :
        /\ Accepted(InvoiceLines(i, a))
        /\ n.posted = Stored(InvoiceLines(i, a))
        /\ n.of = i.id
  BY DEF NewEntry
<1>2. Rounded(i)
  BY DEF LedgerInv, TotalsRounded
<1>3. n.posted = InvoiceLines(i, a)
  BY <1>1, <1>2, InvoiceLinesType
<1>4. LET L == InvoiceLines(i, a)
      IN /\ Debits(L) = i.total /\ Credits(L) = i.total
         /\ i.subtotal + i.tax - i.total \in {-Grain, 0, Grain}
         /\ Len(L) = 3 => i.subtotal + i.tax = i.total
  BY <1>1, <1>2, InvoicePosted
<1> QED
  BY <1>1, <1>3, <1>4

(* The totals a request computes are those of its draft.                   *)
LEMMA TotalsOfDraft ==
  ASSUME NEW d \in Drafts
  PROVE  Subtotal(d) \in Int /\ TaxTotal(d) \in Int
<1> DEFINE L == DraftOf[d].lines
           s == [k \in DOMAIN L |-> L[k].subtotal]
           t == [k \in DOMAIN L |-> L[k].tax]
<1>1. L \in Seq([subtotal : Int, tax : Int])
  <2>1. DraftOf[d] \in DraftInputs
    BY InvoicingAssumption
  <2> QED
    BY <2>1 DEF DraftInputs
<1>2. IsFiniteSet(DOMAIN L)
  <2>1. DOMAIN L = 1 .. Len(L) /\ Len(L) \in Nat
    BY <1>1
  <2> QED
    BY <2>1, FS_Interval
<1>3. \A k \in DOMAIN L : s[k] \in Int /\ t[k] \in Int
  <2> TAKE k \in DOMAIN L
  <2>1. L[k] \in [subtotal : Int, tax : Int]
    <3> DEFINE R == [subtotal : Int, tax : Int]
    <3> SUFFICES L[k] \in R
      OBVIOUS
    <3>1. L \in Seq(R) /\ k \in DOMAIN L
      BY <1>1
    <3> HIDE DEF L, R
    <3> QED
      BY <3>1
  <2> QED
    BY <2>1
<1>4. DOMAIN s = DOMAIN L /\ DOMAIN t = DOMAIN L
  OBVIOUS
<1>5. Subtotal(d) = SumFunctionOnSet(s, DOMAIN L)
        /\ TaxTotal(d) = SumFunctionOnSet(t, DOMAIN L)
  BY <1>4 DEF Subtotal, TaxTotal, SumFunction
<1> HIDE DEF L, s, t
<1>6. SumFunctionOnSet(s, DOMAIN L) \in Int /\ SumFunctionOnSet(t, DOMAIN L) \in Int
  BY <1>2, <1>3, SumInt
<1> QED
  BY <1>5, <1>6

LEMMA InsertedRounded ==
  ASSUME LedgerInv, NEW w \in Workers, InsertInvoice(w)
  PROVE  \E n : invoices' = invoices \union {n} /\ Rounded(n)
<1>1. PICK id : invoices' = invoices \union {NewInvoice(id, w)}
  BY DEF InsertInvoice
<1> DEFINE n == NewInvoice(id, w)
           s == Subtotal(draft[w])
           t == TaxTotal(draft[w])
<1>2. draft[w] \in Drafts
  BY DEF InsertInvoice, LedgerInv, DraftsHeld
<1>3. s \in Int /\ t \in Int
  BY <1>2, TotalsOfDraft
<1>4. n.subtotal = Fixed(s) /\ n.tax = Fixed(t) /\ n.total = Fixed(s + t)
  BY DEF NewInvoice
<1>5. Rounded(n)
  <2> HIDE DEF n, s, t
  <2> QED
    BY <1>3, <1>4 DEF Rounded
<1> QED
  BY <1>1, <1>5

LEMMA InvoicesKept ==
  ASSUME LedgerInv, [Next]_vars
  PROVE  /\ invoices \subseteq invoices'
         /\ TotalsRounded'
<1>1. CASE \E w \in Workers : InsertInvoice(w)
  <2>1. PICK n : invoices' = invoices \union {n} /\ Rounded(n)
    BY <1>1, InsertedRounded
  <2> QED
    BY <2>1 DEF LedgerInv, TotalsRounded
<1>2. CASE ~(\E w \in Workers : InsertInvoice(w))
  <2>1. invoices' = invoices
    BY <1>2 DEF Next, vars, StartCreate, CountInvoices, InsertRefused,
                ConfirmAndPost, WriteJournal, ReverseEntry, EditChart
  <2> QED
    BY <2>1 DEF LedgerInv, TotalsRounded
<1> QED
  BY <1>1, <1>2

LEMMA DraftsHeldStep ==
  ASSUME RowsOK, LedgerInv, [Next]_vars
  PROVE  DraftsHeld'
<1>1. CASE UNCHANGED <<pc, draft>>
  BY <1>1 DEF LedgerInv, DraftsHeld
<1>2. CASE \E w \in Workers, d \in Drafts : StartCreate(w, d)
  BY <1>2 DEF StartCreate, RowsOK, LedgerInv, DraftsHeld
<1>3. CASE \E w \in Workers : CountInvoices(w)
  BY <1>3 DEF CountInvoices, RowsOK, LedgerInv, DraftsHeld
<1>4. CASE \E w \in Workers : InsertInvoice(w) \/ InsertRefused(w)
  BY <1>4 DEF InsertInvoice, InsertRefused, Leave, RowsOK, LedgerInv, DraftsHeld
<1> QED
  BY <1>1, <1>2, <1>3, <1>4
  DEF Next, vars, locals, ConfirmAndPost, WriteJournal, ReverseEntry, EditChart

LEMMA EntriesDeleted ==
  ASSUME LedgerInv, NEW a \in Accounts, DeleteAccount(a),
         invoices \subseteq invoices'
  PROVE  EntriesOK' /\ BalancedUpToRounding' /\ InvoicesPostedInFull'
<1> DEFINE less(e) == [e EXCEPT !.lines = Without(e.lines, a)]
           b == [e \in entries |-> less(e)]
<1>1. deleted' = deleted \union {a} /\ entries' = {b[e] : e \in entries}
  BY DEF DeleteAccount
<1>2. ASSUME NEW e \in entries
      PROVE  /\ b[e] = Row(e.id, Without(e.lines, a), e.posted, e.source, e.of)
             /\ Without(e.lines, a) = Cleared(e.posted)'
             /\ Without(e.lines, a) \in Seq(PostingLines)
             /\ e.posted \in Seq(PostingLines)
  <2>1. /\ e = Row(e.id, e.lines, e.posted, e.source, e.of)
        /\ e.lines \in Seq(PostingLines) /\ e.posted \in Seq(PostingLines)
        /\ e.lines = Cleared(e.posted)
    BY DEF LedgerInv, EntriesOK, EntryOK, BalancedUpToRounding
  <2>2. b[e] = Row(e.id, Without(e.lines, a), e.posted, e.source, e.of)
    BY <2>1 DEF Row
  <2>3. Without(e.lines, a) = Cleared(e.posted)'
    BY <1>1, <2>1, ClearedMore
  <2>4. Without(e.lines, a) \in Seq(PostingLines)
    BY <2>1, WithoutType
  <2> QED
    BY <2>1, <2>2, <2>3, <2>4
<1>3. ASSUME NEW m \in entries'
      PROVE  \E e \in entries :
               /\ m = Row(m.id, m.lines, m.posted, m.source, m.of)
               /\ m.posted = e.posted /\ m.source = e.source /\ m.of = e.of
               /\ m.lines = Cleared(m.posted)'
               /\ m.lines \in Seq(PostingLines)
               /\ m.posted \in Seq(PostingLines)
  <2>1. PICK e \in entries : m = b[e]
    BY <1>1
  <2>2. m = Row(e.id, Without(e.lines, a), e.posted, e.source, e.of)
    BY <1>2, <2>1
  <2>3. /\ m = Row(m.id, m.lines, m.posted, m.source, m.of)
        /\ m.posted = e.posted /\ m.source = e.source /\ m.of = e.of
        /\ m.lines = Without(e.lines, a)
    BY <2>2 DEF Row
  <2> QED
    BY <1>2, <2>3
<1> HIDE DEF b
<1>4. EntriesOK'
  <2>1. IsFiniteSet(entries')
    BY <1>1, FiniteImage DEF LedgerInv, EntriesOK
  <2> QED
    BY <1>3, <2>1 DEF EntriesOK, EntryOK
<1>5. BalancedUpToRounding'
  BY <1>3 DEF LedgerInv, BalancedUpToRounding
<1>6. InvoicesPostedInFull'
  BY <1>3 DEF LedgerInv, InvoicesPostedInFull
<1> QED
  BY <1>4, <1>5, <1>6

LEMMA LedgerInvStep ==
  ASSUME RowsOK, LedgerInv, [Next]_vars
  PROVE  LedgerInv'
<1>1. /\ DraftsHeld' /\ TotalsRounded' /\ invoices \subseteq invoices'
      /\ ChartOK'
  BY DraftsHeldStep, InvoicesKept, ChartStep DEF LedgerInv
<1>2. CASE entries' = entries /\ deleted' = deleted
  <2>1. EntriesOK' /\ BalancedUpToRounding'
    BY <1>2 DEF LedgerInv, EntriesOK, BalancedUpToRounding, Cleared
  <2>2. InvoicesPostedInFull'
    BY <1>1, <1>2 DEF LedgerInv, InvoicesPostedInFull
  <2> QED
    BY <1>1, <2>1, <2>2 DEF LedgerInv
<1>3. ASSUME NEW n, NewEntry(n), entries' = entries \union {n}, UNCHANGED books
      PROVE  LedgerInv'
  <2>1. EntriesOK'
    BY <1>3, NewEntryBalanced, FS_AddElement DEF LedgerInv, EntriesOK
  <2>2. BalancedUpToRounding'
    <3>1. /\ 2 * Imbalance(n.posted) <= Grain * Len(n.posted)
          /\ -(2 * Imbalance(n.posted)) <= Grain * Len(n.posted)
          /\ n.lines = Cleared(n.posted)
      BY <1>3, NewEntryBalanced
    <3>2. deleted' = deleted
      BY <1>3 DEF books
    <3> QED
      BY <1>3, <3>1, <3>2 DEF LedgerInv, BalancedUpToRounding, Cleared
  <2>3. InvoicesPostedInFull'
    <3> SUFFICES ASSUME NEW e \in entries', e.source = "invoice"
                 PROVE  \E i \in invoices' :
                          /\ i.id = e.of
                          /\ Debits(e.posted) = i.total
                          /\ Credits(e.posted) = i.total
                          /\ i.subtotal + i.tax - i.total \in {-Grain, 0, Grain}
                          /\ Len(e.posted) = 3 => i.subtotal + i.tax = i.total
      BY DEF InvoicesPostedInFull
    <3>1. CASE e \in entries
      BY <1>1, <3>1 DEF LedgerInv, InvoicesPostedInFull
    <3>2. CASE e = n
      BY <1>1, <1>3, <3>2, NewEntryInFull
    <3> QED
      BY <1>3, <3>1, <3>2
  <2> QED
    BY <1>1, <2>1, <2>2, <2>3 DEF LedgerInv
<1>4. ASSUME NEW a \in Accounts, DeleteAccount(a)
      PROVE  LedgerInv'
  BY <1>1, <1>4, EntriesDeleted DEF LedgerInv
<1> QED
  BY <1>2, <1>3, <1>4, EntryKinds

LEMMA LedgerInvAlways == InvoicingSpec => []LedgerInv
<1>1. InvoicingInit => LedgerInv
  <2> SUFFICES ASSUME InvoicingInit PROVE LedgerInv
    OBVIOUS
  <2>1. ChartOK
    BY LedgerAssumption DEF InvoicingInit, LedgerInit, ChartOK
  <2> QED
    BY <2>1, FS_EmptySet
    DEF InvoicingInit, LedgerInit, LedgerInv, EntriesOK, DraftsHeld,
        TotalsRounded, BalancedUpToRounding, InvoicesPostedInFull
<1>2. IInv /\ LedgerInv /\ [Next]_vars => LedgerInv'
  BY LedgerInvStep DEF IInv
<1> QED
  BY <1>1, <1>2, IInvAlways, PTL DEF InvoicingSpec

\* Whatever users write, reverse and delete, an entry was posted within half a
\* stored decimal place per line of balance, and is since short of nothing but
\* the sides on deleted accounts (post, reverse, remove).
THEOREM EntriesStayBalanced == InvoicingSpec => []BalancedUpToRounding
<1>1. LedgerInv => BalancedUpToRounding
  BY DEF LedgerInv
<1> QED
  BY <1>1, LedgerInvAlways, PTL

\* The entry of an invoice, of whatever sign, is posted with its total on both
\* sides, and leaves out no more tax than the smallest amount the tables hold
\* (confirmAndPost).
THEOREM PostedInFull == InvoicingSpec => []InvoicesPostedInFull
<1>1. LedgerInv => InvoicesPostedInFull
  BY DEF LedgerInv
<1> QED
  BY <1>1, LedgerInvAlways, PTL

\* What the balance sheet calls its check is the net income of profit and loss
\* and what the entries are off by on the accounts shown, however the chart of
\* accounts is edited and whatever entries come about (balanceSheet,
\* profitAndLoss).
THEOREM CheckAlwaysNetIncome == InvoicingSpec => []CheckIsNetIncome
<1>1. LedgerInv => CheckIsNetIncome
  BY ReportsAgree DEF LedgerInv, EntriesOK, EntryOK, CheckIsNetIncome
<1> QED
  BY <1>1, LedgerInvAlways, PTL

=============================================================================
