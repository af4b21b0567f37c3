----------------------------- MODULE Invoicing -----------------------------
(***************************************************************************)
(* Invoices, their numbers, and their entries in the ledger                *)
(* (modules/invoicing/invoicing.service.ts), of one tenant within one      *)
(* calendar year; users may date an invoice before that year.              *)
(*                                                                         *)
(* create counts the invoices of its type to number the new one and inserts *)
(* it afterwards, without a transaction around the two; the unique index   *)
(* on the number knows no type.  confirmAndPost reads an invoice and posts *)
(* its stored totals.                                                      *)
(***************************************************************************)
EXTENDS Ledger

CONSTANTS
  Drafts,        \* what users want invoiced
  DraftOf,       \* of a draft: its type, date and lines
  InvoiceIds,    \* fresh ids the database may hand out (bound)
  Postings,      \* the accounts users give to confirmAndPost
  MaxPosts,      \* how often invoices are posted (bound)
  Workers        \* requests handled at the same time (bound)

InvoiceTypes == {"SALE", "PURCHASE", "CREDIT_NOTE", "DEBIT_NOTE"}

\* Of a line, what it comes to, unrounded and of either sign; of the date,
\* whether the user gave one of an earlier year.
DraftInputs == [type : InvoiceTypes, backdated : BOOLEAN,
                lines : Seq([subtotal : Int, tax : Int])]

PostingInputs == [receivable : Accounts, revenue : Accounts,
                  tax : Accounts \union {None}]

ASSUME InvoicingAssumption ==
  /\ DraftOf \in [Drafts -> DraftInputs]
  /\ Postings \subseteq PostingInputs
  /\ MaxPosts \in Nat
  /\ None \notin Drafts /\ None \notin InvoiceIds

VARIABLES
  invoices,   \* the rows of Invoice
  created,    \* drafts users were told an invoice for
  pc,         \* per worker: the await it stands at
  draft,      \* per worker: the draft it creates an invoice for
  cnt         \* per worker: the result of its count

locals == <<pc, draft, cnt>>
vars   == <<entries, books, invoices, created, locals>>

InvoicingInit ==
  /\ LedgerInit
  /\ invoices = {}
  /\ created = {}
  /\ pc = [w \in Workers |-> "idle"]
  /\ draft = [w \in Workers |-> None]
  /\ cnt = [w \in Workers |-> 0]

-----------------------------------------------------------------------------
(* create.                                                                 *)

Prefix(type) == CASE type = "PURCHASE" -> "BIL"
                  [] type = "CREDIT_NOTE" -> "CRN"
                  [] OTHER -> "INV"

\* Mutant of Counted: the invoices of another type.
CountedOthers(type) == {i \in invoices : i.type # type}

\* What nextNumber counts: by the date of the invoice, not of its insertion.
Counted(type) == {i \in invoices : i.type = type /\ ~i.backdated}

\* computeTotals: the sums are taken unrounded, and stored rounded each.
Subtotal(d) ==
  SumFunction([k \in DOMAIN DraftOf[d].lines |-> DraftOf[d].lines[k].subtotal])

TaxTotal(d) ==
  SumFunction([k \in DOMAIN DraftOf[d].lines |-> DraftOf[d].lines[k].tax])

NewInvoice(id, w) ==
  LET d == draft[w] IN
  [id |-> id, type |-> DraftOf[d].type, backdated |-> DraftOf[d].backdated,
   number |-> [prefix |-> Prefix(DraftOf[d].type), seq |-> cnt[w] + 1],
   subtotal |-> Fixed(Subtotal(d)), tax |-> Fixed(TaxTotal(d)),
   total |-> Fixed(Subtotal(d) + TaxTotal(d))]

\* Mutant of NumberTaken: the index covers the type as well.
NumberTakenInType(i) ==
  \E j \in invoices : j.number = i.number /\ j.type = i.type

NumberTaken(i) == \E j \in invoices : j.number = i.number

\* A user sends a draft, again as long as it was refused.
StartCreate(w, d) ==
  /\ pc[w] = "idle"
  /\ d \notin created
  /\ \A v \in Workers : draft[v] # d
  /\ draft' = [draft EXCEPT ![w] = d]
  /\ pc' = [pc EXCEPT ![w] = "count"]
  /\ UNCHANGED <<entries, books, invoices, created, cnt>>

\* Written with unscoped, the count runs in the tenant's context all the same:
\* the query starts only when it is awaited.
CountInvoices(w) ==
  /\ pc[w] = "count"
  /\ cnt' = [cnt EXCEPT ![w] = Cardinality(Counted(DraftOf[draft[w]].type))]
  /\ pc' = [pc EXCEPT ![w] = "insert"]
  /\ UNCHANGED <<entries, books, invoices, created, draft>>

Leave(w) ==
  /\ pc' = [pc EXCEPT ![w] = "idle"]
  /\ draft' = [draft EXCEPT ![w] = None]
  /\ cnt' = [cnt EXCEPT ![w] = 0]

InsertInvoice(w) ==
  /\ pc[w] = "insert"
  /\ \E id \in InvoiceIds \ {i.id : i \in invoices} :
       LET i == NewInvoice(id, w) IN
       /\ ~NumberTaken(i)
       /\ invoices' = invoices \union {i}
  /\ created' = created \union {draft[w]}
  /\ Leave(w)
  /\ UNCHANGED <<entries, books>>

\* The unique index refuses the number, and the request fails.
InsertRefused(w) ==
  /\ pc[w] = "insert"
  /\ NumberTaken(NewInvoice(None, w))
  /\ Leave(w)
  /\ UNCHANGED <<entries, books, invoices, created>>

-----------------------------------------------------------------------------
(* confirmAndPost and the journal endpoints.                               *)

InvoiceLines(i, a) ==
  LET line(d, c, x) == [debit |-> d, credit |-> c, amount |-> x] IN
  <<line(a.receivable, None, i.total), line(None, a.revenue, i.subtotal)>>
    \o IF i.tax > 0 /\ a.tax # None THEN <<line(None, a.tax, i.tax)>> ELSE <<>>

\* Nothing marks the invoice as posted: it may be posted again.
ConfirmAndPost(i) ==
  /\ Cardinality({e \in entries : e.source = "invoice"}) < MaxPosts
  /\ \E a \in Postings : Post(InvoiceLines(i, a), "invoice", i.id)
  /\ UNCHANGED <<invoices, created, locals>>

WriteJournal ==
  /\ \E lines \in Journals : PostJournal(lines)
  /\ UNCHANGED <<invoices, created, locals>>

ReverseEntry ==
  /\ \E e \in entries : ReverseOf(e)
  /\ UNCHANGED <<invoices, created, locals>>

EditChart ==
  /\ \E a \in Accounts : CreateAccount(a) \/ UpdateAccount(a) \/ DeleteAccount(a)
  /\ UNCHANGED <<invoices, created, locals>>

Next ==
  \/ \E w \in Workers, d \in Drafts : StartCreate(w, d)
  \/ \E w \in Workers : CountInvoices(w) \/ InsertInvoice(w) \/ InsertRefused(w)
  \/ \E i \in invoices : ConfirmAndPost(i)
  \/ WriteJournal
  \/ ReverseEntry
  \/ EditChart

InvoicingSpec == InvoicingInit /\ [][Next]_vars

-----------------------------------------------------------------------------
(* Properties.                                                             *)

\* Two invoices never share a number, although requests count and insert in
\* any order and two types share a prefix (create).
InvoiceNumbersUnique ==
  \A i, j \in invoices : i.number = j.number => i = j

\* A type is never refused a number for good by its own invoices, unless one
\* of them was dated into an earlier year and escapes the count; a number of
\* the other type with its prefix may still be in the way (nextNumber).
NextInvoiceNumberFree ==
  \A i \in invoices :
    (\A j \in invoices : j.type = i.type => ~j.backdated)
      => i.number.seq # Cardinality(Counted(i.type)) + 1

\* An invoice enters the ledger in full or not at all: its entry was posted
\* with the total the invoice shows on both sides, although the three totals
\* were rounded apart.  Tax, of either sign, may be left out only when it is
\* the smallest amount stored and rounding hides it in the total; what the
\* entry loses afterwards, it loses to deleted accounts (confirmAndPost, post).
InvoicesPostedInFull ==
  \A e \in entries : e.source = "invoice" =>
    \E i \in invoices :
      /\ i.id = e.of
      /\ Debits(e.posted) = i.total
      /\ Credits(e.posted) = i.total
      /\ i.subtotal + i.tax - i.total \in {-Grain, 0, Grain}
      /\ Len(e.posted) = 3 => i.subtotal + i.tax = i.total

=============================================================================
