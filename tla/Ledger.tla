------------------------------- MODULE Ledger -------------------------------
(***************************************************************************)
(* The double-entry ledger (modules/accounting/posting.service.ts,         *)
(* journals.controller.ts and accounts.controller.ts) and the reports      *)
(* drawn from it (modules/reports/reports.service.ts), of one tenant.      *)
(*                                                                         *)
(* Amounts are integers in a unit finer than the database stores: Grain    *)
(* units make one ten-thousandth.  An entry is checked with the amounts as *)
(* given and stored with each amount rounded.                              *)
(***************************************************************************)
EXTENDS Integers, Sequences, FiniteSets, Functions

CONSTANTS
  Accounts,      \* ids of accounts
  FirstChart,    \* the chart of accounts at the start
  AccountInputs, \* the rows users make of an account (bound)
  MaxEdits,      \* how often the chart of accounts is edited (bound)
  Grain,         \* units of a stored decimal place
  Journals,      \* the entries users write, sequences of lines
  EntryIds,      \* fresh ids the database may hand out (bound)
  MaxReversals,  \* how many reversals are asked for (bound)
  None           \* the null of an optional column

AccountTypes == {"ASSET", "LIABILITY", "EQUITY", "INCOME", "EXPENSE"}

\* A row of Account: its type, and whether it is the tenant's own.
AccountRows == [type : AccountTypes, own : BOOLEAN]

PostingLines == [debit  : Accounts \union {None},
                 credit : Accounts \union {None},
                 amount : Int]

ASSUME LedgerAssumption ==
  /\ FirstChart \in [Accounts -> AccountRows \union {None}]
  /\ IsFiniteSet(Accounts)
  /\ AccountInputs \subseteq AccountRows /\ MaxEdits \in Nat
  /\ Grain \in Nat \ {0}
  /\ Journals \subseteq Seq(PostingLines)
  /\ MaxReversals \in Nat
  /\ None \notin Accounts /\ None \notin AccountRows

VARIABLES
  entries,   \* the rows of JournalEntry, with their lines
  chart,     \* the row of each account, None where there is none
  deleted,   \* the accounts that were deleted
  edits      \* how often the chart was edited

books == <<chart, deleted, edits>>

LedgerInit ==
  /\ entries = {}
  /\ chart = FirstChart
  /\ deleted = {}
  /\ edits = 0

-----------------------------------------------------------------------------
(* Amounts.                                                                *)

\* toFixed(4) of decimal.js: to the nearest, halves away from zero.
Fixed(x) ==
  LET up(y) == Grain * ((2 * y + Grain) \div (2 * Grain))
  IN IF x >= 0 THEN up(x) ELSE -up(-x)

SumOf(lines, Which(_)) ==
  SumFunctionOnSet([k \in DOMAIN lines |-> lines[k].amount],
                   {k \in DOMAIN lines : Which(lines[k])})

Debits(lines) == SumOf(lines, LAMBDA l : l.debit # None)

Credits(lines) == SumOf(lines, LAMBDA l : l.credit # None)

-----------------------------------------------------------------------------
(* post.                                                                   *)

\* Mutant of Accepted: no check of the sums.
AcceptedAny(lines) == Debits(lines) > 0

\* What post takes; anything else is answered with an error.
Accepted(lines) == Debits(lines) = Credits(lines) /\ Debits(lines) > 0

Stored(lines) == [k \in DOMAIN lines |-> [lines[k] EXCEPT !.amount = Fixed(@)]]

FreshIds == EntryIds \ {e.id : e \in entries}

\* The field posted is history: the lines as the entry was inserted with.
Insert(lines, posted, source, of) ==
  \E id \in FreshIds :
    entries' = entries \union
      {[id |-> id, lines |-> lines, posted |-> posted, source |-> source,
        of |-> of]}

\* The foreign keys ask for the accounts, of whichever tenant.
Known(lines) ==
  \A k \in DOMAIN lines :
    \A a \in {lines[k].debit, lines[k].credit} \ {None} : chart[a] # None

Post(lines, source, of) ==
  /\ Accepted(lines)
  /\ Known(lines)
  /\ Insert(Stored(lines), Stored(lines), source, of)
  /\ UNCHANGED books

\* The journal endpoint asks for at least two lines.
PostJournal(lines) == Len(lines) >= 2 /\ Post(lines, "manual", None)

-----------------------------------------------------------------------------
(* reverse: the entry is read, then a mirrored one is stored.  The foreign  *)
(* keys refuse a mirror of lines that lost an account in between, so that   *)
(* the two are one step; the entry is not marked, and may be reversed       *)
(* again.  No endpoint of the repository calls reverse yet: it is modelled  *)
(* as the operation PostingService offers to other modules.                *)

Mirror(lines) ==
  [k \in DOMAIN lines |-> [debit |-> lines[k].credit, credit |-> lines[k].debit,
                           amount |-> lines[k].amount]]

ReverseOf(e) ==
  /\ Cardinality({r \in entries : r.source = "reversal"}) < MaxReversals
  /\ Insert(Mirror(e.lines), Mirror(e.posted), "reversal", e.id)
  /\ UNCHANGED books

-----------------------------------------------------------------------------
(* The chart of accounts: accounts.controller.ts, without any check.       *)
(* Clients leave ids to the database, so that a deleted one does not come   *)
(* back, and an update does not change them.                               *)

Edit == edits < MaxEdits /\ edits' = edits + 1

CreateAccount(a) ==
  /\ Edit
  /\ chart[a] = None /\ a \notin deleted
  /\ \E r \in AccountInputs : r.own /\ chart' = [chart EXCEPT ![a] = r]
  /\ UNCHANGED <<entries, deleted>>

\* The body of the request is the update: any type, and any tenant.
UpdateAccount(a) ==
  /\ Edit
  /\ chart[a] # None
  /\ \E r \in AccountInputs : chart' = [chart EXCEPT ![a] = r]
  /\ UNCHANGED <<entries, deleted>>

\* Mutant of Without: the lines go with the account (onDelete: Cascade).
WithoutLines(lines, a) ==
  SelectSeq(lines, LAMBDA l : l.debit # a /\ l.credit # a)

Without(lines, a) ==
  LET side(b) == IF b = a THEN None ELSE b
  IN [k \in DOMAIN lines |-> [debit |-> side(lines[k].debit),
                              credit |-> side(lines[k].credit),
                              amount |-> lines[k].amount]]

\* The lines of the account are kept, and the column that named it set to null.
DeleteAccount(a) ==
  /\ Edit
  /\ chart[a] # None
  /\ chart' = [chart EXCEPT ![a] = None]
  /\ deleted' = deleted \union {a}
  /\ entries' = {[e EXCEPT !.lines = Without(@, a)] : e \in entries}

-----------------------------------------------------------------------------
(* Reports, over the tenant's own accounts.                                *)

Own == {a \in Accounts : chart[a] # None /\ chart[a].own}

\* Debit minus credit on account a, over a set of entries.
Net(S, a) ==
  SumFunction([e \in S |-> SumOf(e.lines, LAMBDA l : l.debit = a)
                             - SumOf(e.lines, LAMBDA l : l.credit = a)])

NormalDebit(a) == chart[a].type \in {"ASSET", "EXPENSE"}

\* The balance trialBalance shows for an account.
Balance(S, a) == IF NormalDebit(a) THEN Net(S, a) ELSE -Net(S, a)

TotalOf(S, type) ==
  SumFunction([a \in {b \in Own : chart[b].type = type} |-> Balance(S, a)])

NetIncome(S) == TotalOf(S, "INCOME") - TotalOf(S, "EXPENSE")

\* Mutant of Check: liabilities count as assets do.
CheckPlus(S) == TotalOf(S, "ASSET") + TotalOf(S, "LIABILITY") - TotalOf(S, "EQUITY")

\* The figure balanceSheet calls check.
Check(S) == TotalOf(S, "ASSET") - (TotalOf(S, "LIABILITY") + TotalOf(S, "EQUITY"))

-----------------------------------------------------------------------------
(* Properties.                                                             *)

Imbalance(lines) == Debits(lines) - Credits(lines)

\* Lines without the sides on accounts deleted by now.
Cleared(lines) ==
  LET side(b) == IF b \in deleted THEN None ELSE b
  IN [k \in DOMAIN lines |-> [debit |-> side(lines[k].debit),
                              credit |-> side(lines[k].credit),
                              amount |-> lines[k].amount]]

\* An entry was off by half a stored place per line at most when it was posted,
\* whatever users wrote, and all that it lost since are the sides on accounts
\* that were deleted, one of which breaks its balance; a reversal mirrors what
\* is left of the entry (post, reverse, remove).
BalancedUpToRounding ==
  \A e \in entries :
    /\ 2 * Imbalance(e.posted) <= Grain * Len(e.posted)
    /\ -(2 * Imbalance(e.posted)) <= Grain * Len(e.posted)
    /\ e.lines = Cleared(e.posted)

\* What the lines say of the accounts the reports show.
OffOwn(lines) ==
  SumOf(lines, LAMBDA l : l.debit \in Own)
    - SumOf(lines, LAMBDA l : l.credit \in Own)

\* The check of the balance sheet, which leaves profit out, comes to the net
\* income of profit and loss and what the entries are off by on the accounts
\* shown (rounding, and sides on accounts deleted or given away): the sheet
\* shows 0 only when all income was spent (balanceSheet, profitAndLoss).
CheckIsNetIncome ==
  Check(entries)
    = NetIncome(entries) + SumFunction([e \in entries |-> OffOwn(e.lines)])

=============================================================================
