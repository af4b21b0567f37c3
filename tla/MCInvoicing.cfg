SPECIFICATION InvoicingSpec
CONSTANTS
  d1 = d1
  d2 = d2
  d3 = d3
  d4 = d4
  e1 = e1
  e2 = e2
  e3 = e3
  i1 = i1
  i2 = i2
  i3 = i3
  w1 = w1
  w2 = w2
  None = None
  Accounts = {"cash", "receivable", "tax", "capital", "sales", "rent"}
  FirstChart <- Chart
  AccountInputs <- EditedRows
  MaxEdits = 1
  Grain = 2
  Journals <- Written
  EntryIds = {e1, e2, e3}
  MaxReversals = 2
  Drafts = {d1, d2, d3, d4}
  DraftOf <- FourDrafts
  InvoiceIds = {i1, i2, i3}
  Postings <- BothPostings
  MaxPosts = 2
  Workers = {w1, w2}
SYMMETRY IdSymmetry
INVARIANTS
  InvoiceNumbersUnique
  NextInvoiceNumberFree
  InvoicesPostedInFull
  BalancedUpToRounding
  CheckIsNetIncome
CHECK_DEADLOCK FALSE
