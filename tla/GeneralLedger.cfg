SPECIFICATION BooksSpec
CONSTANTS
 Entries={e1,e2}
 Closings={c1,c2}
 ProfitAndLoss={"rent"}
 Days={1,2}
 YearOf<-MCYear
 Drafts<-MCDrafts
 Cap=2
 CapUpTo<-MCCapUpTo
 Clerks={w1,w2}
 Nobody=Nobody
 Nodes = {1, 2, 3}
 Titles = {"Big", "Other"}
 SlugOf <- MCSlugOf
 Editors = {w1, w2}
 NoNode = NoNode
 Idle = Idle
 Unborn = Unborn
 Gone = Gone
 MaxUpdates = 2
 Accounts = {"root", "group", "cash", "bank"}
 ParentOf <- MCParentOf
 TopLevel = TopLevel
 Closed = Closed
 Resting = Resting
 NetOf <- MCNetOf
 Labels = {"Big", "BIG", "Other"}
 LabelSlug <- MCLabelSlug
 Keepers = {w1, w2}
 MaxRenames = 2
SYMMETRY Sym
CHECK_DEADLOCK FALSE
INVARIANTS LedgerIsSound MastersHold TotalsHold TaxHolds EstimatesHold
PROPERTIES FreezeOnlyAdvances ClosedIsFinal BudgetHolds
