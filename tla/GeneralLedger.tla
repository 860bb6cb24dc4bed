---------------------------- MODULE GeneralLedger ----------------------------
(***************************************************************************)
(* The general ledger and the three documents that live on it alone:       *)
(* journal entries, period closing vouchers and a budget (services/gl.py,  *)
(* journal_entry.py, period_closing.py, budget.py).                        *)
(*                                                                         *)
(* The ledger is insert-only, so it is known from how often a journal      *)
(* entry was posted and mirrored and from the rows a closing moved.  A     *)
(* handler reads what it decides on (Check...), then writes at its commit; *)
(* no row is locked, except that two closings take their names from one    *)
(* counter row, which the second cannot increment before the first ends.   *)
(*                                                                         *)
(* Amounts are debit minus credit.  A handler refuses by not being enabled;*)
(* every other reason to refuse, and a crash, is Abandon.                  *)
(***************************************************************************)
EXTENDS Integers, FiniteSets, Sequences, Functions, FiniteSetsExt

CONSTANTS
  Entries, Closings,      \* journal entries and closing vouchers
  ProfitAndLoss,          \* accounts that are closed; all expenses here
  Days, YearOf,           \* posting dates, and the fiscal year of each, first to last day
  Drafts,                 \* what a journal entry may say: [date, rows]
  Cap, CapUpTo,           \* budget of the year, and month to date, per account
  Clerks, Nobody

ASSUME LedgerAssumption ==
  /\ IsFiniteSet(Entries) /\ IsFiniteSet(Closings)
  /\ Days \subseteq Nat \ {0} /\ IsFiniteSet(Days) /\ YearOf \in [Days -> Nat]
  /\ \A d, e \in Days : d <= e => YearOf[d] <= YearOf[e]
  /\ \A draft \in Drafts :
       /\ draft.date \in Days
       /\ IsFiniteSet(DOMAIN draft.rows)
       /\ \A i \in DOMAIN draft.rows : draft.rows[i].amount \in Int
  /\ Cap \in Nat /\ CapUpTo \in [Days -> Nat]
  /\ Nobody \notin Clerks /\ Nobody \notin Drafts
  /\ Entries \cap {"budget", "closing", "books"} = {}

VARIABLES
  entry,      \* each journal entry: stage and what it says
  postings,   \* how often its rows were inserted and how often mirrored
  closed,     \* each closing voucher: its date, 0 before it is in force, and what it moved
  frozen,     \* accounts_frozen_upto
  budget,     \* stage of the budget
  counter,    \* who holds the row that numbers closing vouchers
  desk,       \* the request each clerk has open
  disturbed   \* history: what a request wrote on facts another had changed

gvars == <<entry, postings, closed, frozen, budget, counter, desk, disturbed>>

----------------------------------------------------------------------------
(* What the ledger says *)

Stages == {"none", "draft", "submitted", "cancelled"}
Shut == {c \in Closings : closed[c].date # 0}
Written == {e \in Entries : entry[e].says # Nobody}
Net(e) == postings[e].made - postings[e].mirrored

AmountOn(draft, a) ==
  SumFunctionOnSet(
    [i \in DOMAIN draft.rows |-> IF draft.rows[i].account = a THEN draft.rows[i].amount ELSE 0],
    DOMAIN draft.rows)

\* what journal entries put on an account between two days
Booked(a, from, to) ==
  SumFunctionOnSet(
    [e \in Entries |-> IF e \in Written /\ entry[e].says.date \in from .. to
                       THEN Net(e) * AmountOn(entry[e].says, a) ELSE 0], Entries)

\* what closings took off it
Moved(a, from, to) ==
  SumFunctionOnSet(
    [c \in Closings |-> IF c \in Shut /\ closed[c].date \in from .. to
                        THEN closed[c].moved[a] ELSE 0], Closings)

Balance(a, day) == Booked(a, 0, day) - Moved(a, 0, day)

\* the window of the budget control: the rows of closings are spending too
YearStart(d) == Min({x \in Days : YearOf[x] = YearOf[d]})
YearEnd(d) == Max({x \in Days : YearOf[x] = YearOf[d]})
AccountSpend(a, from, to) == Booked(a, from, to) - Moved(a, from, to)

\* mutant: the row being posted is left out of the comparison
WithinBudgetSoFar(draft) ==
  budget = "submitted" =>
    \A i \in DOMAIN draft.rows :
      LET a == draft.rows[i].account d == draft.date IN
      a \in ProfitAndLoss /\ draft.rows[i].amount > 0 =>
        AccountSpend(a, YearStart(d), YearEnd(d)) <= Cap

\* each row is compared alone with what is already in the ledger
WithinBudget(draft) ==
  budget = "submitted" =>
    \A i \in DOMAIN draft.rows :
      LET row == draft.rows[i] d == draft.date IN
      row.account \in ProfitAndLoss /\ row.amount > 0 =>
        /\ AccountSpend(row.account, YearStart(d), YearEnd(d)) + row.amount <= Cap
        /\ AccountSpend(row.account, YearStart(d), d) + row.amount <= CapUpTo[d]

\* mutant: the last frozen day is open
OpenFrom(d) == d >= frozen
OpenPeriod(d) == d > frozen

----------------------------------------------------------------------------
(* Requests *)

Request(op, what, date, moved) ==
  [op |-> op, on |-> what, date |-> date, moved |-> moved, late |-> {}]
NoRequest == Request("none", Nobody, 0, Nobody)
Busy(w) == desk[w].op # "none"
Doing(w, op) == desk[w].op = op

\* a commit is news to every other open request
Tell(w, news) ==
  desk' = [x \in Clerks |->
             IF Busy(x) /\ x # w THEN [desk[x] EXCEPT !.late = @ \cup news] ELSE NoRequest]

\* writing an entry spoils it if it was written since the check, and the
\* closed books if they were closed since
Spoilt(w) ==
  disturbed \cup (desk[w].late \cap {desk[w].on})
            \cup (IF "closing" \in desk[w].late THEN {"books"} ELSE {})

----------------------------------------------------------------------------
GLInit ==
  /\ entry = [e \in Entries |-> [stage |-> "none", says |-> Nobody]]
  /\ postings = [e \in Entries |-> [made |-> 0, mirrored |-> 0]]
  /\ closed = [c \in Closings |-> [date |-> 0, moved |-> Nobody]]
  /\ frozen = 0
  /\ budget = "none"
  /\ counter = Nobody
  /\ desk = [w \in Clerks |-> NoRequest]
  /\ disturbed = {}

CreateJournalEntry(e, draft) ==
  /\ entry[e].stage = "none"
  /\ entry' = [entry EXCEPT ![e] = [stage |-> "draft", says |-> draft]]
  /\ UNCHANGED <<postings, closed, frozen, budget, counter, desk, disturbed>>

CheckSubmit(w, e) ==
  /\ ~Busy(w)
  /\ entry[e].stage = "draft"
  /\ OpenPeriod(entry[e].says.date)
  /\ WithinBudget(entry[e].says)
  /\ desk' = [desk EXCEPT ![w] = Request("submit", e, 0, Nobody)]
  /\ UNCHANGED <<entry, postings, closed, frozen, budget, counter, disturbed>>

CommitSubmit(w) ==
  /\ Doing(w, "submit")
  /\ LET e == desk[w].on IN
     /\ entry' = [entry EXCEPT ![e].stage = "submitted"]
     /\ postings' = [postings EXCEPT ![e].made = @ + 1]
  /\ disturbed' = Spoilt(w)
  /\ Tell(w, {desk[w].on})
  /\ UNCHANGED <<closed, frozen, budget, counter>>

\* mutant: an entry that is not submitted is cancelled too
CheckCancelAny(w, e) ==
  /\ ~Busy(w)
  /\ entry[e].says # Nobody
  /\ OpenPeriod(entry[e].says.date)
  /\ desk' = [desk EXCEPT ![w] = Request("cancel", e, 0, postings[e].made)]
  /\ UNCHANGED <<entry, postings, closed, frozen, budget, counter, disturbed>>

\* the rows to mirror are selected here: every original, mirrored before or not
CheckCancel(w, e) ==
  /\ ~Busy(w)
  /\ entry[e].stage = "submitted"
  /\ OpenPeriod(entry[e].says.date)
  /\ desk' = [desk EXCEPT ![w] = Request("cancel", e, 0, postings[e].made)]
  /\ UNCHANGED <<entry, postings, closed, frozen, budget, counter, disturbed>>

CommitCancel(w) ==
  /\ Doing(w, "cancel")
  /\ LET e == desk[w].on IN
     /\ entry' = [entry EXCEPT ![e].stage = "cancelled"]
     /\ postings' = [postings EXCEPT ![e].mirrored = @ + desk[w].moved]
  /\ disturbed' = Spoilt(w)
  /\ Tell(w, {desk[w].on})
  /\ UNCHANGED <<closed, frozen, budget, counter>>

\* the balances are read before the voucher has a name
BeginClosing(w, c, d) ==
  /\ ~Busy(w)
  /\ c \notin Shut
  /\ \A x \in Clerks : Busy(x) => desk[x].on # c
  /\ \E a \in ProfitAndLoss : Balance(a, d) # 0
  /\ desk' = [desk EXCEPT ![w] =
                Request("name", c, d, [a \in ProfitAndLoss |-> Balance(a, d)])]
  /\ UNCHANGED <<entry, postings, closed, frozen, budget, counter, disturbed>>

\* mutant: the freeze date is compared before the name is taken
NameUnlocked(w) ==
  /\ Doing(w, "name")
  /\ OpenPeriod(desk[w].date)
  /\ desk' = [desk EXCEPT ![w].op = "close"]
  /\ UNCHANGED <<entry, postings, closed, frozen, budget, counter, disturbed>>

\* the name is taken from the counter row, then the freeze date is read
NameClosing(w) ==
  /\ Doing(w, "name")
  /\ counter = Nobody
  /\ OpenPeriod(desk[w].date)
  /\ counter' = w
  /\ desk' = [desk EXCEPT ![w].op = "close"]
  /\ UNCHANGED <<entry, postings, closed, frozen, budget, disturbed>>

CommitClosing(w) ==
  /\ Doing(w, "close")
  /\ closed' = [closed EXCEPT ![desk[w].on] = [date |-> desk[w].date, moved |-> desk[w].moved]]
  /\ frozen' = desk[w].date
  /\ disturbed' = disturbed \cup (IF desk[w].late \ {"budget"} # {} THEN {"books"} ELSE {})
  /\ counter' = Nobody
  /\ Tell(w, {"closing"})
  /\ UNCHANGED <<entry, postings, budget>>

\* mutant: the counter row stays locked
AbandonHolding(w) ==
  /\ Busy(w)
  /\ desk' = [desk EXCEPT ![w] = NoRequest]
  /\ UNCHANGED <<entry, postings, closed, frozen, budget, counter, disturbed>>

\* refused, or the process died
Abandon(w) ==
  /\ Busy(w)
  /\ desk' = [desk EXCEPT ![w] = NoRequest]
  /\ counter' = IF counter = w THEN Nobody ELSE counter
  /\ UNCHANGED <<entry, postings, closed, frozen, budget, disturbed>>

CreateBudget ==
  /\ budget \in {"none", "cancelled"}
  /\ budget' = "draft"
  /\ UNCHANGED <<entry, postings, closed, frozen, counter, desk, disturbed>>

SubmitBudget ==
  /\ budget = "draft"
  /\ budget' = "submitted"
  /\ Tell(Nobody, {"budget"})
  /\ UNCHANGED <<entry, postings, closed, frozen, counter, disturbed>>

CancelBudget ==
  /\ budget = "submitted"
  /\ budget' = "cancelled"
  /\ UNCHANGED <<entry, postings, closed, frozen, counter, desk, disturbed>>

GLNext ==
  \/ \E e \in Entries, draft \in Drafts : CreateJournalEntry(e, draft)
  \/ \E w \in Clerks, e \in Entries : CheckSubmit(w, e) \/ CheckCancel(w, e)
  \/ \E w \in Clerks : CommitSubmit(w) \/ CommitCancel(w)
  \/ \E w \in Clerks, c \in Closings, d \in Days : BeginClosing(w, c, d)
  \/ \E w \in Clerks : NameClosing(w) \/ CommitClosing(w) \/ Abandon(w)
  \/ CreateBudget \/ SubmitBudget \/ CancelBudget

GLSpec == GLInit /\ [][GLNext]_gvars

----------------------------------------------------------------------------
(* Properties *)

\* Type correctness; a closing is in progress only for the holder of the counter.
GLTypeOK ==
  /\ entry \in [Entries -> [stage : Stages, says : Drafts \cup {Nobody}]]
  /\ postings \in [Entries -> [made : Nat, mirrored : Nat]]
  /\ \A c \in Shut : closed[c].date \in Days /\ closed[c].moved \in [ProfitAndLoss -> Int]
  /\ frozen \in Days \cup {0}
  /\ budget \in Stages
  /\ counter \in Clerks \cup {Nobody}
  /\ \A w \in Clerks : Doing(w, "close") <=> counter = w
  /\ disturbed \subseteq Entries \cup {"books"}

\* Once a year is closed its profit and loss accounts are empty up to the
\* freeze date, whatever is posted, cancelled and closed later, in any order
\* (period_closing.py: balances up to posting_date are transferred).  It
\* fails only after a request that went on with facts a commit had changed.
ClosedIsEmpty == "books" \notin disturbed => \A a \in ProfitAndLoss : Balance(a, frozen) = 0

\* The freeze date never moves back, even when two closings overlap: the one
\* that waits for the counter of names compares with the freeze date after.
FreezeOnlyAdvances == [][frozen' >= frozen]_gvars

\* Nothing dated in a frozen period is posted, mirrored or closed over, except
\* by a request that was already past its check when the closing committed.
ClosedIsFinal ==
  [][\A d \in Days : d <= frozen =>
       /\ \A e \in Entries :
            entry[e].says # Nobody /\ entry[e].says.date = d /\ postings'[e] # postings[e] =>
              \E w \in Clerks : Busy(w) /\ desk[w].on = e /\ "closing" \in desk[w].late
       /\ {c \in Shut : closed[c].date = d}' = {c \in Shut : closed[c].date = d}]_gvars

\* Expenses booked in the year of day d, closings apart
TrueSpend(a, d) == Booked(a, YearStart(d), YearEnd(d))
Refund(e) == \E i \in DOMAIN entry[e].says.rows :
               LET row == entry[e].says.rows[i] IN row.account \in ProfitAndLoss /\ row.amount < 0
Splits(e, a) == Cardinality({i \in DOMAIN entry[e].says.rows : entry[e].says.rows[i].account = a}) > 1

\* A submitted budget keeps what is spent on an account within its amount.
\* A step that goes beyond it is of one of four kinds: the voucher splits the
\* account over two rows, it is the cancellation of a refund, the year was
\* closed in part (the closing hides the spending from the control), or
\* another request, perhaps the budget's own, committed since the check.
BudgetHolds ==
  [][\A a \in ProfitAndLoss, d \in Days :
       budget = "submitted" /\ TrueSpend(a, d)' > Cap /\ TrueSpend(a, d)' > TrueSpend(a, d) =>
         \/ \E c \in Shut : YearOf[closed[c].date] = YearOf[d]
         \/ \E w \in Clerks : /\ Busy(w) /\ desk'[w] = NoRequest
                              /\ \/ desk[w].late \ {"closing"} # {}
                                 \/ Splits(desk[w].on, a)
                                 \/ Doing(w, "cancel") /\ Refund(desk[w].on)]_gvars

\* A cancelled entry leaves every account where it was, unless two requests
\* worked on it at once.
CancelledNetsOut ==
  \A e \in Entries \ disturbed : entry[e].stage = "cancelled" => Net(e) = 0

\* The state of the ledger at any moment.
LedgerIsSound == GLTypeOK /\ ClosedIsEmpty /\ CancelledNetsOut
=============================================================================
