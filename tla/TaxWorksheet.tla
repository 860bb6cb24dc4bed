---------------------------- MODULE TaxWorksheet ----------------------------
(***************************************************************************)
(* The income-tax worksheet of a year and what hangs on it                 *)
(* (services/taxation: computations.py, runs.py, loss_setoff.py,           *)
(* mat_credit.py, credits.py, filings.py).  A worksheet is computed as     *)
(* often as its user likes; every run first gives back the losses that     *)
(* earlier runs of the worksheet had set off, and takes anew what it       *)
(* needs.  Submitting posts the tax to the ledger, and a revised return    *)
(* starts from a submitted one.                                            *)
(*                                                                         *)
(* The tax on a rupee is a rupee and there is no interest (TaxKernel has   *)
(* the arithmetic).  Losses are of one character and do not expire; book   *)
(* profit is given as the minimum tax on it.  Every request here is served *)
(* alone.                                                                  *)
(***************************************************************************)
EXTENDS Integers, SequencesExt, FiniteSetsExt

CONSTANTS
  Incomes,     \* income a user may enter
  BookTaxes,   \* minimum tax on the book profit he may enter
  NoBook,      \* no book profit entered
  LossAmounts, \* the brought-forward losses, in the order of their set-off
  Credits,     \* amounts of the tax credits that may be claimed
  Days,        \* days on which a return may be acknowledged
  MaxSheets, MaxRuns,
  MaxTouches   \* bound on edits, credits and returns

ASSUME WorksheetAssumption ==
  /\ Incomes \subseteq Nat /\ BookTaxes \subseteq Nat /\ NoBook \notin BookTaxes
  /\ LossAmounts \in Seq(Nat \ {0}) /\ Credits \subseteq Nat \ {0} /\ Days \subseteq Nat \ {0}
  /\ MaxSheets \in Nat /\ MaxRuns \in Nat /\ MaxTouches \in Nat

VARIABLES
  sheets,     \* the worksheets, in the order of their creation, each with its runs
  remaining,  \* amount_remaining of each loss
  mat,        \* totals of the minimum-tax credit created and utilised
  claimed,    \* the credits entered and not voided
  provision,  \* balance of the provision in the ledger, by worksheet
  filings,    \* the returns generated
  latest,     \* for checking only: the worksheet computed last, 0 once the
              \* losses were given something new
  touches     \* how much was edited (a bound)

wvars == <<sheets, remaining, mat, claimed, provision, filings, latest, touches>>

Losses == DOMAIN LossAmounts
Sheet(income, book, revises) ==
  [docstatus |-> "Draft", status |-> "Draft", income |-> income, book |-> book,
   revises |-> revises, filed |-> 0, runs |-> <<>>]

WInit ==
  /\ sheets = <<>> /\ provision = <<>> /\ filings = <<>>
  /\ remaining = [l \in Losses |-> 0]
  /\ mat = [created |-> 0, utilised |-> 0]
  /\ claimed = {}
  /\ latest = 0 /\ touches = 0

Touched == touches < MaxTouches /\ touches' = touches + 1

----------------------------------------------------------------------------
(* Worksheets *)

NewSheet(s) ==
  /\ Len(sheets) < MaxSheets
  /\ sheets' = Append(sheets, s)
  /\ provision' = Append(provision, 0)
  /\ UNCHANGED <<remaining, mat, claimed, filings, latest, touches>>
CreateSheet == \E income \in Incomes : NewSheet(Sheet(income, NoBook, 0))
\* a revised return copies the lines of a submitted one
ChainReturn(s) ==
  /\ sheets[s].docstatus = "Submitted"
  /\ NewSheet(Sheet(sheets[s].income, sheets[s].book, s))

UpdateSheet(s) ==
  /\ Touched
  /\ sheets[s].docstatus = "Draft"
  /\ \E income \in Incomes, book \in BookTaxes \cup {sheets[s].book} :
       sheets' = [sheets EXCEPT ![s].income = income, ![s].book = book]
  /\ UNCHANGED <<remaining, mat, claimed, provision, filings, latest>>

CreateLoss(l) ==
  /\ remaining[l] = 0 /\ ~\E s \in DOMAIN sheets : \E r \in Range(sheets[s].runs) : r.uses[l] > 0
  /\ remaining' = [remaining EXCEPT ![l] = LossAmounts[l]]
  /\ latest' = 0
  /\ UNCHANGED <<sheets, mat, claimed, provision, filings, touches>>

EnterCredit(c) ==
  /\ Touched
  /\ claimed' = claimed \cup {c}
  /\ UNCHANGED <<sheets, remaining, mat, provision, filings, latest>>
VoidCredit(c) ==
  /\ Touched
  /\ claimed' = claimed \ {c}
  /\ UNCHANGED <<sheets, remaining, mat, provision, filings, latest>>

----------------------------------------------------------------------------
(* A run *)

AtLeastNil(n) == IF n < 0 THEN 0 ELSE n
Lesser(a, b) == IF a <= b THEN a ELSE b

\* what runs of a sheet have set off and not given back
HeldBy(runs, l) ==
  SumFunctionOnSet([n \in DOMAIN runs |-> IF runs[n].reversed THEN 0 ELSE runs[n].uses[l]], DOMAIN runs)
\* mutant: a run takes what the runs before it have left
NothingGivenBack(s) == remaining
\* mutant: entries already given back are given back again
EverGivenBack(s) ==
  [l \in Losses |-> remaining[l] + MapThenSumSet(LAMBDA n : sheets[s].runs[n].uses[l], DOMAIN sheets[s].runs)]
GivenBack(s) == [l \in Losses |-> remaining[l] + HeldBy(sheets[s].runs, l)]

\* losses go in their order, each as far as the income reaches
SetOff(pool, income) ==
  [l \in Losses |-> Lesser(pool[l], AtLeastNil(income - SumFunctionOnSet(pool, 1 .. l - 1)))]

AvailableMat == AtLeastNil(mat.created - mat.utilised)
\* the higher of the two taxes; what minimum tax exceeds is credited, and used
\* where it is lower
ComparedMat(normal, book) ==
  IF book = NoBook THEN [created |-> 0, utilised |-> 0, tax |-> normal]
  ELSE IF book > normal THEN [created |-> book - normal, utilised |-> 0, tax |-> book]
  ELSE LET used == Lesser(AvailableMat, normal - book)
       IN [created |-> 0, utilised |-> used, tax |-> normal - used]

Superseded(runs) == [n \in DOMAIN runs |-> [runs[n] EXCEPT !.reversed = TRUE, !.superseded = TRUE]]

\* a submitted sheet can be computed again, and its status then says Computed
CreateRun(s) ==
  LET sheet  == sheets[s]
      pool   == GivenBack(s)
      uses   == SetOff(pool, sheet.income)
      normal == sheet.income - SumFunctionOnSet(uses, Losses)
      m      == ComparedMat(normal, sheet.book)
      net    == AtLeastNil(m.tax - SumFunctionOnSet([c \in claimed |-> c], claimed))
      run    == [income |-> sheet.income, book |-> sheet.book, uses |-> uses, net |-> net,
                 reversed |-> FALSE, superseded |-> FALSE]
  IN /\ sheet.docstatus # "Cancelled"
     /\ MapThenSumSet(LAMBDA t : Len(sheets[t].runs), DOMAIN sheets) < MaxRuns
     /\ sheets' = [sheets EXCEPT ![s].status = "Computed", ![s].runs = Append(Superseded(@), run)]
     /\ remaining' = [l \in Losses |-> pool[l] - uses[l]]
     /\ mat' = [created |-> mat.created + m.created, utilised |-> mat.utilised + m.utilised]
     /\ latest' = s
     /\ UNCHANGED <<claimed, provision, filings, touches>>

\* mutant: any run will do
EverRun(sheet) == sheet.runs # <<>>
UpToDate(sheet) ==
  /\ sheet.runs # <<>>
  /\ Last(sheet.runs).income = sheet.income /\ Last(sheet.runs).book = sheet.book

SubmitSheet(s) ==
  /\ sheets[s].docstatus = "Draft"
  /\ UpToDate(sheets[s])
  /\ sheets' = [sheets EXCEPT ![s].docstatus = "Submitted", ![s].status = "Submitted"]
  /\ provision' = [provision EXCEPT ![s] = @ + Last(sheets[s].runs).net]
  /\ UNCHANGED <<remaining, mat, claimed, filings, latest, touches>>

\* what it set off stays set off
CancelSheet(s) ==
  /\ sheets[s].docstatus # "Cancelled"
  /\ sheets' = [sheets EXCEPT ![s].docstatus = "Cancelled", ![s].status = "Cancelled"]
  /\ provision' = [provision EXCEPT ![s] = 0]
  /\ UNCHANGED <<remaining, mat, claimed, filings, latest, touches>>

----------------------------------------------------------------------------
(* Returns *)

Filed(f) == filings[f].filed # 0
\* mutant: the return before it may still wait for its acknowledgement
AnyPrior(s) == {f \in DOMAIN filings : filings[f].sheet = sheets[s].revises}
Prior(s) == {f \in DOMAIN filings : filings[f].sheet = sheets[s].revises /\ Filed(f)}
LastFiled(found) ==
  {f \in found : \A g \in found :
     filings[g].filed < filings[f].filed \/ (filings[g].filed = filings[f].filed /\ g <= f)}

\* a draft may be filed too, when it is asked for
GenerateFiling(s) ==
  /\ Touched
  /\ LET prior == LastFiled(Prior(s))
     IN filings' = Append(filings,
          [sheet |-> s, filed |-> 0,
           revises |-> IF prior = {} THEN 0 ELSE CHOOSE f \in prior : TRUE])
  /\ UNCHANGED <<sheets, remaining, mat, claimed, provision, latest>>

\* acknowledged again, it takes the later day; the worksheet keeps the first
AcknowledgeFiling(f) ==
  /\ \E day \in Days :
       /\ filings' = [filings EXCEPT ![f].filed = day]
       /\ sheets' = [sheets EXCEPT ![filings[f].sheet].filed = IF @ = 0 THEN day ELSE @]
  /\ UNCHANGED <<remaining, mat, claimed, provision, latest, touches>>

WNext ==
  \/ CreateSheet
  \/ \E l \in Losses : CreateLoss(l)
  \/ \E c \in Credits : EnterCredit(c) \/ VoidCredit(c)
  \/ \E s \in DOMAIN sheets :
       ChainReturn(s) \/ UpdateSheet(s) \/ CreateRun(s) \/ SubmitSheet(s) \/ CancelSheet(s) \/ GenerateFiling(s)
  \/ \E f \in DOMAIN filings : AcknowledgeFiling(f)

WSpec == WInit /\ [][WNext]_wvars

----------------------------------------------------------------------------
(* Properties *)

\* A loss is what remains of it and what runs hold of it, and no run holds
\* more than there is, after any order of runs of several worksheets
\* (reverse_setoffs_for_computation, persist_setoff_applications).
LossesAddUp ==
  \A l \in Losses :
    LET held == SumFunctionOnSet([s \in DOMAIN sheets |-> HeldBy(sheets[s].runs, l)], DOMAIN sheets)
    IN remaining[l] >= 0 /\ remaining[l] + held \in {0, LossAmounts[l]}

\* Only the current run of a worksheet holds losses, and only it is not
\* superseded (create_run).
OnlyLastHolds ==
  \A s \in DOMAIN sheets : \A n \in DOMAIN sheets[s].runs :
    LET r == sheets[s].runs[n]
    IN /\ r.superseded <=> n < Len(sheets[s].runs)
       /\ r.superseded => r.reversed

\* The credit for minimum tax is never used beyond what was created.
MatIsCovered == mat.utilised <= mat.created

\* The provision in the ledger is the tax some run found on the worksheet as
\* it stands, and a draft or cancelled worksheet has none (submit_computation,
\* cancel_computation).
ProvisionIsComputed ==
  \A s \in DOMAIN sheets :
    IF sheets[s].docstatus = "Submitted"
    THEN \E r \in Range(sheets[s].runs) :
           r.net = provision[s] /\ r.income = sheets[s].income /\ r.book = sheets[s].book
    ELSE provision[s] = 0

\* A return that revises another names one that was acknowledged, of the
\* worksheet its own revises; a worksheet with an acknowledged return knows
\* the day (generate_filing, acknowledge_filing).
ReturnsAreChained ==
  \A f \in DOMAIN filings :
    /\ filings[f].revises # 0 =>
         Filed(filings[f].revises) /\ filings[filings[f].revises].sheet = sheets[filings[f].sheet].revises
    /\ Filed(f) => sheets[filings[f].sheet].filed # 0

WorksheetHolds ==
  LossesAddUp /\ OnlyLastHolds /\ MatIsCovered /\ ProvisionIsComputed /\ ReturnsAreChained

\* Computing a worksheet again when nothing else touched the losses sets off
\* the same losses: the next run "sees the same pool" (runs.py:78).
RunsRepeat ==
  [][\A s \in DOMAIN sheets :
       LET before == sheets[s].runs
           after  == sheets'[s].runs
       IN Len(after) > Len(before) /\ latest = s /\ Last(before).income = sheets[s].income
            => Last(after).uses = Last(before).uses /\ remaining' = remaining]_wvars
=============================================================================
