------------------------------- MODULE Assets -------------------------------
(***************************************************************************)
(* Fixed assets (services/asset.py, jobs/assets.py).  An asset carries a   *)
(* depreciation schedule; each due row is posted as a journal entry, in a  *)
(* transaction of its own together with the flag of the row.  A nightly    *)
(* sweep does so for every asset, a request for one; both go on with the   *)
(* asset they loaded, which the session does not refresh, while other      *)
(* requests dispose of it, revalue it or reverse its depreciation.  Each   *)
(* of those is one transaction and one step here.                          *)
(*                                                                         *)
(* journals is the part of the ledger assets write: what an entry adds to  *)
(* the cost account and to accumulated depreciation, and how often it was  *)
(* mirrored.  It is mirrored by the asset or, behind its back, through     *)
(* the journal entry screen (services/journal_entry.py).                   *)
(***************************************************************************)
EXTENDS AssetSchedule

CONSTANTS
  AssetIds,
  Cost,                   \* gross purchase amount of each
  Method, Rate, Salvage,  \* category: method, written down rate, salvage percent
  DueOn,                  \* days of the schedule rows
  ManualAmounts,          \* amounts of a manual schedule
  NewValues,              \* what an asset may be revalued to
  LastDay, MaxChanges,    \* bounds: days; other entries and reversals of one asset
  Posters,                \* the nightly sweep and the requests that post
  Sweeper, NoAsset, NoPoster

ScheduleDays == 1 .. LastDay

ASSUME AssetAssumption ==
  /\ Cost \in [AssetIds -> Nat \ {0}] /\ LastDay \in Nat \ {0} /\ MaxChanges \in [AssetIds -> Nat]
  /\ Method \in [AssetIds -> {"Straight Line", "Written Down Value", "Manual"}]
  /\ Rate \in [AssetIds -> Nat] /\ Salvage \in [AssetIds -> 0 .. 100] /\ NewValues \subseteq Nat
  /\ DueOn \in [AssetIds -> Seq(ScheduleDays)]
  \* AssetCreate.manual_schedule
  /\ \A a \in AssetIds : Method[a] = "Manual" => ManualAmounts[a] \in [DOMAIN DueOn[a] -> Nat]
  /\ NoAsset \notin AssetIds /\ Sweeper \in Posters /\ NoPoster \notin Posters

VARIABLES
  asset,      \* each asset, or NoAsset before it is created
  journals,   \* the journal entries written for it, in order
  frozenUpto, \* freeze date of the ledger
  now,        \* the day
  poster,     \* what each sweep or request is doing
  crossed     \* history: assets changed while a poster worked on them

avars == <<asset, journals, frozenUpto, now, poster, crossed>>

----------------------------------------------------------------------------
(* An asset *)

Statuses == {"Draft", "Submitted", "Partially Depreciated", "Fully Depreciated", "Sold", "Scrapped", "Cancelled"}
Row == [due : ScheduleDays, amount : Int, journal : Nat]
AssetRow(a) ==
  [stage : {"draft", "submitted", "cancelled"}, status : Statuses, gross : Nat, adjusted : Int,
   rows : [DOMAIN DueOn[a] -> Row]]

ASSUME NoAssetAssumption == \A a \in AssetIds : NoAsset \notin AssetRow(a)

Exists(a) == asset[a] # NoAsset
Live(x) == x.stage = "submitted" /\ x.status \notin {"Sold", "Scrapped"}
RowsPosted(x) == {i \in DOMAIN x.rows : x.rows[i].journal # 0}
RowsOpen(x) == DOMAIN x.rows \ RowsPosted(x)
RowsDue(x, day) == {i \in RowsOpen(x) : x.rows[i].due <= day}

AmountOver(x, rows) == SumFunctionOnSet([i \in DOMAIN x.rows |-> x.rows[i].amount], rows)
Accumulated(x) == x.adjusted + AmountOver(x, RowsPosted(x))
BookValue(x) == x.gross - Accumulated(x)

\* mutant: one row posted counts as all
StatusAfterOne(x) == IF RowsPosted(x) = {} THEN "Submitted" ELSE "Fully Depreciated"

StatusFor(x) ==
  CASE RowsPosted(x) = {} -> "Submitted"
    [] RowsPosted(x) # {} /\ RowsOpen(x) = {} -> "Fully Depreciated"
    [] OTHER -> "Partially Depreciated"

FirstAmounts(a) ==
  LET n == Len(DueOn[a])
      salvage == SalvageOf(Cost[a], Salvage[a]) IN
  CASE Method[a] = "Manual" -> ManualAmounts[a]
    [] Method[a] = "Straight Line" -> StraightLine(Cost[a] - salvage, n)
    [] Method[a] = "Written Down Value" -> WrittenDown(Cost[a], salvage, n, Rate[a])

NewAsset(a, stage, status) ==
  [stage |-> stage, status |-> status, gross |-> Cost[a], adjusted |-> 0,
   rows |-> [i \in DOMAIN DueOn[a] |->
               [due |-> DueOn[a][i], amount |-> FirstAmounts(a)[i], journal |-> 0]]]

\* mutant: the plan stays
PlanKept(a, x, value) == x

\* the open rows depreciate the new value, in their order; manual ones stay
Rescheduled(a, x, value) ==
  LET open == RowsOpen(x)
      amounts == Reschedule(Method[a], Rate[a], value, SalvageOf(x.gross, Salvage[a]), Cardinality(open)) IN
  IF open = {} \/ Method[a] = "Manual" THEN x
  ELSE [x EXCEPT !.rows = [i \in DOMAIN x.rows |->
          IF i \in open
          THEN [x.rows[i] EXCEPT !.amount = amounts[Cardinality({k \in open : k <= i})]]
          ELSE x.rows[i]]]

\* mutant: a rise is taken off the accumulated depreciation
AdjustedBelow(x, fall) == [x EXCEPT !.adjusted = @ + fall]

\* fall is the amount by which the value falls: it accumulates, a rise raises the cost
Adjusted(x, fall) == IF fall > 0 THEN [x EXCEPT !.adjusted = @ + fall] ELSE [x EXCEPT !.gross = @ - fall]

\* row i is in entry j
Posted(x, i, j) ==
  LET flagged == [x EXCEPT !.rows[i].journal = j] IN
  [flagged EXCEPT !.status = StatusFor(flagged)]

\* mutant: the status is forgotten
ReopenedQuietly(x) == [x EXCEPT !.rows = [i \in DOMAIN @ |-> [@[i] EXCEPT !.journal = 0]]]

\* every posted row is open again
Reopened(x) ==
  LET open == [x EXCEPT !.rows = [i \in DOMAIN @ |-> [@[i] EXCEPT !.journal = 0]]] IN
  [open EXCEPT !.status = StatusFor(open)]

\* mutant: all rows but the first
OwnButFirst(x) == {x.rows[i].journal : i \in RowsPosted(x) \ {1}}

\* what a reversal mirrors
OwnEntries(x) == {x.rows[i].journal : i \in RowsPosted(x)}

----------------------------------------------------------------------------
(* Its journal entries *)

Journal(kind, row, day, cost, accumulated) ==
  [kind |-> kind, row |-> row, date |-> day, cost |-> cost, accumulated |-> accumulated,
   mirrored |-> 0, foreign |-> FALSE]

Postable(day) == day > frozenUpto
Changes(a) == {j \in DOMAIN journals[a] :
                 journals[a][j].kind # "depreciate" \/ journals[a][j].mirrored > 0}
RoomFor(a) == Cardinality(Changes(a)) < MaxChanges[a]
\* mutant: the last one written
LastEntry(a) == Len(journals[a])

NextEntry(a) == Len(journals[a]) + 1
\* the entries a reversal mirrors
Mirrored(J, mine) == [j \in DOMAIN J |-> IF j \in mine THEN [J[j] EXCEPT !.mirrored = @ + 1] ELSE J[j]]
Write(a, journal) == journals' = [journals EXCEPT ![a] = Append(@, journal)]

\* an entry and its mirror cancel
LedgerCost(a) ==
  (IF \E j \in DOMAIN journals[a] : journals[a][j].kind = "capitalize" THEN 0 ELSE Cost[a])
    + SumFunctionOnSet([j \in DOMAIN journals[a] |-> (1 - journals[a][j].mirrored) * journals[a][j].cost],
                       DOMAIN journals[a])
LedgerAccumulated(a) ==
  SumFunctionOnSet([j \in DOMAIN journals[a] |-> (1 - journals[a][j].mirrored) * journals[a][j].accumulated],
                   DOMAIN journals[a])

----------------------------------------------------------------------------
(* Who else works on it *)

Resting == [todo |-> {}, on |-> NoAsset, copy |-> NoAsset, rows |-> {}, day |-> 0]
Holding(p, a) == poster[p].on = a /\ poster[p].rows # {}
Touch(a, p) == crossed' = IF \E q \in Posters \ {p} : Holding(q, a) THEN crossed \cup {a} ELSE crossed

----------------------------------------------------------------------------
AInit ==
  /\ asset = [a \in AssetIds |-> NoAsset]
  /\ journals = [a \in AssetIds |-> <<>>]
  /\ frozenUpto = 0
  /\ now = 1
  /\ poster = [p \in Posters |-> Resting]
  /\ crossed = {}

PassDay ==
  /\ now < LastDay
  /\ now' = now + 1
  /\ UNCHANGED <<asset, journals, frozenUpto, poster, crossed>>

\* a period closing, elsewhere
FreezePeriod ==
  /\ frozenUpto + 1 < now
  /\ frozenUpto' = frozenUpto + 1
  /\ UNCHANGED <<asset, journals, now, poster, crossed>>

\* by hand, or from the line of a purchase invoice
CreateAsset(a) ==
  /\ ~Exists(a)
  /\ asset' = [asset EXCEPT ![a] = NewAsset(a, "draft", "Draft")]
  /\ UNCHANGED <<journals, frozenUpto, now, poster, crossed>>

SubmitAsset(a) ==
  /\ Exists(a) /\ asset[a].stage = "draft"
  /\ asset' = [asset EXCEPT ![a].stage = "submitted", ![a].status = "Submitted"]
  /\ UNCHANGED <<journals, frozenUpto, now, poster, crossed>>

CapitalizeAsset(a) ==
  /\ ~Exists(a)
  /\ RoomFor(a) /\ Postable(now)
  /\ asset' = [asset EXCEPT ![a] = NewAsset(a, "submitted", "Submitted")]
  /\ Write(a, Journal("capitalize", 0, now, Cost[a], 0))
  /\ UNCHANGED <<frozenUpto, now, poster, crossed>>

CancelAsset(a) ==
  /\ Exists(a) /\ asset[a].stage = "submitted"
  /\ RowsPosted(asset[a]) = {}
  /\ asset' = [asset EXCEPT ![a].stage = "cancelled", ![a].status = "Cancelled"]
  /\ Touch(a, NoPoster)
  /\ UNCHANGED <<journals, frozenUpto, now, poster>>

----------------------------------------------------------------------------
(* Posting what is due *)

Idle(p) == poster[p] = Resting

\* between two assets, or done
Reading(todo, day) ==
  IF todo = {} THEN Resting ELSE [Resting EXCEPT !.todo = todo, !.day = day]

\* a poster goes on with the rows due in the asset it has just loaded, if any
Loaded(a, todo, day) ==
  LET due == IF Live(asset[a]) THEN RowsDue(asset[a], day) ELSE {} IN
  IF due = {} THEN Reading(todo, day)
  ELSE [todo |-> todo, on |-> a, copy |-> asset[a], rows |-> due, day |-> day]

\* the nightly sweep selects the ids of the assets with something due
BeginSweep(p) ==
  /\ p = Sweeper /\ Idle(p)
  /\ LET due == {a \in AssetIds : /\ Exists(a) /\ asset[a].stage = "submitted"
                                  /\ asset[a].status \in {"Submitted", "Partially Depreciated"}
                                  /\ RowsDue(asset[a], now) # {}} IN
     /\ due # {}
     /\ poster' = [poster EXCEPT ![p] = Reading(due, now)]
  /\ UNCHANGED <<asset, journals, frozenUpto, now, crossed>>

\* and loads each in turn
Take(p, a) ==
  /\ a \in poster[p].todo /\ poster[p].rows = {}
  /\ poster' = [poster EXCEPT ![p] = Loaded(a, @.todo \ {a}, @.day)]
  /\ UNCHANGED <<asset, journals, frozenUpto, now, crossed>>

\* a request names the asset and the day
BeginManual(p, a, day) ==
  /\ p # Sweeper /\ Idle(p)
  /\ Exists(a)
  /\ poster' = [poster EXCEPT ![p] = Loaded(a, {}, day)]
  /\ poster' # poster
  /\ UNCHANGED <<asset, journals, frozenUpto, now, crossed>>

\* the rows are posted in their order
IsNext(p, i) == \A k \in poster[p].rows : i <= k

\* entry, flag and status in one transaction; the amount and the status are
\* those of the copy, and only columns that changed in the copy are written
PostRow(p) ==
  /\ \E i \in poster[p].rows :
       LET a == poster[p].on
           old == poster[p].copy
           new == Posted(old, i, NextEntry(a)) IN
       /\ IsNext(p, i) /\ Postable(old.rows[i].due)
       /\ Write(a, Journal("depreciate", i, old.rows[i].due, 0, old.rows[i].amount))
       /\ asset' = [asset EXCEPT ![a].rows[i].journal = NextEntry(a),
                                 ![a].status = IF new.status # old.status THEN new.status ELSE @]
       /\ poster' = [poster EXCEPT ![p] =
            IF poster[p].rows = {i} THEN Reading(poster[p].todo, poster[p].day)
            ELSE [poster[p] EXCEPT !.copy = new, !.rows = poster[p].rows \ {i}]]
       /\ Touch(a, p)
  /\ UNCHANGED <<frozenUpto, now>>

\* the row is refused; the rollback expires the asset and naming it in the
\* log raises, here and in the sweep
RefuseRow(p) ==
  /\ \E i \in poster[p].rows : IsNext(p, i) /\ ~Postable(poster[p].copy.rows[i].due)
  /\ poster' = [poster EXCEPT ![p] = Resting]
  /\ UNCHANGED <<asset, journals, frozenUpto, now, crossed>>

KillPoster(p) ==
  /\ ~Idle(p)
  /\ poster' = [poster EXCEPT ![p] = Resting]
  /\ UNCHANGED <<asset, journals, frozenUpto, now, crossed>>

----------------------------------------------------------------------------
(* Other requests *)

\* every posted row, in one transaction; the mirror does not look whether the
\* entry was mirrored before
CancelDepreciation(a) ==
  /\ Exists(a) /\ Live(asset[a])
  /\ RowsPosted(asset[a]) # {}
  /\ RoomFor(a)
  /\ LET mine == OwnEntries(asset[a]) IN
     /\ \A j \in mine : Postable(journals[a][j].date)
     /\ journals' = [journals EXCEPT ![a] = Mirrored(journals[a], mine)]
     /\ asset' = [asset EXCEPT ![a] = Reopened(@)]
  /\ Touch(a, NoPoster)
  /\ UNCHANGED <<frozenUpto, now, poster>>

Dispose(a, status) ==
  /\ Exists(a) /\ Live(asset[a])
  /\ RoomFor(a) /\ Postable(now)
  /\ Write(a, Journal("dispose", 0, now, -asset[a].gross, -Accumulated(asset[a])))
  /\ asset' = [asset EXCEPT ![a].status = status]
  /\ Touch(a, NoPoster)
  /\ UNCHANGED <<frozenUpto, now, poster>>

Revalue(a, value) ==
  /\ Exists(a) /\ Live(asset[a])
  /\ RoomFor(a) /\ Postable(now)
  /\ LET fall == BookValue(asset[a]) - value IN
     /\ fall # 0
     /\ Write(a, IF fall > 0 THEN Journal("revalue", 0, now, 0, fall)
                             ELSE Journal("revalue", 0, now, -fall, 0))
     /\ asset' = [asset EXCEPT ![a] = Rescheduled(a, Adjusted(@, fall), value)]
  /\ Touch(a, NoPoster)
  /\ UNCHANGED <<frozenUpto, now, poster>>

\* the journal entry screen does not know that an asset owns the entry
CancelJournal(a, j) ==
  /\ j \in DOMAIN journals[a]
  /\ journals[a][j].mirrored = 0
  /\ RoomFor(a)
  /\ Postable(journals[a][j].date)
  /\ journals' = [journals EXCEPT ![a][j].mirrored = 1, ![a][j].foreign = TRUE]
  /\ UNCHANGED <<asset, frozenUpto, now, poster, crossed>>

----------------------------------------------------------------------------
ANext ==
  \/ PassDay \/ FreezePeriod
  \/ \E a \in AssetIds :
       \/ CreateAsset(a) \/ SubmitAsset(a) \/ CapitalizeAsset(a) \/ CancelAsset(a)
       \/ CancelDepreciation(a)
       \/ \E status \in {"Sold", "Scrapped"} : Dispose(a, status)
       \/ \E value \in NewValues : Revalue(a, value)
       \/ \E j \in DOMAIN journals[a] : CancelJournal(a, j)
  \/ \E p \in Posters :
       \/ BeginSweep(p) \/ PostRow(p) \/ RefuseRow(p) \/ KillPoster(p)
       \/ \E a \in AssetIds : Take(p, a)
       \/ \E a \in AssetIds, day \in ScheduleDays : BeginManual(p, a, day)

ASpec == AInit /\ [][ANext]_avars

\* the sweep starts every night, and a step of it that is possible again and
\* again is not cut short for ever
AFair ==
  /\ SF_avars(BeginSweep(Sweeper))
  /\ \A a \in AssetIds : SF_avars(Take(Sweeper, a))
  /\ SF_avars(PostRow(Sweeper))
  /\ WF_avars(RefuseRow(Sweeper))
AFairSpec == ASpec /\ AFair

----------------------------------------------------------------------------
(* Properties *)

Entry == [kind : {"depreciate", "revalue", "dispose", "capitalize"}, row : Nat, date : ScheduleDays,
          cost : Int, accumulated : Int, mirrored : 0 .. 2, foreign : BOOLEAN]

\* A posted row names a depreciation entry of the asset (the link a reversal
\* follows, cancel_depreciation), and nothing is mirrored more than twice.
ATypeOK ==
  /\ frozenUpto \in 0 .. LastDay /\ now \in ScheduleDays /\ crossed \subseteq AssetIds
  /\ \A a \in AssetIds :
       /\ \A j \in DOMAIN journals[a] : journals[a][j] \in Entry
       /\ Exists(a) =>
            /\ asset[a] \in AssetRow(a)
            /\ \A i \in RowsPosted(asset[a]) :
                 /\ asset[a].rows[i].journal \in DOMAIN journals[a]
                 /\ journals[a][asset[a].rows[i].journal].kind = "depreciate"
  /\ \A p \in Posters : poster[p].todo \subseteq AssetIds

\* Nobody worked on the asset from an old copy, and no entry of it was
\* reversed outside the asset screen.
Undisturbed(a) ==
  Exists(a) /\ a \notin crossed /\ \A j \in DOMAIN journals[a] : ~journals[a][j].foreign

\* Through any order of depreciation, reversal and revaluation the book value
\* of an asset is what the ledger holds for it, cost less accumulated
\* depreciation (depreciate_due, cancel_depreciation, adjust_asset_value); a
\* disposal takes exactly both out (dispose_asset).
BookIsLedger ==
  \A a \in AssetIds : Undisturbed(a) =>
    /\ Live(asset[a]) => /\ LedgerCost(a) = asset[a].gross
                         /\ LedgerAccumulated(a) = Accumulated(asset[a])
    /\ asset[a].status \in {"Sold", "Scrapped"} => LedgerCost(a) = 0 /\ LedgerAccumulated(a) = 0

\* What is still to be depreciated never exceeds the book value, although a
\* revaluation plans the open rows anew and a reversal then opens the rows
\* planned before it (_reschedule_unposted, cancel_depreciation).
ScheduleFits ==
  \A a \in AssetIds :
    (Undisturbed(a) /\ Live(asset[a]) /\ Method[a] # "Manual") =>
      AmountOver(asset[a], RowsOpen(asset[a])) <= BookValue(asset[a])

\* Each row stands in the ledger once when it is posted and not at all when
\* it is not, across sweeps, requests, crashes, refusals and reversals: "a
\* re-run (or crash-retry) never double-books a period" (jobs/assets.py).
BookedOnce ==
  \A a \in AssetIds : Undisturbed(a) =>
    \A i \in DOMAIN asset[a].rows :
      Cardinality({j \in DOMAIN journals[a] : /\ journals[a][j].kind = "depreciate"
                                             /\ journals[a][j].row = i
                                             /\ journals[a][j].mirrored = 0})
        = (IF asset[a].rows[i].journal # 0 THEN 1 ELSE 0)

\* The sweep finds its assets by status (process_depreciation): an asset with
\* an open row is never out of its sight.
StatusTellsRows ==
  \A a \in AssetIds \ crossed :
    (Exists(a) /\ Live(asset[a])) => asset[a].status = StatusFor(asset[a])

\* A period that is due is booked in the end, as long as no due row falls into
\* a closed period, which ends every sweep that meets it.
DueOpen(a) ==
  Exists(a) /\ Live(asset[a]) /\ RowsDue(asset[a], now) # {}
Blocked == \E a \in AssetIds : DueOpen(a) /\ \E i \in RowsDue(asset[a], now) : ~Postable(asset[a].rows[i].due)
DueIsBooked ==
  []~Blocked => \A a \in AssetIds : DueOpen(a) ~> (a \in crossed \/ ~DueOpen(a))

\* An asset, its schedule, its status and the ledger agree.
AssetAddsUp == ATypeOK /\ BookIsLedger /\ ScheduleFits /\ StatusTellsRows
=============================================================================
