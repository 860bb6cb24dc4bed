------------------------------- MODULE Chart -------------------------------
(***************************************************************************)
(* The chart of accounts (services/accounts_masters.py) and the statements *)
(* made from it (services/financial_reports).  An account has a parent     *)
(* that never changes and a materialised path of slugs; a rename rewrites  *)
(* the path of everything below.  The trial balance, the balance sheet and *)
(* the profit and loss roll the balance of each account up its path.       *)
(*                                                                         *)
(* Nothing is locked: a rename reads the account and its parent, then all  *)
(* accounts, and writes the paths it has computed from what it read.  So a *)
(* rename is three steps and the opening of an account two, and the        *)
(* requests of two clerks overlap.                                         *)
(***************************************************************************)
EXTENDS Integers, Sequences, FiniteSets, Functions

CONSTANTS Accounts, ParentOf, \* a parent for each account, or TopLevel
          TopLevel, Closed,   \* no parent; no such account yet
          NetOf,            \* of each account that has no account below it
          Labels, LabelSlug, Keepers, Resting, MaxRenames

PostedTo == {a \in Accounts : \A b \in Accounts : ParentOf[b] # a}
ChartRow == [label : Labels, path : Seq(STRING)]
KeepRow == [account : Accounts, label : Labels, step : {"load", "write"}, from : Seq(STRING),
            paths : UNION {[some -> Seq(STRING)] : some \in SUBSET Accounts}]

ASSUME ChartConstants ==
  /\ IsFiniteSet(Accounts) /\ TopLevel \notin Accounts /\ Closed \notin ChartRow /\ Resting \notin KeepRow
  /\ ParentOf \in [Accounts -> Accounts \cup {TopLevel}] /\ NetOf \in [PostedTo -> Int]
  /\ LabelSlug \in [Labels -> STRING] /\ MaxRenames \in Nat
  /\ Cardinality({a \in Accounts : ParentOf[a] = TopLevel}) = 1

VARIABLES
  chart,    \* the committed rows: label and path, or Closed
  keepings, \* the request of each clerk
  renames,  \* renames begun, at most MaxRenames
  passed,   \* the clerks another one committed before, since they began
  mixed,    \* one of them has committed
  doubled   \* two accounts have had the same path

chartvars == <<chart, keepings, renames, passed, mixed, doubled>>

Opened == {a \in Accounts : chart[a] # Closed}
Starts(path, whole) == Len(path) <= Len(whole) /\ SubSeq(whole, 1, Len(path)) = path

\* the root comes with the company
ChartInit ==
  /\ \E rootLabel \in Labels :
       chart = [a \in Accounts |-> IF ParentOf[a] # TopLevel THEN Closed
                                  ELSE [label |-> rootLabel, path |-> <<LabelSlug[rootLabel]>>]]
  /\ keepings = [k \in Keepers |-> Resting]
  /\ renames = 0 /\ passed = {} /\ mixed = FALSE /\ doubled = FALSE

LabelFree(a, label) == \A b \in Opened \ {a} : ParentOf[b] = ParentOf[a] => chart[b].label # label
Above(a) == IF ParentOf[a] = TopLevel THEN <<>> ELSE chart[ParentOf[a]].path

\* create_account, up to its flush
BeginOpen(k, a, label) ==
  /\ keepings[k] = Resting /\ a \notin Opened /\ ParentOf[a] \in Opened /\ LabelFree(a, label)
  /\ \A other \in Keepers : keepings[other] # Resting => keepings[other].account # a
  /\ keepings' = [keepings EXCEPT ![k] =
       [account |-> a, label |-> label, step |-> "write", from |-> <<>>,
        paths |-> [b \in {a} |-> Above(a) \o <<LabelSlug[label]>>]]]
  /\ UNCHANGED <<chart, renames, passed, mixed, doubled>>

\* update_account: the account, its namesakes and its parent
BeginRename(k, a, label) ==
  /\ keepings[k] = Resting /\ a \in Opened /\ chart[a].label # label /\ LabelFree(a, label)
  /\ renames < MaxRenames /\ renames' = renames + 1
  /\ keepings' = [keepings EXCEPT ![k] =
       [account |-> a, label |-> label, step |-> "load", from |-> chart[a].path,
        paths |-> [b \in {a} |-> Above(a) \o <<LabelSlug[label]>>]]]
  /\ UNCHANGED <<chart, passed, mixed, doubled>>

\* mutant: the accounts that had the same path and no others
OnlyItself(r) == [b \in {b \in Opened : chart[b].path = r.from} |-> r.paths[r.account]]
\* _rename_account_path: the accounts to rewrite, the one renamed among them
Rewritten(r) ==
  LET to == r.paths[r.account]
  IN IF to = r.from THEN <<>>
     ELSE [b \in {b \in Opened : Starts(r.from, chart[b].path)} \cup {r.account} |->
            IF b = r.account THEN to
            ELSE to \o SubSeq(chart[b].path, Len(r.from) + 1, Len(chart[b].path))]

LoadChart(k) ==
  /\ keepings[k] # Resting /\ keepings[k].step = "load"
  /\ keepings' = [keepings EXCEPT ![k].step = "write", ![k].paths = Rewritten(keepings[k])]
  /\ UNCHANGED <<chart, renames, passed, mixed, doubled>>

Keeping == {k \in Keepers : keepings[k] # Resting}

CommitKeeping(k) ==
  LET r == keepings[k]
  IN /\ r # Resting /\ r.step = "write"
     /\ ParentOf[r.account] # TopLevel => LabelFree(r.account, r.label) \* uq_account_name
     /\ chart' = [a \in Accounts |->
          IF a # r.account /\ a \notin DOMAIN r.paths THEN chart[a]
          ELSE [label |-> IF a = r.account THEN r.label ELSE chart[a].label,
                path |-> IF a \in DOMAIN r.paths THEN r.paths[a] ELSE chart[a].path]]
     /\ keepings' = [keepings EXCEPT ![k] = Resting]
     /\ passed' = (passed \cup Keeping) \ {k}
     /\ mixed' = (mixed \/ k \in passed)
     /\ doubled' = (doubled \/ \E a, b \in Opened' : a # b /\ chart'[a].path = chart'[b].path)
     /\ UNCHANGED renames

DropKeeping(k) ==
  /\ keepings[k] # Resting
  /\ keepings' = [keepings EXCEPT ![k] = Resting] /\ passed' = passed \ {k}
  /\ UNCHANGED <<chart, renames, mixed, doubled>>

ChartNext ==
  \/ \E k \in Keepers, a \in Accounts, label \in Labels : BeginOpen(k, a, label) \/ BeginRename(k, a, label)
  \/ \E k \in Keepers : LoadChart(k) \/ CommitKeeping(k) \/ DropKeeping(k)

ChartSpec == ChartInit /\ [][ChartNext]_chartvars

----------------------------------------------------------------------------
(* Statements *)

\* by_path: an account for each path, the last one read
Readings == {f \in [{chart[a].path : a \in Opened} -> Opened] : \A p \in DOMAIN f : chart[f[p]].path = p}

Leaves == PostedTo \cap Opened
\* _rollup: what the row of an account shows
RowAmount(reading, a) ==
  SumFunctionOnSet(NetOf, {leaf \in Leaves : /\ Starts(chart[a].path, chart[leaf].path)
                                             /\ reading[chart[a].path] = a})
\* total_income, total_assets and so on: the rows that are not groups
TotalShown(reading) == SumFunctionOnSet([a \in Leaves |-> RowAmount(reading, a)], Leaves)

----------------------------------------------------------------------------
(* Properties *)

ChartTypeOK ==
  /\ \A a \in Opened : chart[a].label \in Labels /\ Len(chart[a].path) > 0
  /\ renames \in 0 .. MaxRenames /\ passed \subseteq Keepers /\ Opened \subseteq Accounts

AllBooked == SumFunctionOnSet(NetOf, Leaves)

\* The row of every group is what its accounts add up to, whatever was renamed
\* and opened, unless two requests overlapped or two labels of one group have
\* the same slug.
GroupsAddUp ==
  ~mixed /\ ~doubled =>
    \A reading \in Readings, a \in Opened \ PostedTo :
      RowAmount(reading, a) =
        SumFunctionOnSet([b \in Opened |-> RowAmount(reading, b)], {b \in Opened : ParentOf[b] = a})

\* The totals leave nothing out, with paths out of date too, as long as no
\* account has the path of a group or lies under that of another account.
TotalsAreAll ==
  (\A a \in Leaves, b \in Opened : a # b => ~Starts(chart[a].path, chart[b].path) \/ (b \in PostedTo /\ chart[a].path = chart[b].path))
    => \A reading \in Readings : TotalShown(reading) = AllBooked

ChartHolds == ChartTypeOK /\ GroupsAddUp /\ TotalsAreAll

\* "un-closed P&L surplus keeps the equation balanced" (statements.py).  Not so:
\* the plug also takes what the totals leave out, a balance whose account shares
\* its path with a group.
NothingLeftOut == \A reading \in Readings : TotalShown(reading) = AllBooked
\* The rows of the groups add up, if no two labels share a slug.  Not so with two clerks.
GroupsAddUpForTwo ==
  ~doubled => \A reading \in Readings, a \in Opened \ PostedTo :
    RowAmount(reading, a) = SumFunctionOnSet([b \in Opened |-> RowAmount(reading, b)], {b \in Opened : ParentOf[b] = a})
=============================================================================
