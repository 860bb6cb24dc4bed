------------------------------ MODULE Masters ------------------------------
(***************************************************************************)
(* What the ledger is arranged by, side by side: a tree of the masters and *)
(* the chart of accounts.  Neither reads the other.                        *)
(***************************************************************************)
EXTENDS Trees, Chart

\* The ledger is arranged as it shows: the nodes of a tree and their paths, the
\* accounts, their paths and what the statements add up along them.
MastersHold == TreesHold /\ ChartHolds
=============================================================================
