----------------------------- MODULE StockLedger -----------------------------
(***************************************************************************)
(* The stock ledger (services/stock_ledger.py) under concurrent requests.  *)
(*                                                                         *)
(* A request is one database transaction that submits or cancels one stock *)
(* voucher.  A submit makes one or two posting calls (a transfer posts what *)
(* leaves, then what arrives), a cancellation one.  Each call locks the    *)
(* bins it touches in the order of their keys (SELECT ... FOR UPDATE) and  *)
(* values its rows one after the other on the locked bins.  Bins, ledger   *)
(* entries, inventory postings and docstatus commit together; an error, a  *)
(* crash or a broken deadlock rolls all of it back and frees the locks.    *)
(*                                                                         *)
(* One unit of quantity, rate and value is the last digit of the columns,  *)
(* Numeric(21, 6): a stored rate is a rounded quotient, a stored value is  *)
(* exact.                                                                  *)
(***************************************************************************)
EXTENDS Integers, Sequences

CONSTANTS
  Bins,           \* (item, warehouse) pairs, numbered in the order sorted() gives them
  Vouchers,       \* stock documents: delivery notes, receipts, stock entries, ...
  Txns,           \* requests that can be in flight at once
  NoTxn,          \* the holder of a free row lock
  NoRate,         \* a rate left out: the code supplies one
  ItemRate,       \* Item.valuation_rate, the last resort for a count without rate
  Drafts,         \* the posting calls a draft voucher may stand for
  SameVoucherTwice, \* may two requests for one document be in flight at once
  AllowNegative,  \* the allow_negative_stock system setting
  Tol             \* 0.005, the value a reversal may leave behind

ASSUME BinsAssumption == Bins \subseteq Nat
ASSUME TxnAssumption == NoTxn \notin Txns
ASSUME SettingAssumption ==
  /\ AllowNegative \in BOOLEAN
  /\ SameVoucherTwice \in BOOLEAN
  /\ Tol \in Nat
  /\ ItemRate \in Nat /\ NoRate \notin Int

VARIABLES
  bin,    \* committed bins rows: quantity, value, moving-average rate
  led,    \* SUM(actual_qty), SUM(stock_value_difference) of the ledger and the
          \* balance of the inventory account, per bin
  sle,    \* the entries of each voucher that are not cancellations
  doc,    \* docstatus of each voucher
  draft,  \* the rows of each voucher
  lock,   \* holder of each bin's row lock
  txn     \* what each request has read and computed so far

vars == <<bin, led, sle, doc, draft, lock, txn>>

BinRow == [qty : Int, value : Int, rate : Int]
Totals == [qty : Int, value : Int, gl : Int]
EmptyBin == [qty |-> 0, value |-> 0, rate |-> 0]
NoTotals == [qty |-> 0, value |-> 0, gl |-> 0]

\* goods in: worth is qty * incoming_rate; carried goods also bring along what
\* the earlier call of the same voucher took out (transfer, manufacture)
InRow == [kind : {"in"}, bin : Bins, qty : Nat \ {0}, worth : Nat, carried : BOOLEAN]
OutRow == [kind : {"out"}, bin : Bins, qty : Nat \ {0}, rate : Nat \cup {NoRate}]
CountRow == [kind : {"count"}, bin : Bins, qty : Int, rate : Nat]
UnpricedRow == [kind : {"count"}, bin : Bins, qty : Int, rate : {NoRate}]
ReverseRow == [kind : {"reverse"}, bin : Bins, qty : Int, diff : Int]
Row == InRow \cup OutRow \cup CountRow \cup ReverseRow
Entry == [bin : Bins, qty : Int, diff : Int]

ASSUME DraftAssumption ==
  Drafts \subseteq Seq(Seq(InRow \cup OutRow \cup CountRow \cup UnpricedRow) \ {<<>>}) \ {<<>>}

Idle == [op |-> "idle"]

-----------------------------------------------------------------------------
(* The valuation of one row, on the locked bin b.                           *)

RoundDiv(a, n) == IF a >= 0 THEN (2 * a + n) \div (2 * n) ELSE -((n - 2 * a) \div (2 * n))

\* blend into the moving average, or restart it at zero or negative stock
Incoming(b, q, worth) ==
  LET n == b.qty + q
      v == IF b.qty <= 0 THEN RoundDiv(n * worth, q) ELSE b.value + worth
  IN  [qty   |-> n,
       value |-> IF n > 0 THEN v ELSE 0,
       rate  |-> IF b.qty <= 0 THEN RoundDiv(worth, q) ELSE RoundDiv(v, n)]

\* a given outgoing rate counts only while it leaves stock and value behind
HonoursRate(b, r) ==
  /\ r.rate # NoRate
  /\ b.qty - r.qty > 0
  /\ b.value - r.qty * r.rate >= 0

\* what stays when q units leave at the average: nothing after the last one
DustStays(b, q) == b.value - q * b.rate \* mutant: the rounding dust stays
ValueLeft(b, q) == IF q = b.qty THEN 0 ELSE b.value - q * b.rate

Outgoing(b, r) ==
  LET n == b.qty - r.qty
  IN  IF HonoursRate(b, r)
      THEN LET v == b.value - r.qty * r.rate
           IN  [qty |-> n, value |-> v, rate |-> RoundDiv(v, n)]
      ELSE [qty   |-> n,
            value |-> ValueLeft(b, r.qty),
            rate  |-> IF n = 0 THEN 0 ELSE b.rate]

\* a count overrides quantity and rate, or leaves an unchanged bin alone
Count(b, r) ==
  IF r.qty = b.qty /\ r.qty * r.rate = b.value
  THEN b
  ELSE [qty |-> r.qty, value |-> r.qty * r.rate, rate |-> r.rate]

\* a mirror entry takes the original's quantity and value back out
Reverse(b, r) ==
  LET n == b.qty - r.qty
      v == b.value - r.diff
  IN  [qty   |-> n,
       value |-> IF n = 0 THEN 0 ELSE v,
       rate  |-> IF n > 0 THEN RoundDiv(v, n) ELSE IF n < 0 THEN b.rate ELSE 0]

\* pool: the value the voucher has taken out so far
Apply(b, r, pool) ==
  IF r.kind = "in"         THEN Incoming(b, r.qty, r.worth + (IF r.carried THEN pool ELSE 0))
  ELSE IF r.kind = "out"   THEN Outgoing(b, r)
  ELSE IF r.kind = "count" THEN Count(b, r)
  ELSE Reverse(b, r)

OneTooMany(n) == n >= -1 \* mutant: off by one
EnoughStock(n) == n >= 0 \/ AllowNegative

AnyResidue(n, v) == v >= -Tol \* mutant: value may stay behind in an emptied bin
CleanReversal(n, v) == v >= -Tol /\ (n = 0 => v <= Tol)

\* the stock checks that raise ValidationError
Accepts(b, r) ==
  /\ r.kind = "in"      => EnoughStock(b.qty + r.qty)
  /\ r.kind = "out"     => EnoughStock(b.qty - r.qty)
  /\ r.kind = "count"   => EnoughStock(r.qty)
  /\ r.kind = "reverse" => /\ EnoughStock(b.qty - r.qty)
                           /\ CleanReversal(b.qty - r.qty, b.value - r.diff)

-----------------------------------------------------------------------------
(* Requests.                                                                *)

Busy(t) == txn[t].op # "idle"
Posting(t) == Busy(t) /\ txn[t].call \in DOMAIN txn[t].calls
Need(t) == {txn[t].calls[txn[t].call][i].bin : i \in DOMAIN txn[t].calls[txn[t].call]}
Held(t) == {b \in Bins : lock[b] = t}

\* mutant: locks are taken in the order of the rows
WantsAny(t, b) ==
  /\ Posting(t)
  /\ b \in Need(t) \ Held(t)

\* the next lock a request asks for: the least bin its call needs and it lacks
Wants(t, b) ==
  /\ Posting(t)
  /\ b \in Need(t) \ Held(t)
  /\ \A c \in Need(t) \ Held(t) : b <= c

\* mutant: only the first entry is mirrored
FirstOriginal(v) ==
  << [kind |-> "reverse", bin |-> sle[v][1].bin, qty |-> sle[v][1].qty, diff |-> sle[v][1].diff] >>

\* the mirror rows of a voucher that is cancelled
Originals(v) ==
  [i \in DOMAIN sle[v] |->
     [kind |-> "reverse", bin |-> sle[v][i].bin, qty |-> sle[v][i].qty, diff |-> sle[v][i].diff]]

\* a count without a rate keeps the current one: get_bin reads it without a lock
Unpriced(r) == r.kind = "count" /\ r.rate = NoRate
CurrentRate(b) == IF bin[b].rate > 0 THEN bin[b].rate ELSE ItemRate
Priced(r) == IF Unpriced(r) THEN [r EXCEPT !.rate = CurrentRate(r.bin)] ELSE r
PricedCalls(v) ==
  [k \in DOMAIN draft[v] |-> [i \in DOMAIN draft[v][k] |-> Priced(draft[v][k][i])]]

\* the handler's variable keeps the last bin it read alive in the session, where
\* the locking read that follows does not refresh it (no populate_existing)
LastPeeked(rows) ==
  LET peeks == {i \in DOMAIN rows : Unpriced(rows[i])}
  IN  {rows[i].bin : i \in {j \in peeks : \A k \in peeks : k <= j}}

Start(v, op, calls, peeked) ==
  [op |-> op, v |-> v, calls |-> calls, call |-> 1, row |-> 1, pool |-> 0,
   loaded |-> peeked, cache |-> bin, pend |-> [b \in Bins |-> NoTotals], new |-> <<>>]

Admitted(t, v) ==
  /\ txn[t] = Idle
  /\ SameVoucherTwice \/ \A u \in Txns : Busy(u) => txn[u].v # v

BeginSubmit(t, v) ==
  /\ Admitted(t, v)
  /\ doc[v] = "draft"
  /\ txn' = [txn EXCEPT ![t] = Start(v, "submit", PricedCalls(v), LastPeeked(draft[v][1]))]
  /\ UNCHANGED <<bin, led, sle, doc, draft, lock>>

BeginCancel(t, v) ==
  /\ Admitted(t, v)
  /\ doc[v] = "submitted"
  /\ txn' = [txn EXCEPT ![t] = Start(v, "cancel", IF sle[v] = <<>> THEN <<>> ELSE <<Originals(v)>>, {})]
  /\ UNCHANGED <<bin, led, sle, doc, draft, lock>>

NoLocking(b) == TRUE \* mutant: a plain SELECT
Free(b) == lock[b] = NoTxn

\* get_bin_for_update: wait for the row lock, then read the committed bin
LockBin(t) ==
  \E b \in Bins :
    /\ Wants(t, b)
    /\ Free(b)
    /\ lock' = [lock EXCEPT ![b] = t]
    /\ txn' = [txn EXCEPT ![t].loaded = @ \cup {b},
                          ![t].cache[b] = IF b \in txn[t].loaded THEN @ ELSE bin[b]]
    /\ UNCHANGED <<bin, led, sle, doc, draft>>

MoreRows(t) ==
  /\ Posting(t)
  /\ Need(t) \subseteq Held(t)
  /\ txn[t].row \in DOMAIN txn[t].calls[txn[t].call]
CurrentRow(t) == txn[t].calls[txn[t].call][txn[t].row]

\* what request q has done after its row r: the ledger entry, the new bin, and the
\* amount booked on the inventory account (a cancellation mirrors the original)
Posted(q, r) ==
  LET old  == q.cache[r.bin]
      upd  == Apply(old, r, q.pool)
      qty  == upd.qty - old.qty
      diff == upd.value - old.value
      book == IF r.kind = "reverse" THEN -r.diff ELSE diff
      sum  == q.pend[r.bin]
      last == q.row = Len(q.calls[q.call])
  IN  [op |-> q.op, v |-> q.v, calls |-> q.calls,
       call |-> IF last THEN q.call + 1 ELSE q.call,
       row  |-> IF last THEN 1 ELSE q.row + 1,
       pool |-> IF r.kind = "out" THEN q.pool - diff ELSE q.pool,
       loaded |-> q.loaded,
       cache |-> [q.cache EXCEPT ![r.bin] = upd],
       pend |-> [q.pend EXCEPT ![r.bin] =
                   [qty |-> sum.qty + qty, value |-> sum.value + diff, gl |-> sum.gl + book]],
       new |-> IF r.kind = "reverse" \/ (qty = 0 /\ diff = 0) THEN q.new
               ELSE Append(q.new, [bin |-> r.bin, qty |-> qty, diff |-> diff])]

\* one iteration of a posting loop
PostRow(t) ==
  /\ MoreRows(t)
  /\ Accepts(txn[t].cache[CurrentRow(t).bin], CurrentRow(t))
  /\ txn' = [txn EXCEPT ![t] = Posted(txn[t], CurrentRow(t))]
  /\ UNCHANGED <<bin, led, sle, doc, draft, lock>>

Released(t) == [b \in Bins |-> IF lock[b] = t THEN NoTxn ELSE lock[b]]

RollBack(t) ==
  /\ lock' = Released(t)
  /\ txn' = [txn EXCEPT ![t] = Idle]
  /\ UNCHANGED <<bin, led, sle, doc, draft>>

\* ValidationError in the loop
Reject(t) ==
  /\ MoreRows(t)
  /\ ~Accepts(txn[t].cache[CurrentRow(t).bin], CurrentRow(t))
  /\ RollBack(t)

OpAsStatus(op) == op \* mutant
StatusAfter(op) == IF op = "submit" THEN "submitted" ELSE "cancelled"

Commit(t) ==
  /\ Busy(t)
  /\ ~Posting(t)
  /\ bin' = [b \in Bins |-> IF lock[b] = t THEN txn[t].cache[b] ELSE bin[b]]
  /\ led' = [b \in Bins |-> [qty   |-> led[b].qty + txn[t].pend[b].qty,
                             value |-> led[b].value + txn[t].pend[b].value,
                             gl    |-> led[b].gl + txn[t].pend[b].gl]]
  /\ sle' = [sle EXCEPT ![txn[t].v] = @ \o txn[t].new]
  /\ doc' = [doc EXCEPT ![txn[t].v] = StatusAfter(txn[t].op)]
  /\ lock' = Released(t)
  /\ txn' = [txn EXCEPT ![t] = Idle]
  /\ UNCHANGED draft

\* every member of T waits for a lock that a member of T holds
Deadlocked(T) == \A t \in T : \E b \in Bins : Wants(t, b) /\ lock[b] \in T

NeverBroken(t) == FALSE \* mutant: no deadlock detector
InDeadlock(t) == \E T \in SUBSET Txns : t \in T /\ Deadlocked(T)

\* the database ends a deadlock by failing one of the requests in it
DeadlockVictim(t) == InDeadlock(t) /\ RollBack(t)

\* the process dies or the connection is lost
Crash(t) == Busy(t) /\ RollBack(t)

-----------------------------------------------------------------------------
Init ==
  /\ bin = [b \in Bins |-> EmptyBin]
  /\ led = [b \in Bins |-> NoTotals]
  /\ sle = [v \in Vouchers |-> <<>>]
  /\ doc = [v \in Vouchers |-> "draft"]
  /\ draft \in [Vouchers -> Drafts]
  /\ lock = [b \in Bins |-> NoTxn]
  /\ txn = [t \in Txns |-> Idle]

Work(t) == LockBin(t) \/ PostRow(t) \/ Reject(t) \/ Commit(t) \/ DeadlockVictim(t)

Next ==
  \E t \in Txns :
    \/ \E v \in Vouchers : BeginSubmit(t, v) \/ BeginCancel(t, v)
    \/ Work(t)
    \/ Crash(t)

Spec == Init /\ [][Next]_vars

\* a request that can take its next step takes it: the event loop serves every
\* open request, and the database queues the waiters of a row lock
FairSpec ==
  /\ Spec
  /\ \A t \in Txns : WF_vars(Work(t)) /\ SF_vars(LockBin(t))

-----------------------------------------------------------------------------
(* Properties.                                                              *)

OpenRequest ==
  [op : {"submit", "cancel"}, v : Vouchers, calls : Seq(Seq(Row)), call : Nat, row : Nat,
   pool : Int, loaded : SUBSET Bins, cache : [Bins -> BinRow], pend : [Bins -> Totals],
   new : Seq(Entry)]

TypeOK ==
  /\ bin \in [Bins -> BinRow]
  /\ led \in [Bins -> Totals]
  /\ sle \in [Vouchers -> Seq(Entry)]
  /\ doc \in [Vouchers -> {"draft", "submitted", "cancelled"}]
  /\ draft \in [Vouchers -> Drafts]
  /\ lock \in [Bins -> Txns \cup {NoTxn}]
  /\ txn \in [Txns -> {Idle} \cup OpenRequest]

\* Every bin carries exactly the sums of its ledger entries, however submits,
\* cancellations and crashes of concurrent requests interleave: no posting is
\* computed from a bin that another request has changed in the meantime
\* (stock_common.py:get_bin_for_update "serialises concurrent valuation").
LedgerMatchesBin ==
  \A b \in Bins : bin[b].qty = led[b].qty /\ bin[b].value = led[b].value

\* Negative stock is blocked unless the company allows it
\* (stock_ledger.py, make_sl_entries and make_reverse_sl_entries).
NoNegativeStock == AllowNegative \/ \A b \in Bins : bin[b].qty >= 0

\* An empty bin is worth nothing, whichever way it was emptied: consumption,
\* a count of zero, a cancellation, or stock that came back from below zero.
EmptyBinHasNoValue == \A b \in Bins : bin[b].qty = 0 => bin[b].value = 0

\* Within its first posting call a request only ever waits for a bin above all
\* the bins it holds, so requests of one call cannot wait in a circle: the
\* canonical lock order of make_sl_entries.
OrderedLocks ==
  \A t \in Txns : \A b, c \in Bins :
    Wants(t, b) /\ lock[c] = t /\ txn[t].call = 1 => c < b

\* No set of requests waits in a circle, so no posting is lost to the database's
\* deadlock detection (stock_ledger.py:76 "cannot deadlock on opposite lock orders").
NoDeadlock == \A T \in (SUBSET Txns) \ {{}} : ~Deadlocked(T)

\* Inventory account and stock value drift apart only when a cancellation passes
\* through an empty bin, and by no more than the tolerance for each entry it reverses; a submit
\* books exactly what it moved.
Gap(b) == led[b].gl - led[b].value
InventoryFollowsStock ==
  [][\A b \in Bins :
       Gap(b)' # Gap(b) =>
         \E v \in Vouchers :
           /\ doc[v] # "draft" /\ doc'[v] = "cancelled"
           /\ Gap(b)' - Gap(b) \in -(Tol * Len(sle[v])) .. Tol * Len(sle[v])]_vars

\* Once no submitted voucher is left, the stock is back where it started.
CancelledStockIsGone ==
  (\A v \in Vouchers : doc[v] # "submitted") =>
     \A b \in Bins : bin[b].qty = 0 /\ bin[b].value = 0

\* Every request that starts is answered.
EveryRequestEnds == \A t \in Txns : Busy(t) ~> ~Busy(t)
=============================================================================
