-------------------------- MODULE StockLedger_proofs --------------------------
(***************************************************************************)
(* Proofs about StockLedger, for any bins, vouchers, requests and drafts,  *)
(* and about Serials, the numbers that the same vouchers carry.            *)
(***************************************************************************)
EXTENDS StockLedger, Serials, SumLemmas, SequenceTheorems, FiniteSetTheorems, TLAPS

-----------------------------------------------------------------------------
(* The valuation of a row.                                                  *)

\* A rounded quotient by a positive number is an integer.
LEMMA RoundDivInt ==
  ASSUME NEW a \in Int, NEW n \in Int, n > 0
  PROVE  RoundDiv(a, n) \in Int
<1>1. (2 * a + n) \div (2 * n) \in Int
  OBVIOUS
<1>2. (n - 2 * a) \div (2 * n) \in Int
  OBVIOUS
<1> QED BY <1>1, <1>2 DEF RoundDiv

\* Every way of valuing a row turns a bin into a bin.
LEMMA ApplyType ==
  ASSUME NEW b \in BinRow, NEW r \in Row, NEW pool \in Int
  PROVE  Apply(b, r, pool) \in BinRow
<1>0. b.qty \in Int /\ b.value \in Int /\ b.rate \in Int
  BY DEF BinRow
<1>1. CASE r \in InRow
  <2> DEFINE w == r.worth + (IF r.carried THEN pool ELSE 0)
  <2>1. r.qty \in Int /\ r.qty > 0 /\ w \in Int /\ r.kind = "in"
    BY <1>1 DEF InRow
  <2> HIDE DEF w
  <2>2. /\ (b.qty + r.qty) * w \in Int /\ b.value + w \in Int /\ b.qty + r.qty \in Int
        /\ b.qty > 0 => b.qty + r.qty > 0
    BY <2>1, <1>0
  <2>3. /\ RoundDiv(w, r.qty) \in Int
        /\ RoundDiv((b.qty + r.qty) * w, r.qty) \in Int
        /\ b.qty > 0 => RoundDiv(b.value + w, b.qty + r.qty) \in Int
    BY <2>1, <2>2, RoundDivInt
  <2>4. Incoming(b, r.qty, w) \in BinRow
    BY <2>1, <2>2, <2>3, <1>0 DEF Incoming, BinRow
  <2> QED BY <2>1, <2>4 DEF Apply, w
<1>2. CASE r \in OutRow
  <2>1. r.qty \in Int /\ r.qty > 0 /\ r.kind = "out" /\ (r.rate # NoRate => r.rate \in Int)
    BY <1>2 DEF OutRow
  <2>2. HonoursRate(b, r) => b.value - r.qty * r.rate \in Int /\ b.qty - r.qty \in Int /\ b.qty - r.qty > 0
    BY <2>1, <1>0 DEF HonoursRate
  <2>3. HonoursRate(b, r) => RoundDiv(b.value - r.qty * r.rate, b.qty - r.qty) \in Int
    BY <2>2, RoundDivInt
  <2>4. ValueLeft(b, r.qty) \in Int
    BY <2>1, <1>0 DEF ValueLeft
  <2>5. Outgoing(b, r) \in BinRow
    BY <2>1, <2>2, <2>3, <2>4, <1>0 DEF Outgoing, BinRow
  <2> QED BY <2>1, <2>5 DEF Apply
<1>3. CASE r \in CountRow
  BY <1>3, <1>0 DEF CountRow, Apply, Count, BinRow
<1>4. CASE r \in ReverseRow
  <2>1. r.qty \in Int /\ r.diff \in Int /\ r.kind = "reverse"
    BY <1>4 DEF ReverseRow
  <2>2. b.qty - r.qty > 0 => RoundDiv(b.value - r.diff, b.qty - r.qty) \in Int
    BY <2>1, <1>0, RoundDivInt
  <2>3. Reverse(b, r) \in BinRow
    BY <2>1, <2>2, <1>0 DEF Reverse, BinRow
  <2> QED BY <2>1, <2>3 DEF Apply
<1> QED BY <1>1, <1>2, <1>3, <1>4 DEF Row

\* A row that passes the checks leaves no negative quantity behind.
LEMMA ApplyKeepsStock ==
  ASSUME NEW b \in BinRow, NEW r \in Row, NEW pool \in Int,
         ~AllowNegative, b.qty >= 0, Accepts(b, r)
  PROVE  Apply(b, r, pool).qty >= 0
<1>1. CASE r \in InRow
  BY <1>1 DEF InRow, BinRow, Accepts, EnoughStock, Apply, Incoming
<1>2. CASE r \in OutRow
  BY <1>2 DEF OutRow, BinRow, Accepts, EnoughStock, Apply, Outgoing
<1>3. CASE r \in CountRow
  BY <1>3 DEF CountRow, BinRow, Accepts, EnoughStock, Apply, Count
<1>4. CASE r \in ReverseRow
  BY <1>4 DEF ReverseRow, BinRow, Accepts, EnoughStock, Apply, Reverse
<1> QED BY <1>1, <1>2, <1>3, <1>4 DEF Row

\* A row never leaves value in a bin it empties, nor in one that was empty.
LEMMA ApplyEmptiesValue ==
  ASSUME NEW b \in BinRow, NEW r \in Row, NEW pool \in Int,
         b.qty = 0 => b.value = 0
  PROVE  Apply(b, r, pool).qty = 0 => Apply(b, r, pool).value = 0
<1>1. CASE r \in InRow
  BY <1>1 DEF InRow, BinRow, Apply, Incoming
<1>2. CASE r \in OutRow
  BY <1>2 DEF OutRow, BinRow, Apply, Outgoing, HonoursRate, ValueLeft
<1>3. CASE r \in CountRow
  BY <1>3 DEF CountRow, BinRow, Apply, Count
<1>4. CASE r \in ReverseRow
  BY <1>4 DEF ReverseRow, BinRow, Apply, Reverse
<1> QED BY <1>1, <1>2, <1>3, <1>4 DEF Row

-----------------------------------------------------------------------------
(* Type correctness.                                                        *)

\* a function on the domain of a sequence is a sequence
LEMMA SameLength ==
  ASSUME NEW S, NEW T, NEW s \in Seq(S), NEW f \in [DOMAIN s -> T]
  PROVE  f \in Seq(T)
<1>1. Len(s) \in Nat /\ DOMAIN s = 1 .. Len(s)
  BY LenProperties
<1> QED BY <1>1, SeqDef

LEMMA BusyIsOpen ==
  ASSUME TypeOK, NEW t \in Txns, Busy(t)
  PROVE  txn[t] \in OpenRequest
BY DEF TypeOK, Busy, Idle

\* the row a request is about to post, and the bin it posts it on
LEMMA CurrentRowType ==
  ASSUME TypeOK, NEW t \in Txns, MoreRows(t)
  PROVE  /\ txn[t] \in OpenRequest
         /\ CurrentRow(t) \in Row
         /\ CurrentRow(t).bin \in Bins
         /\ CurrentRow(t).bin \in Held(t)
         /\ txn[t].cache[CurrentRow(t).bin] \in BinRow
<1>1. txn[t] \in OpenRequest
  BY BusyIsOpen DEF MoreRows, Posting
<1>2. txn[t].calls \in Seq(Seq(Row)) /\ txn[t].call \in DOMAIN txn[t].calls
  BY <1>1 DEF OpenRequest, MoreRows, Posting
<1>3. txn[t].calls[txn[t].call] \in Seq(Row)
  BY <1>2
<1>4. CurrentRow(t) \in Row
  BY <1>3 DEF MoreRows, CurrentRow
<1>5. CurrentRow(t).bin \in Bins
  BY <1>4 DEF Row, InRow, OutRow, CountRow, ReverseRow
<1>6. CurrentRow(t).bin \in Need(t)
  BY DEF MoreRows, Need, CurrentRow
<1> QED BY <1>1, <1>4, <1>5, <1>6 DEF OpenRequest, MoreRows

\* pricing turns the rows of a draft into rows that can be posted
LEMMA PricedType ==
  ASSUME TypeOK, NEW v \in Vouchers
  PROVE  PricedCalls(v) \in Seq(Seq(Row))
<1>1. draft[v] \in Seq(Seq(InRow \cup OutRow \cup CountRow \cup UnpricedRow))
  BY DraftAssumption DEF TypeOK
<1>2. ASSUME NEW r \in InRow \cup OutRow \cup CountRow \cup UnpricedRow
      PROVE  Priced(r) \in Row
  <2>1. CASE r \in InRow
    BY <2>1 DEF Priced, Unpriced, Row, InRow
  <2>2. CASE r \in OutRow
    BY <2>2 DEF Priced, Unpriced, Row, OutRow
  <2>3. CASE r \in CountRow
    BY <2>3, SettingAssumption DEF Priced, Unpriced, Row, CountRow
  <2>4. CASE r \in UnpricedRow
    <3>1. r.bin \in Bins /\ bin[r.bin].rate \in Int
      BY <2>4 DEF UnpricedRow, TypeOK, BinRow
    <3>2. CurrentRate(r.bin) \in Nat
      BY <3>1, SettingAssumption DEF CurrentRate
    <3>3. Priced(r) \in CountRow
      BY <2>4, <3>2 DEF Priced, Unpriced, CountRow, UnpricedRow
    <3> QED BY <3>3 DEF Row
  <2> QED BY <1>2, <2>1, <2>2, <2>3, <2>4
<1>3. ASSUME NEW k \in DOMAIN draft[v]
      PROVE  [i \in DOMAIN draft[v][k] |-> Priced(draft[v][k][i])] \in Seq(Row)
  <2>1. draft[v][k] \in Seq(InRow \cup OutRow \cup CountRow \cup UnpricedRow)
    BY <1>1, <1>3
  <2>2. \A i \in DOMAIN draft[v][k] : Priced(draft[v][k][i]) \in Row
    BY <2>1, <1>2, LenProperties
  <2> QED BY <2>1, <2>2, SameLength
<1>4. PricedCalls(v) \in [DOMAIN draft[v] -> Seq(Row)]
  BY <1>3 DEF PricedCalls
<1> QED BY <1>1, <1>4, SameLength

LEMMA OriginalsType ==
  ASSUME TypeOK, NEW v \in Vouchers
  PROVE  Originals(v) \in Seq(Row)
<1>1. sle[v] \in Seq(Entry)
  BY DEF TypeOK
<1>2. \A i \in DOMAIN sle[v] : sle[v][i] \in Entry
  BY <1>1, LenProperties
<1>3. Originals(v) \in [DOMAIN sle[v] -> Row]
  BY <1>2 DEF Originals, Entry, Row, ReverseRow
<1> QED BY <1>1, <1>3, SameLength

LEMMA StartType ==
  ASSUME TypeOK, NEW v \in Vouchers, NEW op \in {"submit", "cancel"},
         NEW calls \in Seq(Seq(Row)), NEW peeked \in SUBSET Bins
  PROVE  Start(v, op, calls, peeked) \in OpenRequest
BY DEF Start, OpenRequest, TypeOK, NoTotals, Totals

LEMMA PeekedType ==
  ASSUME TypeOK, NEW v \in Vouchers
  PROVE  LastPeeked(draft[v][1]) \in SUBSET Bins
<1>1. draft[v][1] \in Seq(InRow \cup OutRow \cup CountRow \cup UnpricedRow)
  BY DraftAssumption DEF TypeOK
<1>2. \A i \in DOMAIN draft[v][1] : draft[v][1][i].bin \in Bins
  BY <1>1 DEF InRow, OutRow, CountRow, UnpricedRow
<1> QED BY <1>2 DEF LastPeeked

LEMMA PostedType ==
  ASSUME NEW q \in OpenRequest, NEW r \in Row, r.bin \in Bins
  PROVE  Posted(q, r) \in OpenRequest
<1> DEFINE old == q.cache[r.bin]
           upd == Apply(old, r, q.pool)
<1>1. old \in BinRow /\ q.pend[r.bin] \in Totals
  BY DEF OpenRequest
<1>2. upd \in BinRow
  BY <1>1, ApplyType DEF OpenRequest
<1>3. r.kind = "reverse" => r.diff \in Int
  BY DEF Row, InRow, OutRow, CountRow, ReverseRow
<1>4. /\ upd.qty - old.qty \in Int /\ upd.value - old.value \in Int
      /\ (IF r.kind = "reverse" THEN -r.diff ELSE upd.value - old.value) \in Int
  BY <1>1, <1>2, <1>3 DEF BinRow
<1>5. Posted(q, r).cache \in [Bins -> BinRow]
  BY <1>2 DEF Posted, OpenRequest
<1>6. Posted(q, r).pend \in [Bins -> Totals]
  <2> HIDE DEF upd, old
  <2>1. [qty   |-> q.pend[r.bin].qty + (upd.qty - old.qty),
         value |-> q.pend[r.bin].value + (upd.value - old.value),
         gl    |-> q.pend[r.bin].gl + (IF r.kind = "reverse" THEN -r.diff ELSE upd.value - old.value)]
          \in Totals
    BY <1>1, <1>4 DEF Totals
  <2> QED BY <2>1 DEF Posted, OpenRequest, upd, old
<1>7. Posted(q, r).new \in Seq(Entry)
  <2>1. [bin |-> r.bin, qty |-> upd.qty - old.qty, diff |-> upd.value - old.value] \in Entry
    BY <1>4 DEF Entry
  <2>2. q.new \in Seq(Entry)
    BY DEF OpenRequest
  <2> QED BY <2>1, <2>2 DEF Posted
<1>8. Posted(q, r).pool \in Int
  BY <1>4 DEF Posted, OpenRequest
<1>9. Posted(q, r).call \in Nat /\ Posted(q, r).row \in Nat
  BY DEF Posted, OpenRequest
<1> QED
  BY <1>5, <1>6, <1>7, <1>8, <1>9 DEF Posted, OpenRequest

LEMMA TypeInvariant == TypeOK /\ [Next]_vars => TypeOK'
<1> SUFFICES ASSUME TypeOK, [Next]_vars
             PROVE  TypeOK'
  OBVIOUS
<1>1. ASSUME NEW t \in Txns, NEW v \in Vouchers, BeginSubmit(t, v)
      PROVE  TypeOK'
  <2>1. Start(v, "submit", PricedCalls(v), LastPeeked(draft[v][1])) \in OpenRequest
    BY PricedType, PeekedType, StartType
  <2> QED BY <1>1, <2>1 DEF BeginSubmit, TypeOK
<1>2. ASSUME NEW t \in Txns, NEW v \in Vouchers, BeginCancel(t, v)
      PROVE  TypeOK'
  <2>1. (IF sle[v] = <<>> THEN <<>> ELSE <<Originals(v)>>) \in Seq(Seq(Row))
    BY OriginalsType
  <2>2. Start(v, "cancel", IF sle[v] = <<>> THEN <<>> ELSE <<Originals(v)>>, {}) \in OpenRequest
    BY <2>1, StartType
  <2> QED BY <1>2, <2>2 DEF BeginCancel, TypeOK
<1>3. ASSUME NEW t \in Txns, LockBin(t)
      PROVE  TypeOK'
  <2>1. txn[t] \in OpenRequest
    BY <1>3, BusyIsOpen DEF LockBin, Wants, Posting
  <2>2. PICK b \in Bins :
          /\ lock' = [lock EXCEPT ![b] = t]
          /\ txn' = [txn EXCEPT ![t].loaded = @ \cup {b},
                                ![t].cache[b] = IF b \in txn[t].loaded THEN @ ELSE bin[b]]
    BY <1>3 DEF LockBin
  <2>3. txn'[t] \in OpenRequest
    BY <2>1, <2>2 DEF OpenRequest, TypeOK
  <2> QED BY <1>3, <2>2, <2>3 DEF LockBin, TypeOK
<1>4. ASSUME NEW t \in Txns, PostRow(t)
      PROVE  TypeOK'
  <2>1. /\ txn[t] \in OpenRequest /\ CurrentRow(t) \in Row /\ CurrentRow(t).bin \in Bins
        /\ txn[t].cache[CurrentRow(t).bin] \in BinRow
    BY <1>4, CurrentRowType DEF PostRow
  <2>2. Posted(txn[t], CurrentRow(t)) \in OpenRequest
    BY <2>1, PostedType
  <2> QED BY <1>4, <2>2 DEF PostRow, TypeOK
<1>5. ASSUME NEW t \in Txns, RollBack(t)
      PROVE  TypeOK'
  BY <1>5 DEF RollBack, Released, TypeOK
<1>6. ASSUME NEW t \in Txns, Commit(t)
      PROVE  TypeOK'
  <2>1. txn[t] \in OpenRequest
    BY <1>6, BusyIsOpen DEF Commit
  <2>2. sle' \in [Vouchers -> Seq(Entry)]
    BY <1>6, <2>1 DEF Commit, TypeOK, OpenRequest
  <2>3. led' \in [Bins -> Totals]
    BY <1>6, <2>1 DEF Commit, TypeOK, OpenRequest, Totals
  <2>4. bin' \in [Bins -> BinRow] /\ lock' \in [Bins -> Txns \cup {NoTxn}]
    BY <1>6, <2>1 DEF Commit, TypeOK, OpenRequest, Released
  <2>5. doc' \in [Vouchers -> {"draft", "submitted", "cancelled"}]
    BY <1>6, <2>1 DEF Commit, TypeOK, OpenRequest, StatusAfter
  <2> QED BY <1>6, <2>2, <2>3, <2>4, <2>5 DEF Commit, TypeOK
<1>7. CASE UNCHANGED vars
  BY <1>7 DEF vars, TypeOK
<1> QED
  BY <1>1, <1>2, <1>3, <1>4, <1>5, <1>6, <1>7
     DEF Next, Work, Reject, DeadlockVictim, Crash

LEMMA TypeInit == Init => TypeOK
BY DEF Init, TypeOK, EmptyBin, NoTotals, BinRow, Totals, Idle

\* Every variable keeps its type, whatever the requests do.
THEOREM TypeCorrect == Spec => []TypeOK
BY TypeInit, TypeInvariant, PTL DEF Spec

-----------------------------------------------------------------------------
(* Stock is never negative and an empty bin is worth nothing.  Both are about *)
(* one bin at a time, so they also hold of the private copies of the bins,    *)
(* stale or not, and a commit only ever publishes such a copy.                *)

SoundBin(b) ==
  /\ ~AllowNegative => b.qty >= 0
  /\ b.qty = 0 => b.value = 0

SoundBins ==
  /\ \A b \in Bins : SoundBin(bin[b])
  /\ \A t \in Txns : Busy(t) => \A b \in Bins : SoundBin(txn[t].cache[b])

LEMMA SoundPosting ==
  ASSUME NEW b \in BinRow, NEW r \in Row, NEW pool \in Int, SoundBin(b), Accepts(b, r)
  PROVE  SoundBin(Apply(b, r, pool))
BY ApplyKeepsStock, ApplyEmptiesValue DEF SoundBin

LEMMA SoundStep == TypeOK /\ SoundBins /\ [Next]_vars => SoundBins'
<1> SUFFICES ASSUME TypeOK, SoundBins, [Next]_vars
             PROVE  SoundBins'
  OBVIOUS
<1> USE DEF SoundBins
<1>0. \A t \in Txns : txn[t] \in {Idle} \cup OpenRequest
  BY DEF TypeOK
<1>1. ASSUME NEW t \in Txns, NEW v \in Vouchers, BeginSubmit(t, v)
      PROVE  SoundBins'
  BY <1>1 DEF BeginSubmit, TypeOK, Busy, Start
<1>2. ASSUME NEW t \in Txns, NEW v \in Vouchers, BeginCancel(t, v)
      PROVE  SoundBins'
  BY <1>2 DEF BeginCancel, TypeOK, Busy, Start
<1>3. ASSUME NEW t \in Txns, LockBin(t)
      PROVE  SoundBins'
  <2>1. txn[t] \in OpenRequest /\ Busy(t)
    BY <1>3, BusyIsOpen DEF LockBin, Wants, Posting
  <2>2. PICK b \in Bins :
          txn' = [txn EXCEPT ![t].loaded = @ \cup {b},
                             ![t].cache[b] = IF b \in txn[t].loaded THEN @ ELSE bin[b]]
    BY <1>3 DEF LockBin
  <2>3. txn'[t].cache = [txn[t].cache EXCEPT ![b] = IF b \in txn[t].loaded THEN @ ELSE bin[b]]
    BY <2>1, <2>2 DEF OpenRequest, TypeOK
  <2>4. \A c \in Bins : SoundBin(txn'[t].cache[c])
    BY <2>1, <2>3 DEF OpenRequest
  <2>5. \A u \in Txns : u # t => txn'[u] = txn[u]
    BY <2>2 DEF TypeOK
  <2> QED BY <1>3, <2>1, <2>4, <2>5 DEF LockBin, Busy
<1>4. ASSUME NEW t \in Txns, PostRow(t)
      PROVE  SoundBins'
  <2> DEFINE r == CurrentRow(t)
  <2>1. /\ txn[t] \in OpenRequest /\ r \in Row /\ r.bin \in Bins
        /\ txn[t].cache[r.bin] \in BinRow
    BY <1>4, CurrentRowType DEF PostRow
  <2>2. Busy(t) /\ Accepts(txn[t].cache[r.bin], r)
    BY <1>4 DEF PostRow, MoreRows, Posting
  <2>3. SoundBin(Apply(txn[t].cache[r.bin], r, txn[t].pool))
    BY <2>1, <2>2, SoundPosting DEF OpenRequest
  <2>4. /\ txn'[t].cache = [txn[t].cache EXCEPT ![r.bin] = Apply(txn[t].cache[r.bin], r, txn[t].pool)]
        /\ \A u \in Txns : u # t => txn'[u] = txn[u]
        /\ bin' = bin
    BY <1>4 DEF PostRow, Posted, TypeOK
  <2>5. \A c \in Bins : SoundBin(txn'[t].cache[c])
    <3> HIDE DEF r
    <3> QED BY <2>1, <2>2, <2>3, <2>4 DEF OpenRequest
  <2> QED BY <2>4, <2>5 DEF Busy
<1>5. ASSUME NEW t \in Txns, RollBack(t)
      PROVE  SoundBins'
  BY <1>5 DEF RollBack, TypeOK, Busy, Idle
<1>6. ASSUME NEW t \in Txns, Commit(t)
      PROVE  SoundBins'
  BY <1>6 DEF Commit, TypeOK, Busy, Idle
<1>7. CASE UNCHANGED vars
  BY <1>7 DEF vars, Busy
<1> QED
  BY <1>1, <1>2, <1>3, <1>4, <1>5, <1>6, <1>7
     DEF Next, Work, Reject, DeadlockVictim, Crash

LEMMA SoundInit == Init => SoundBins
BY DEF Init, SoundBins, SoundBin, EmptyBin, Busy, Idle

LEMMA SoundAlways == Spec => []SoundBins
BY SoundInit, SoundStep, TypeCorrect, PTL DEF Spec

\* Stock never goes below zero unless the company allows it.
THEOREM StockNeverNegative == Spec => []NoNegativeStock
<1>1. SoundBins => NoNegativeStock
  BY DEF SoundBins, SoundBin, NoNegativeStock
<1> QED BY <1>1, SoundAlways, PTL

\* A bin without stock carries no value.
THEOREM EmptyBinsAreWorthless == Spec => []EmptyBinHasNoValue
<1>1. SoundBins => EmptyBinHasNoValue
  BY DEF SoundBins, SoundBin, EmptyBinHasNoValue
<1> QED BY <1>1, SoundAlways, PTL

-----------------------------------------------------------------------------
(* The bins are the sums of their ledger entries, provided that no count    *)
(* leaves its rate to the unlocked read.                                    *)

AllPriced == \A d \in Drafts : \A i \in DOMAIN d[1] : ~Unpriced(d[1][i])

\* a private copy is read under its lock and differs from the committed bin by
\* what the request itself has posted
CopiesAreFresh ==
  /\ \A b \in Bins : bin[b].qty = led[b].qty /\ bin[b].value = led[b].value
  /\ \A b \in Bins : lock[b] # NoTxn => Busy(lock[b]) /\ b \in txn[lock[b]].loaded
  /\ \A t \in Txns : Busy(t) => \A b \in Bins :
       /\ b \in txn[t].loaded =>
            /\ lock[b] = t
            /\ txn[t].cache[b].qty = bin[b].qty + txn[t].pend[b].qty
            /\ txn[t].cache[b].value = bin[b].value + txn[t].pend[b].value
       /\ b \notin txn[t].loaded => txn[t].pend[b] = NoTotals

LEMMA NothingPeeked ==
  ASSUME AllPriced, TypeOK, NEW v \in Vouchers
  PROVE  LastPeeked(draft[v][1]) = {}
<1>1. draft[v] \in Drafts
  BY DEF TypeOK
<1> QED BY <1>1 DEF AllPriced, LastPeeked

LEMMA FreshBegin ==
  ASSUME TypeOK, CopiesAreFresh, NEW t \in Txns, txn[t] = Idle,
         NEW v, NEW op \in {"submit", "cancel"}, NEW calls,
         txn' = [txn EXCEPT ![t] = Start(v, op, calls, {})],
         UNCHANGED <<bin, led, lock>>
  PROVE  CopiesAreFresh'
<1>1. /\ txn'[t].op = op /\ txn'[t].loaded = {}
      /\ txn'[t].pend = [b \in Bins |-> NoTotals]
      /\ \A u \in Txns : u # t => txn'[u] = txn[u]
  BY DEF Start, TypeOK
<1>2. \A b \in Bins : lock[b] # t
  BY TxnAssumption DEF CopiesAreFresh, Busy, Idle
<1> QED BY <1>1, <1>2 DEF CopiesAreFresh, Busy, TypeOK

\* what a row of a posting loop changes of its request
LEMMA PostedFields ==
  ASSUME NEW q \in OpenRequest, NEW r, r.bin \in Bins,
         NEW upd, upd = Apply(q.cache[r.bin], r, q.pool)
  PROVE  /\ Posted(q, r).op = q.op /\ Posted(q, r).v = q.v /\ Posted(q, r).calls = q.calls
         /\ Posted(q, r).loaded = q.loaded
         /\ Posted(q, r).cache = [q.cache EXCEPT ![r.bin] = upd]
         /\ \A c \in Bins : c # r.bin => Posted(q, r).pend[c] = q.pend[c]
         /\ Posted(q, r).pend[r.bin].qty = q.pend[r.bin].qty + (upd.qty - q.cache[r.bin].qty)
         /\ Posted(q, r).pend[r.bin].value = q.pend[r.bin].value + (upd.value - q.cache[r.bin].value)
<1>1. /\ Posted(q, r).op = q.op /\ Posted(q, r).v = q.v /\ Posted(q, r).calls = q.calls
      /\ Posted(q, r).loaded = q.loaded
      /\ Posted(q, r).cache = [q.cache EXCEPT ![r.bin] = upd]
  BY DEF Posted
<1>2. PICK g : Posted(q, r).pend =
        [q.pend EXCEPT ![r.bin] =
           [qty |-> q.pend[r.bin].qty + (upd.qty - q.cache[r.bin].qty),
            value |-> q.pend[r.bin].value + (upd.value - q.cache[r.bin].value), gl |-> g]]
  BY DEF Posted
<1>3. q.pend \in [Bins -> Totals]
  BY DEF OpenRequest
<1>4. /\ \A c \in Bins : c # r.bin => Posted(q, r).pend[c] = q.pend[c]
      /\ Posted(q, r).pend[r.bin].qty = q.pend[r.bin].qty + (upd.qty - q.cache[r.bin].qty)
      /\ Posted(q, r).pend[r.bin].value = q.pend[r.bin].value + (upd.value - q.cache[r.bin].value)
  BY <1>2, <1>3
<1> QED BY <1>1, <1>4

LEMMA FreshStep ==
  ASSUME AllPriced, TypeOK, CopiesAreFresh, [Next]_vars
  PROVE  CopiesAreFresh'
<1>1. ASSUME NEW t \in Txns, NEW v \in Vouchers, BeginSubmit(t, v)
      PROVE  CopiesAreFresh'
  BY <1>1, NothingPeeked, FreshBegin DEF BeginSubmit, Admitted
<1>2. ASSUME NEW t \in Txns, NEW v \in Vouchers, BeginCancel(t, v)
      PROVE  CopiesAreFresh'
  BY <1>2, FreshBegin DEF BeginCancel, Admitted
<1>3. ASSUME NEW t \in Txns, LockBin(t)
      PROVE  CopiesAreFresh'
  <2>1. txn[t] \in OpenRequest /\ Busy(t)
    BY <1>3, BusyIsOpen DEF LockBin, Wants, Posting
  <2>2. PICK b \in Bins :
          /\ lock[b] = NoTxn
          /\ lock' = [lock EXCEPT ![b] = t]
          /\ txn' = [txn EXCEPT ![t].loaded = @ \cup {b},
                                ![t].cache[b] = IF b \in txn[t].loaded THEN @ ELSE bin[b]]
    BY <1>3 DEF LockBin, Free
  <2>3. b \notin txn[t].loaded /\ txn[t].pend[b] = NoTotals
    BY <2>1, <2>2, TxnAssumption DEF CopiesAreFresh
  <2>4. /\ txn'[t].cache = [txn[t].cache EXCEPT ![b] = bin[b]]
        /\ txn'[t].loaded = txn[t].loaded \cup {b}
        /\ txn'[t].pend = txn[t].pend /\ txn'[t].op = txn[t].op
        /\ \A u \in Txns : u # t => txn'[u] = txn[u]
    BY <2>1, <2>2, <2>3 DEF OpenRequest, TypeOK
  <2>5. /\ txn'[t].cache[b].qty = bin[b].qty + txn'[t].pend[b].qty
        /\ txn'[t].cache[b].value = bin[b].value + txn'[t].pend[b].value
    BY <2>1, <2>3, <2>4 DEF OpenRequest, TypeOK, BinRow, NoTotals
  <2>6. bin' = bin /\ led' = led
    BY <1>3 DEF LockBin
  <2>7. \A c \in Bins : lock'[c] = IF c = b THEN t ELSE lock[c]
    BY <2>2 DEF TypeOK
  <2>8. \A c \in Bins : c # b => txn'[t].cache[c] = txn[t].cache[c]
    BY <2>1, <2>4 DEF OpenRequest
  <2>9. \A c \in Bins : c \in txn'[t].loaded =>
          /\ lock'[c] = t
          /\ txn'[t].cache[c].qty = bin'[c].qty + txn'[t].pend[c].qty
          /\ txn'[t].cache[c].value = bin'[c].value + txn'[t].pend[c].value
    BY <2>1, <2>4, <2>5, <2>6, <2>7, <2>8 DEF CopiesAreFresh
  <2>10. ASSUME NEW u \in Txns, u # t, Busy(u)', NEW c \in Bins
         PROVE  /\ c \in txn'[u].loaded =>
                     /\ lock'[c] = u
                     /\ txn'[u].cache[c].qty = bin'[c].qty + txn'[u].pend[c].qty
                     /\ txn'[u].cache[c].value = bin'[c].value + txn'[u].pend[c].value
                /\ c \notin txn'[u].loaded => txn'[u].pend[c] = NoTotals
    <3>1. Busy(u) /\ txn'[u] = txn[u]
      BY <2>4, <2>10 DEF Busy
    <3>2. c \in txn[u].loaded => lock[c] = u /\ c # b
      BY <3>1, <2>2, TxnAssumption DEF CopiesAreFresh
    <3> QED BY <3>1, <3>2, <2>6, <2>7 DEF CopiesAreFresh
  <2>11. \A c \in Bins : lock'[c] # NoTxn => txn'[lock'[c]].op # "idle" /\ c \in txn'[lock'[c]].loaded
    BY <2>1, <2>4, <2>7 DEF CopiesAreFresh, Busy, TypeOK
  <2>12. \A c \in Bins : c \notin txn'[t].loaded => txn'[t].pend[c] = NoTotals
    BY <2>1, <2>4 DEF CopiesAreFresh
  <2>13. \A u \in Txns : Busy(u)' => \A c \in Bins :
           /\ c \in txn'[u].loaded =>
                /\ lock'[c] = u
                /\ txn'[u].cache[c].qty = bin'[c].qty + txn'[u].pend[c].qty
                /\ txn'[u].cache[c].value = bin'[c].value + txn'[u].pend[c].value
           /\ c \notin txn'[u].loaded => txn'[u].pend[c] = NoTotals
    BY <2>9, <2>10, <2>12
  <2> QED BY <2>6, <2>11, <2>13 DEF CopiesAreFresh, Busy
<1>4. ASSUME NEW t \in Txns, PostRow(t)
      PROVE  CopiesAreFresh'
  <2> DEFINE r == CurrentRow(t)
             old == txn[t].cache[r.bin]
             upd == Apply(old, r, txn[t].pool)
             q == txn[t]
  <2>1. q \in OpenRequest /\ r \in Row /\ r.bin \in Bins /\ old \in BinRow /\ Busy(t)
    BY <1>4, CurrentRowType DEF PostRow, MoreRows, Posting
  <2>2. lock[r.bin] = t
    BY <1>4, CurrentRowType DEF PostRow, Held
  <2>3. r.bin \in q.loaded
    BY <2>1, <2>2, TxnAssumption DEF CopiesAreFresh
  <2>4. /\ txn'[t] = Posted(q, r)
        /\ \A u \in Txns : u # t => txn'[u] = txn[u]
        /\ bin' = bin /\ led' = led /\ lock' = lock
    BY <1>4 DEF PostRow, TypeOK
  <2>5. upd \in BinRow
    BY <2>1, ApplyType DEF OpenRequest
  <2>6. /\ txn'[t].loaded = q.loaded /\ txn'[t].op = q.op
        /\ txn'[t].cache = [q.cache EXCEPT ![r.bin] = upd]
        /\ \A c \in Bins : c # r.bin => txn'[t].pend[c] = q.pend[c]
        /\ txn'[t].pend[r.bin].qty = q.pend[r.bin].qty + (upd.qty - old.qty)
        /\ txn'[t].pend[r.bin].value = q.pend[r.bin].value + (upd.value - old.value)
    <3>1. upd = Apply(q.cache[r.bin], r, q.pool)
      OBVIOUS
    <3> HIDE DEF r, upd
    <3>2. /\ Posted(q, r).op = q.op /\ Posted(q, r).loaded = q.loaded
          /\ Posted(q, r).cache = [q.cache EXCEPT ![r.bin] = upd]
          /\ \A c \in Bins : c # r.bin => Posted(q, r).pend[c] = q.pend[c]
          /\ Posted(q, r).pend[r.bin].qty = q.pend[r.bin].qty + (upd.qty - q.cache[r.bin].qty)
          /\ Posted(q, r).pend[r.bin].value = q.pend[r.bin].value + (upd.value - q.cache[r.bin].value)
      BY <2>1, <3>1, PostedFields
    <3> QED BY <2>4, <3>2
  <2>7. /\ q.pend[r.bin].qty \in Int /\ q.pend[r.bin].value \in Int
        /\ bin[r.bin].qty \in Int /\ bin[r.bin].value \in Int
    BY <2>1 DEF OpenRequest, Totals, TypeOK, BinRow
  <2>8. /\ old.qty = bin[r.bin].qty + q.pend[r.bin].qty
        /\ old.value = bin[r.bin].value + q.pend[r.bin].value
    BY <2>1, <2>3 DEF CopiesAreFresh
  <2> HIDE DEF r, upd, q
  <2>9. /\ txn'[t].cache[r.bin].qty = bin[r.bin].qty + txn'[t].pend[r.bin].qty
        /\ txn'[t].cache[r.bin].value = bin[r.bin].value + txn'[t].pend[r.bin].value
    <3>1. txn'[t].cache[r.bin] = upd
      BY <2>1, <2>6 DEF OpenRequest
    <3>2. /\ old.qty \in Int /\ old.value \in Int
          /\ upd.qty \in Int /\ upd.value \in Int
      BY <2>1, <2>5 DEF BinRow
    <3> HIDE DEF old
    <3> QED BY <2>6, <2>7, <2>8, <3>1, <3>2
  <2>10. \A c \in Bins : c # r.bin => txn'[t].cache[c] = q.cache[c]
    BY <2>1, <2>6 DEF OpenRequest
  <2>11. \A c \in Bins :
           /\ c \in txn'[t].loaded =>
                /\ lock'[c] = t
                /\ txn'[t].cache[c].qty = bin'[c].qty + txn'[t].pend[c].qty
                /\ txn'[t].cache[c].value = bin'[c].value + txn'[t].pend[c].value
           /\ c \notin txn'[t].loaded => txn'[t].pend[c] = NoTotals
    <3> SUFFICES ASSUME NEW c \in Bins
                 PROVE  /\ c \in txn'[t].loaded =>
                             /\ lock'[c] = t
                             /\ txn'[t].cache[c].qty = bin'[c].qty + txn'[t].pend[c].qty
                             /\ txn'[t].cache[c].value = bin'[c].value + txn'[t].pend[c].value
                        /\ c \notin txn'[t].loaded => txn'[t].pend[c] = NoTotals
      OBVIOUS
    <3>1. /\ c \in q.loaded =>
               /\ lock[c] = t
               /\ q.cache[c].qty = bin[c].qty + q.pend[c].qty
               /\ q.cache[c].value = bin[c].value + q.pend[c].value
          /\ c \notin q.loaded => q.pend[c] = NoTotals
      BY <2>1 DEF CopiesAreFresh, q
    <3>2. CASE c = r.bin
      BY <2>3, <2>4, <2>6, <2>9, <3>1, <3>2
    <3>3. CASE c # r.bin
      BY <2>4, <2>6, <2>10, <3>1, <3>3
    <3> QED BY <3>2, <3>3
  <2>12. \A u \in Txns : (Busy(u)' <=> Busy(u)) /\ txn'[u].loaded = txn[u].loaded
    BY <2>4, <2>6 DEF Busy, q
  <2>13. \A c \in Bins : lock'[c] # NoTxn =>
           txn'[lock'[c]].op # "idle" /\ c \in txn'[lock'[c]].loaded
    BY <2>4, <2>12 DEF CopiesAreFresh, Busy, TypeOK
  <2>14. ASSUME NEW u \in Txns, u # t, Busy(u)', NEW c \in Bins
         PROVE  /\ c \in txn'[u].loaded =>
                     /\ lock'[c] = u
                     /\ txn'[u].cache[c].qty = bin'[c].qty + txn'[u].pend[c].qty
                     /\ txn'[u].cache[c].value = bin'[c].value + txn'[u].pend[c].value
                /\ c \notin txn'[u].loaded => txn'[u].pend[c] = NoTotals
    BY <2>4, <2>12, <2>14 DEF CopiesAreFresh
  <2>15. \A c \in Bins : bin'[c].qty = led'[c].qty /\ bin'[c].value = led'[c].value
    BY <2>4 DEF CopiesAreFresh
  <2> QED BY <2>11, <2>13, <2>14, <2>15 DEF CopiesAreFresh, Busy
<1>5. ASSUME NEW t \in Txns, RollBack(t)
      PROVE  CopiesAreFresh'
  BY <1>5, TxnAssumption DEF RollBack, Released, CopiesAreFresh, Busy, Idle, TypeOK
<1>6. ASSUME NEW t \in Txns, Commit(t)
      PROVE  CopiesAreFresh'
  <2>1. txn[t] \in OpenRequest /\ Busy(t)
    BY <1>6, BusyIsOpen DEF Commit
  <2>2. /\ bin' = [b \in Bins |-> IF lock[b] = t THEN txn[t].cache[b] ELSE bin[b]]
        /\ lock' = [b \in Bins |-> IF lock[b] = t THEN NoTxn ELSE lock[b]]
        /\ txn'[t] = Idle
        /\ \A u \in Txns : u # t => txn'[u] = txn[u]
    BY <1>6 DEF Commit, Released, TypeOK
  <2>3. \A b \in Bins : /\ led'[b].qty = led[b].qty + txn[t].pend[b].qty
                        /\ led'[b].value = led[b].value + txn[t].pend[b].value
    BY <1>6 DEF Commit
  <2>4. ASSUME NEW b \in Bins
        PROVE  bin'[b].qty = led'[b].qty /\ bin'[b].value = led'[b].value
    <3>1. /\ bin[b].qty = led[b].qty /\ bin[b].value = led[b].value
          /\ led[b].qty \in Int /\ led[b].value \in Int
      BY DEF CopiesAreFresh, TypeOK, Totals
    <3>2. CASE lock[b] = t
      <4>1. b \in txn[t].loaded
        BY <3>2, TxnAssumption DEF CopiesAreFresh
      <4>2. /\ txn[t].cache[b].qty = bin[b].qty + txn[t].pend[b].qty
            /\ txn[t].cache[b].value = bin[b].value + txn[t].pend[b].value
        BY <2>1, <4>1 DEF CopiesAreFresh
      <4> QED BY <3>1, <3>2, <4>2, <2>2, <2>3
    <3>3. CASE lock[b] # t
      <4>1. b \notin txn[t].loaded
        BY <2>1, <3>3 DEF CopiesAreFresh
      <4>2. txn[t].pend[b].qty = 0 /\ txn[t].pend[b].value = 0
        BY <2>1, <4>1 DEF CopiesAreFresh, NoTotals
      <4> QED BY <3>1, <3>3, <4>2, <2>2, <2>3
    <3> QED BY <3>2, <3>3
  <2>5. \A b \in Bins : lock'[b] # NoTxn => lock[b] # t /\ lock'[b] = lock[b] /\ bin'[b] = bin[b]
    BY <2>2
  <2>6. \A b \in Bins : lock'[b] # NoTxn => txn'[lock'[b]].op # "idle" /\ b \in txn'[lock'[b]].loaded
    BY <2>2, <2>5 DEF CopiesAreFresh, Busy, TypeOK
  <2>7. ASSUME NEW u \in Txns, Busy(u)', NEW b \in Bins
        PROVE  /\ b \in txn'[u].loaded =>
                    /\ lock'[b] = u
                    /\ txn'[u].cache[b].qty = bin'[b].qty + txn'[u].pend[b].qty
                    /\ txn'[u].cache[b].value = bin'[b].value + txn'[u].pend[b].value
               /\ b \notin txn'[u].loaded => txn'[u].pend[b] = NoTotals
    <3>1. u # t /\ Busy(u) /\ txn'[u] = txn[u]
      BY <2>2, <2>7 DEF Busy, Idle
    <3>2. b \in txn[u].loaded => lock[b] = u /\ lock'[b] = u /\ bin'[b] = bin[b]
      BY <2>2, <3>1 DEF CopiesAreFresh
    <3> QED BY <3>1, <3>2 DEF CopiesAreFresh
  <2> QED BY <2>4, <2>6, <2>7 DEF CopiesAreFresh, Busy
<1>7. CASE UNCHANGED vars
  BY <1>7 DEF vars, CopiesAreFresh, Busy
<1> QED
  BY <1>1, <1>2, <1>3, <1>4, <1>5, <1>6, <1>7
     DEF Next, Work, Reject, DeadlockVictim, Crash

LEMMA FreshInit == Init => CopiesAreFresh
BY DEF Init, CopiesAreFresh, EmptyBin, NoTotals, Busy, Idle

\* If every count states its rate, each bin is the sum of its ledger entries.
THEOREM LedgerIsBin ==
  ASSUME AllPriced
  PROVE  Spec => []LedgerMatchesBin
<1>1. TypeOK /\ CopiesAreFresh /\ [Next]_vars => CopiesAreFresh'
  BY FreshStep
<1>2. CopiesAreFresh => LedgerMatchesBin
  BY DEF CopiesAreFresh, LedgerMatchesBin
<1> QED BY <1>1, <1>2, FreshInit, TypeCorrect, PTL DEF Spec

-----------------------------------------------------------------------------
(* Locks are asked for in ascending order.                                  *)

\* whoever holds a lock is at work, and within its first posting call every bin
\* a request holds lies below every bin it still needs
LocksAscend ==
  /\ \A b \in Bins : lock[b] # NoTxn => Busy(lock[b])
  /\ \A t \in Txns : Posting(t) /\ txn[t].call = 1 =>
       \A b \in Need(t) \ Held(t) : \A c \in Held(t) : c < b

\* what a step of one request has to show
LEMMA AscendFrame ==
  ASSUME TypeOK, LocksAscend, NEW t \in Txns,
         \A u \in Txns : u # t => txn'[u] = txn[u] /\ Held(u)' = Held(u),
         \A b \in Bins : lock'[b] \in {lock[b], t, NoTxn},
         \A b \in Bins : lock'[b] = t => Busy(t)',
         Posting(t)' /\ txn'[t].call = 1 =>
           \A b \in Need(t)' \ Held(t)' : \A c \in Held(t)' : c < b
  PROVE  LocksAscend'
<1>1. ASSUME NEW b \in Bins, lock'[b] # NoTxn
      PROVE  txn'[lock'[b]].op # "idle"
  <2>1. CASE lock'[b] = t
    BY <2>1 DEF Busy
  <2>2. CASE lock'[b] # t
    <3>1. lock'[b] = lock[b] /\ lock[b] \in Txns
      BY <1>1, <2>2 DEF TypeOK
    <3> QED BY <1>1, <2>2, <3>1 DEF LocksAscend, Busy
  <2> QED BY <2>1, <2>2
<1>2. ASSUME NEW u \in Txns, u # t, Posting(u)', txn'[u].call = 1
      PROVE  \A b \in Need(u)' \ Held(u)' : \A c \in Held(u)' : c < b
  <2>1. txn'[u] = txn[u] /\ Held(u)' = Held(u)
    BY <1>2
  <2>2. Need(u)' = Need(u) /\ Posting(u) /\ txn[u].call = 1
    BY <1>2, <2>1 DEF Need, Posting, Busy
  <2> QED BY <2>1, <2>2 DEF LocksAscend
<1> QED BY <1>1, <1>2 DEF LocksAscend, Busy

LEMMA AscendStep == TypeOK /\ LocksAscend /\ [Next]_vars => LocksAscend'
<1> SUFFICES ASSUME TypeOK, LocksAscend, [Next]_vars
             PROVE  LocksAscend'
  OBVIOUS
<1>0. NoTxn \notin Txns
  BY TxnAssumption
<1>1. ASSUME NEW t \in Txns, NEW v \in Vouchers, BeginSubmit(t, v) \/ BeginCancel(t, v)
      PROVE  LocksAscend'
  <2>1. /\ txn[t] = Idle /\ lock' = lock
        /\ \A u \in Txns : u # t => txn'[u] = txn[u]
    BY <1>1 DEF BeginSubmit, BeginCancel, Admitted, TypeOK
  <2>2. \A b \in Bins : lock[b] # t
    BY <1>0, <2>1 DEF LocksAscend, Busy, Idle
  <2> QED BY <2>1, <2>2, AscendFrame DEF Held
<1>2. ASSUME NEW t \in Txns, LockBin(t)
      PROVE  LocksAscend'
  <2>1. txn[t] \in OpenRequest /\ Busy(t)
    BY <1>2, BusyIsOpen DEF LockBin, Wants, Posting
  <2>2. PICK b \in Bins :
          /\ Wants(t, b) /\ lock[b] = NoTxn
          /\ lock' = [lock EXCEPT ![b] = t]
          /\ txn' = [txn EXCEPT ![t].loaded = @ \cup {b},
                                ![t].cache[b] = IF b \in txn[t].loaded THEN @ ELSE bin[b]]
    BY <1>2 DEF LockBin, Free
  <2>3. /\ txn'[t].calls = txn[t].calls /\ txn'[t].call = txn[t].call /\ txn'[t].op = txn[t].op
        /\ \A u \in Txns : u # t => txn'[u] = txn[u]
    BY <2>1, <2>2 DEF OpenRequest, TypeOK
  <2>4. /\ Held(t)' = Held(t) \cup {b}
        /\ \A u \in Txns : u # t => Held(u)' = Held(u)
    BY <1>0, <2>2 DEF TypeOK, Held
  <2>5. Need(t)' = Need(t) /\ (Posting(t)' <=> Posting(t)) /\ Busy(t)'
    BY <2>1, <2>3 DEF Need, Posting, Busy
  <2>6. ASSUME Posting(t)', txn'[t].call = 1, NEW c \in Need(t)' \ Held(t)', NEW d \in Held(t)'
        PROVE  d < c
    <3>1. c \in Need(t) \ Held(t) /\ c # b
      BY <2>4, <2>5, <2>6
    <3>2. c \in Bins
      <4>1. txn[t].calls \in Seq(Seq(Row)) /\ txn[t].call \in DOMAIN txn[t].calls
        BY <2>1, <2>2 DEF OpenRequest, Wants, Posting
      <4>2. txn[t].calls[txn[t].call] \in Seq(Row)
        BY <4>1
      <4>3. \A i \in DOMAIN txn[t].calls[txn[t].call] : txn[t].calls[txn[t].call][i] \in Row
        BY <4>2, LenProperties
      <4> QED BY <3>1, <4>3 DEF Need, Row, InRow, OutRow, CountRow, ReverseRow
    <3>3. b <= c /\ b \in Nat /\ c \in Nat
      BY <2>2, <3>1, <3>2, BinsAssumption DEF Wants
    <3>4. CASE d = b
      BY <3>1, <3>3, <3>4
    <3>5. CASE d # b
      BY <2>3, <2>4, <2>5, <2>6, <3>1, <3>5 DEF LocksAscend
    <3> QED BY <3>4, <3>5
  <2> QED BY <2>2, <2>3, <2>4, <2>5, <2>6, AscendFrame DEF TypeOK
<1>3. ASSUME NEW t \in Txns, PostRow(t)
      PROVE  LocksAscend'
  <2>1. txn[t] \in OpenRequest /\ txn[t].call \in DOMAIN txn[t].calls /\ Posting(t)
    BY <1>3, BusyIsOpen DEF PostRow, MoreRows, Posting
  <2>2. txn[t].call \in Nat /\ txn[t].call >= 1
    BY <2>1, LenProperties DEF OpenRequest
  <2>3. /\ txn'[t].calls = txn[t].calls /\ txn'[t].op = txn[t].op
        /\ txn'[t].call \in {txn[t].call, txn[t].call + 1}
        /\ \A u \in Txns : u # t => txn'[u] = txn[u]
        /\ lock' = lock
    BY <1>3 DEF PostRow, Posted, TypeOK
  <2>4. \A u \in Txns : Held(u)' = Held(u)
    BY <2>3 DEF Held
  <2>5. txn'[t].call = 1 => txn[t].call = 1 /\ Need(t)' = Need(t)
    BY <2>2, <2>3 DEF Need
  <2>6. Busy(t)'
    BY <2>1, <2>3 DEF Posting, Busy
  <2>7. txn'[t].call = 1 => \A b \in Need(t)' \ Held(t)' : \A c \in Held(t)' : c < b
    BY <2>1, <2>4, <2>5 DEF LocksAscend
  <2> QED BY <2>3, <2>4, <2>6, <2>7, AscendFrame
<1>4. ASSUME NEW t \in Txns, txn' = [txn EXCEPT ![t] = Idle], lock' = Released(t)
      PROVE  LocksAscend'
  <2>1. txn'[t] = Idle /\ \A u \in Txns : u # t => txn'[u] = txn[u]
    BY <1>4 DEF TypeOK
  <2>2. \A u \in Txns : u # t => Held(u)' = Held(u)
    BY <1>0, <1>4 DEF Released, Held
  <2>3. \A b \in Bins : lock'[b] \in {lock[b], NoTxn} /\ lock'[b] # t
    BY <1>0, <1>4 DEF Released
  <2>4. ~Posting(t)'
    BY <2>1 DEF Posting, Busy, Idle
  <2> QED BY <2>1, <2>2, <2>3, <2>4, AscendFrame
<1>5. ASSUME NEW t \in Txns, RollBack(t) \/ Commit(t)
      PROVE  LocksAscend'
  BY <1>4, <1>5 DEF RollBack, Commit
<1>6. CASE UNCHANGED vars
  BY <1>6 DEF vars, LocksAscend, Posting, Need, Held, Busy
<1> QED
  BY <1>1, <1>2, <1>3, <1>5, <1>6 DEF Next, Work, Reject, DeadlockVictim, Crash

LEMMA AscendInit == Init => LocksAscend
BY DEF Init, LocksAscend, Posting, Busy, Idle

\* Requests in their first posting call never wait for each other in a circle.
THEOREM LocksInOrder == Spec => []OrderedLocks
<1>1. TypeOK /\ LocksAscend => OrderedLocks
  BY DEF LocksAscend, OrderedLocks, Wants, Held
<1> QED BY <1>1, AscendInit, AscendStep, TypeCorrect, PTL DEF Spec

-----------------------------------------------------------------------------
(* The inventory account follows the stock value.                           *)

\* how many entries of its voucher a cancellation has mirrored
Mirrored(q) == IF q.calls = <<>> THEN 0 ELSE IF q.call = 1 THEN q.row - 1 ELSE Len(q.calls[1])

\* a submit books what it moves; a cancellation is off by the tolerance for each
\* entry it has mirrored, and mirrors no more entries than the voucher has
Followed(q) ==
  /\ q.op = "submit" =>
       /\ \A k \in DOMAIN q.calls : \A i \in DOMAIN q.calls[k] : q.calls[k][i].kind # "reverse"
       /\ \A b \in Bins : q.pend[b].gl = q.pend[b].value
  /\ q.op = "cancel" =>
       /\ doc[q.v] # "draft"
       /\ q.calls # <<>> => Len(q.calls) = 1 /\ Len(q.calls[1]) <= Len(sle[q.v])
       /\ Mirrored(q) \in Nat
       /\ \A b \in Bins : q.pend[b].gl - q.pend[b].value \in -(Tol * Mirrored(q)) .. Tol * Mirrored(q)

AccountsFollow == \A t \in Txns : Busy(t) => Followed(txn[t])

\* one row: what it books is what it moves, or almost so if it is a reversal
LEMMA RowFollows ==
  ASSUME NEW b \in BinRow, NEW r \in Row, NEW pool \in Int, Accepts(b, r)
  PROVE  LET diff == Apply(b, r, pool).value - b.value
         IN  r.kind = "reverse" => -r.diff - diff \in -Tol .. Tol
<1> SUFFICES ASSUME r.kind = "reverse"
             PROVE  -r.diff - (Apply(b, r, pool).value - b.value) \in -Tol .. Tol
  OBVIOUS
<1>1. r \in ReverseRow
  BY DEF Row, InRow, OutRow, CountRow
<1>2. r.qty \in Int /\ r.diff \in Int /\ b.qty \in Int /\ b.value \in Int
  BY <1>1 DEF ReverseRow, BinRow
<1>3. Apply(b, r, pool).value = IF b.qty - r.qty = 0 THEN 0 ELSE b.value - r.diff
  BY DEF Apply, Reverse
<1>4. CleanReversal(b.qty - r.qty, b.value - r.diff)
  BY DEF Accepts
<1> QED BY <1>2, <1>3, <1>4, SettingAssumption DEF CleanReversal

LEMMA Widen ==
  ASSUME NEW n \in Nat, NEW m \in Nat, NEW g \in Int, n <= m, g \in -(Tol * n) .. Tol * n
  PROVE  g \in -(Tol * m) .. Tol * m
<1>1. Tol * m = Tol * n + Tol * (m - n)
  BY SettingAssumption
<1>2. Tol * (m - n) >= 0 /\ Tol * n \in Int /\ Tol * (m - n) \in Int
  BY SettingAssumption
<1> QED BY <1>1, <1>2

LEMMA WidenByOne ==
  ASSUME NEW n \in Nat, NEW g \in Int, NEW d \in -Tol .. Tol, g \in -(Tol * n) .. Tol * n
  PROVE  g + d \in -(Tol * (n + 1)) .. Tol * (n + 1)
<1>1. Tol * (n + 1) = Tol * n + Tol /\ Tol * n \in Int
  BY SettingAssumption
<1> QED BY <1>1, SettingAssumption

\* requests only see documents go forward and entries added
LEMMA FollowedKeeps ==
  ASSUME TypeOK, NEW t \in Txns, Busy(t), Followed(txn[t]), txn'[t] = txn[t],
         \A v \in Vouchers : doc[v] # "draft" => doc'[v] # "draft",
         \A v \in Vouchers : Len(sle[v]) <= Len(sle'[v]) /\ Len(sle'[v]) \in Nat
  PROVE  Followed(txn[t])'
<1>1. txn[t] \in OpenRequest
  BY BusyIsOpen
<1>2. txn[t].v \in Vouchers
  BY <1>1 DEF OpenRequest
<1>3. Len(sle[txn[t].v]) \in Nat
  BY <1>2, LenProperties DEF TypeOK
<1>4. txn[t].calls # <<>> => Len(txn[t].calls[1]) \in Nat
  BY <1>1, LenProperties DEF OpenRequest
<1> QED BY <1>2, <1>3, <1>4 DEF Followed, Mirrored

LEMMA FollowStep == TypeOK /\ AccountsFollow /\ [Next]_vars => AccountsFollow'
<1> SUFFICES ASSUME TypeOK, AccountsFollow, [Next]_vars
             PROVE  AccountsFollow'
  OBVIOUS
<1>0. \A v \in Vouchers : sle[v] \in Seq(Entry) /\ Len(sle[v]) \in Nat
  BY LenProperties DEF TypeOK
<1>1. ASSUME NEW t \in Txns,
             \A u \in Txns : u # t => txn'[u] = txn[u],
             \A v \in Vouchers : doc[v] # "draft" => doc'[v] # "draft",
             \A v \in Vouchers : Len(sle[v]) <= Len(sle'[v]) /\ Len(sle'[v]) \in Nat,
             Busy(t)' => Followed(txn[t])'
      PROVE  AccountsFollow'
  BY <1>1, FollowedKeeps DEF AccountsFollow, Busy
<1>2. ASSUME NEW t \in Txns, NEW v \in Vouchers, BeginSubmit(t, v)
      PROVE  AccountsFollow'
  <2>1. txn'[t] = Start(v, "submit", PricedCalls(v), LastPeeked(draft[v][1]))
    BY <1>2 DEF BeginSubmit, TypeOK
  <2>2. ASSUME NEW k \in DOMAIN PricedCalls(v), NEW i \in DOMAIN PricedCalls(v)[k]
        PROVE  PricedCalls(v)[k][i].kind # "reverse"
    <3>1. draft[v] \in Seq(Seq(InRow \cup OutRow \cup CountRow \cup UnpricedRow))
      BY DraftAssumption DEF TypeOK
    <3>2. k \in DOMAIN draft[v] /\ i \in DOMAIN draft[v][k]
      BY DEF PricedCalls
    <3>3. draft[v][k] \in Seq(InRow \cup OutRow \cup CountRow \cup UnpricedRow)
      BY <3>1, <3>2
    <3>4. draft[v][k][i] \in InRow \cup OutRow \cup CountRow \cup UnpricedRow
      BY <3>2, <3>3, LenProperties
    <3>5. draft[v][k][i].kind # "reverse"
      BY <3>4 DEF InRow, OutRow, CountRow, UnpricedRow
    <3>6. PricedCalls(v)[k][i] = Priced(draft[v][k][i])
      BY <3>2 DEF PricedCalls
    <3>7. Priced(draft[v][k][i]).kind = draft[v][k][i].kind
      <4>1. CASE Unpriced(draft[v][k][i])
        <5>1. draft[v][k][i] \in UnpricedRow
          BY <3>4, <4>1, SettingAssumption DEF Unpriced, InRow, OutRow, CountRow
        <5> QED BY <4>1, <5>1 DEF Priced, UnpricedRow
      <4>2. CASE ~Unpriced(draft[v][k][i])
        BY <4>2 DEF Priced
      <4> QED BY <4>1, <4>2
    <3> QED BY <3>5, <3>6, <3>7
  <2>3. Followed(txn[t])'
    BY <2>1, <2>2 DEF Followed, Start, NoTotals
  <2> QED BY <1>0, <1>1, <1>2, <2>3 DEF BeginSubmit, TypeOK
<1>3. ASSUME NEW t \in Txns, NEW v \in Vouchers, BeginCancel(t, v)
      PROVE  AccountsFollow'
  <2> DEFINE calls == IF sle[v] = <<>> THEN <<>> ELSE <<Originals(v)>>
  <2>1. txn'[t] = Start(v, "cancel", calls, {}) /\ doc[v] = "submitted" /\ doc' = doc /\ sle' = sle
    BY <1>3 DEF BeginCancel, TypeOK
  <2>2. calls # <<>> => Len(calls) = 1 /\ Len(calls[1]) = Len(sle[v])
    <3>1. Originals(v) \in Seq(Row) /\ DOMAIN Originals(v) = DOMAIN sle[v]
      BY OriginalsType DEF Originals
    <3>2. Len(Originals(v)) = Len(sle[v])
      BY <1>0, <3>1, LenProperties
    <3> QED BY <3>2
  <2> HIDE DEF calls
  <2>3. Mirrored(Start(v, "cancel", calls, {})) = 0
    BY DEF Mirrored, Start
  <2>4. Followed(txn[t])'
    <3>1. /\ txn'[t].op = "cancel" /\ txn'[t].v = v /\ txn'[t].calls = calls
          /\ \A b \in Bins : txn'[t].pend[b].gl = 0 /\ txn'[t].pend[b].value = 0
          /\ Mirrored(txn[t])' = 0
      BY <2>1, <2>3 DEF Start, NoTotals
    <3>2. Tol * 0 = 0 /\ 0 - 0 \in -(Tol * 0) .. Tol * 0
      BY SettingAssumption
    <3> QED BY <1>0, <2>1, <2>2, <3>1, <3>2 DEF Followed
  <2> QED BY <1>0, <1>1, <1>3, <2>4 DEF BeginCancel, TypeOK
<1>4. ASSUME NEW t \in Txns, LockBin(t)
      PROVE  AccountsFollow'
  <2>1. txn[t] \in OpenRequest /\ Busy(t)
    BY <1>4, BusyIsOpen DEF LockBin, Wants, Posting
  <2>2. PICK b \in Bins :
          txn' = [txn EXCEPT ![t].loaded = @ \cup {b},
                             ![t].cache[b] = IF b \in txn[t].loaded THEN @ ELSE bin[b]]
    BY <1>4 DEF LockBin
  <2>3. /\ txn'[t].op = txn[t].op /\ txn'[t].v = txn[t].v /\ txn'[t].calls = txn[t].calls
        /\ txn'[t].call = txn[t].call /\ txn'[t].row = txn[t].row /\ txn'[t].pend = txn[t].pend
        /\ \A u \in Txns : u # t => txn'[u] = txn[u]
    BY <2>1, <2>2 DEF OpenRequest, TypeOK
  <2>4. doc' = doc /\ sle' = sle
    BY <1>4 DEF LockBin
  <2>5. Followed(txn[t])'
    BY <2>1, <2>3, <2>4 DEF AccountsFollow, Followed, Mirrored
  <2> QED BY <1>0, <1>1, <2>3, <2>4, <2>5
<1>5. ASSUME NEW t \in Txns, PostRow(t)
      PROVE  AccountsFollow'
  <2> DEFINE r == CurrentRow(t)
             q == txn[t]
             old == q.cache[r.bin]
             diff == Apply(old, r, q.pool).value - old.value
             book == IF r.kind = "reverse" THEN -r.diff ELSE diff
  <2>1. q \in OpenRequest /\ r \in Row /\ r.bin \in Bins /\ old \in BinRow /\ Busy(t)
    BY <1>5, CurrentRowType DEF PostRow, MoreRows, Posting
  <2>2. /\ Accepts(old, r)
        /\ q.call \in DOMAIN q.calls /\ q.row \in DOMAIN q.calls[q.call]
    BY <1>5 DEF PostRow, MoreRows, Posting
  <2>3. /\ txn'[t] = Posted(q, r)
        /\ \A u \in Txns : u # t => txn'[u] = txn[u]
        /\ doc' = doc /\ sle' = sle
    BY <1>5 DEF PostRow, TypeOK
  <2>4. Apply(old, r, q.pool) \in BinRow
    BY <2>1, ApplyType DEF OpenRequest
  <2>5. diff \in Int /\ old.value \in Int /\ (r.kind = "reverse" => r.diff \in Int)
    <3>1. r.kind = "reverse" => r.diff \in Int
      BY <2>1 DEF Row, InRow, OutRow, CountRow, ReverseRow
    <3> QED BY <2>1, <2>4, <3>1 DEF BinRow
  <2>6. book - diff \in -Tol .. Tol
    <3>1. r.kind = "reverse" => -r.diff - diff \in -Tol .. Tol
      BY <2>1, <2>2, RowFollows DEF OpenRequest
    <3> QED BY <2>5, <3>1, SettingAssumption
  <2>7. /\ Posted(q, r).op = q.op /\ Posted(q, r).v = q.v /\ Posted(q, r).calls = q.calls
        /\ \A b \in Bins : b # r.bin => Posted(q, r).pend[b] = q.pend[b]
        /\ Posted(q, r).pend[r.bin].gl = q.pend[r.bin].gl + book
        /\ Posted(q, r).pend[r.bin].value = q.pend[r.bin].value + diff
    BY <2>1 DEF Posted, OpenRequest
  <2>8. \A b \in Bins : q.pend[b].gl \in Int /\ q.pend[b].value \in Int
    BY <2>1 DEF OpenRequest, Totals
  <2>9. Followed(q)
    BY <2>1 DEF AccountsFollow
  <2>10. ASSUME q.op = "submit"
         PROVE  Followed(txn[t])'
    <3>1. r.kind # "reverse"
      BY <2>2, <2>9, <2>10 DEF Followed, CurrentRow
    <3>2. \A b \in Bins : Posted(q, r).pend[b].gl = Posted(q, r).pend[b].value
      BY <2>7, <2>9, <2>10, <3>1 DEF Followed
    <3> HIDE DEF r, q, diff, book
    <3> QED BY <2>3, <2>7, <2>9, <2>10, <3>2 DEF Followed
  <2>11. ASSUME q.op = "cancel"
         PROVE  Followed(txn[t])'
    <3>1. q.calls # <<>> /\ Len(q.calls) = 1 /\ q.call = 1
      <4>1. q.calls \in Seq(Seq(Row))
        BY <2>1 DEF OpenRequest
      <4> QED BY <2>2, <2>9, <2>11, <4>1, LenProperties DEF Followed
    <3>2. q.calls[1] \in Seq(Row) /\ q.row \in 1 .. Len(q.calls[1]) /\ Len(q.calls[1]) \in Nat
      <4>1. q.calls \in Seq(Seq(Row)) /\ 1 \in DOMAIN q.calls
        BY <2>1, <2>2, <3>1 DEF OpenRequest
      <4>2. q.calls[1] \in Seq(Row)
        BY <4>1
      <4> QED BY <2>2, <3>1, <4>2, LenProperties
    <3>3. Mirrored(q) = q.row - 1
      BY <3>1 DEF Mirrored
    <3>4. Mirrored(Posted(q, r)) = q.row
      <4>1. CASE q.row = Len(q.calls[q.call])
        <5>1. Posted(q, r).call = 2 /\ Posted(q, r).calls = q.calls
          BY <3>1, <4>1 DEF Posted
        <5> QED BY <3>1, <4>1, <5>1 DEF Mirrored
      <4>2. CASE q.row # Len(q.calls[q.call])
        <5>1. /\ Posted(q, r).call = 1 /\ Posted(q, r).calls = q.calls
              /\ Posted(q, r).row = q.row + 1
          BY <3>1, <4>2 DEF Posted
        <5> QED BY <3>1, <3>2, <5>1 DEF Mirrored
      <4> QED BY <4>1, <4>2
    <3> DEFINE n == q.row - 1
               gap(p, b) == p.pend[b].gl - p.pend[b].value
    <3>5. n \in Nat /\ q.row = n + 1 /\ q.row \in Nat
      BY <3>2
    <3>6. \A b \in Bins : gap(q, b) \in Int /\ gap(q, b) \in -(Tol * n) .. Tol * n
      BY <2>8, <2>9, <2>11, <3>3 DEF Followed
    <3>7. gap(Posted(q, r), r.bin) = gap(q, r.bin) + (book - diff)
      <4>1. book \in Int
        BY <2>5
      <4> HIDE DEF r, q, diff, book
      <4> QED BY <2>1, <2>5, <2>7, <2>8, <4>1
    <3>8. ASSUME NEW b \in Bins
          PROVE  gap(Posted(q, r), b) \in -(Tol * (n + 1)) .. Tol * (n + 1)
      <4> HIDE DEF n, diff, book, r, q
      <4>1. CASE b = r.bin
        <5>1. gap(q, b) + (book - diff) \in -(Tol * (n + 1)) .. Tol * (n + 1)
          BY <2>6, <3>5, <3>6, WidenByOne
        <5> QED BY <3>7, <4>1, <5>1
      <4>2. CASE b # r.bin
        <5>1. gap(Posted(q, r), b) = gap(q, b)
          BY <2>7, <4>2
        <5>2. gap(q, b) \in -(Tol * (n + 1)) .. Tol * (n + 1)
          <6> HIDE DEF gap
          <6> QED BY <3>5, <3>6, Widen
        <5> QED BY <5>1, <5>2
      <4> QED BY <4>1, <4>2
    <3>9. \A b \in Bins : Posted(q, r).pend[b].gl - Posted(q, r).pend[b].value
                            \in -(Tol * q.row) .. Tol * q.row
      BY <3>5, <3>8
    <3> HIDE DEF r, q, diff, book, n, gap
    <3> QED BY <2>3, <2>7, <2>9, <2>11, <3>1, <3>4, <3>5, <3>9 DEF Followed
  <2>12. q.op \in {"submit", "cancel"}
    BY <2>1 DEF OpenRequest
  <2>13. Followed(txn[t])'
    BY <2>10, <2>11, <2>12
  <2> QED BY <1>0, <1>1, <2>3, <2>13
<1>6. ASSUME NEW t \in Txns, RollBack(t)
      PROVE  AccountsFollow'
  BY <1>0, <1>1, <1>6 DEF RollBack, TypeOK, Busy, Idle
<1>7. ASSUME NEW t \in Txns, Commit(t)
      PROVE  AccountsFollow'
  <2>1. txn[t] \in OpenRequest
    BY <1>7, BusyIsOpen DEF Commit
  <2>2. txn[t].v \in Vouchers /\ txn[t].new \in Seq(Entry) /\ txn[t].op \in {"submit", "cancel"}
    BY <2>1 DEF OpenRequest
  <2>3. \A v \in Vouchers : Len(sle[v]) <= Len(sle'[v]) /\ Len(sle'[v]) \in Nat
    <3>1. Len(sle[txn[t].v] \o txn[t].new) = Len(sle[txn[t].v]) + Len(txn[t].new)
      BY <1>0, <2>2, ConcatProperties
    <3>2. Len(txn[t].new) \in Nat
      BY <2>2, LenProperties
    <3>3. sle' = [sle EXCEPT ![txn[t].v] = @ \o txn[t].new]
      BY <1>7 DEF Commit
    <3>4. ASSUME NEW v \in Vouchers
          PROVE  Len(sle[v]) <= Len(sle'[v]) /\ Len(sle'[v]) \in Nat
      <4>1. CASE v = txn[t].v
        <5>1. sle'[v] = sle[v] \o txn[t].new
          BY <2>2, <3>3, <4>1 DEF TypeOK
        <5>2. Len(sle'[v]) = Len(sle[v]) + Len(txn[t].new)
          BY <3>1, <4>1, <5>1
        <5>3. Len(sle[v]) \in Nat
          BY <1>0
        <5>4. \A a, m \in Nat : a <= a + m /\ a + m \in Nat
          OBVIOUS
        <5> QED BY <3>2, <5>2, <5>3, <5>4, Zenon
      <4>2. CASE v # txn[t].v
        <5>1. sle'[v] = sle[v]
          BY <3>3, <4>2 DEF TypeOK
        <5> QED BY <1>0, <5>1
      <4> QED BY <4>1, <4>2
    <3> QED BY <3>4
  <2>4. \A v \in Vouchers : doc[v] # "draft" => doc'[v] # "draft"
    BY <1>7, <2>2 DEF Commit, StatusAfter, TypeOK
  <2>5. txn'[t] = Idle /\ \A u \in Txns : u # t => txn'[u] = txn[u]
    BY <1>7 DEF Commit, TypeOK
  <2> QED BY <1>1, <2>3, <2>4, <2>5 DEF Busy, Idle
<1>8. CASE UNCHANGED vars
  BY <1>8 DEF vars, AccountsFollow, Busy, Followed, Mirrored
<1> QED
  BY <1>2, <1>3, <1>4, <1>5, <1>6, <1>7, <1>8
     DEF Next, Work, Reject, DeadlockVictim, Crash

LEMMA FollowInit == Init => AccountsFollow
BY DEF Init, AccountsFollow, Busy, Idle

LEMMA GapOfCommit ==
  ASSUME TypeOK, AccountsFollow, [Next]_vars, NEW b \in Bins, Gap(b)' # Gap(b)
  PROVE  \E v \in Vouchers :
           /\ doc[v] # "draft" /\ doc'[v] = "cancelled"
           /\ Gap(b)' - Gap(b) \in -(Tol * Len(sle[v])) .. Tol * Len(sle[v])
<1>1. led' # led
  BY DEF Gap
<1>2. PICK t \in Txns : Commit(t)
  BY <1>1 DEF Next, Work, BeginSubmit, BeginCancel, LockBin, PostRow, Reject, DeadlockVictim,
              Crash, RollBack, vars
<1> DEFINE q == txn[t]
<1>3. q \in OpenRequest /\ Busy(t)
  BY <1>2, BusyIsOpen DEF Commit
<1>4. Followed(q)
  BY <1>3 DEF AccountsFollow
<1>5. /\ q.v \in Vouchers /\ q.op \in {"submit", "cancel"}
      /\ q.pend[b].gl \in Int /\ q.pend[b].value \in Int
      /\ led[b].gl \in Int /\ led[b].value \in Int
      /\ Len(sle[q.v]) \in Nat
  BY <1>3, LenProperties DEF OpenRequest, Totals, TypeOK
<1>6. led'[b].gl = led[b].gl + q.pend[b].gl /\ led'[b].value = led[b].value + q.pend[b].value
  BY <1>2 DEF Commit
<1>7. Gap(b)' - Gap(b) = q.pend[b].gl - q.pend[b].value
  <2> HIDE DEF q
  <2> QED BY <1>5, <1>6 DEF Gap
<1>8. q.op = "cancel"
  <2>1. q.op = "submit" => q.pend[b].gl = q.pend[b].value
    BY <1>4 DEF Followed
  <2>2. q.pend[b].gl # q.pend[b].value
    <3> HIDE DEF q
    <3> QED BY <1>5, <1>6 DEF Gap
  <2> QED BY <1>5, <2>1, <2>2
<1>9. Mirrored(q) \in Nat /\ Mirrored(q) <= Len(sle[q.v])
  <2>1. CASE q.calls = <<>>
    BY <1>5, <2>1 DEF Mirrored
  <2>2. CASE q.calls # <<>>
    <3>1. Len(q.calls) = 1 /\ Len(q.calls[1]) <= Len(sle[q.v]) /\ Mirrored(q) \in Nat
      BY <1>4, <1>8, <2>2 DEF Followed
    <3>2. q.calls \in Seq(Seq(Row)) /\ 1 \in DOMAIN q.calls
      BY <1>3, <3>1 DEF OpenRequest
    <3>3. q.call # 1
      BY <1>2, <1>3, <3>2 DEF Commit, Posting
    <3> QED BY <2>2, <3>1, <3>3 DEF Mirrored
  <2> QED BY <2>1, <2>2
<1>10. Gap(b)' - Gap(b) \in -(Tol * Len(sle[q.v])) .. Tol * Len(sle[q.v])
  <2>1. q.pend[b].gl - q.pend[b].value \in Int
    BY <1>5
  <2>2. q.pend[b].gl - q.pend[b].value \in -(Tol * Mirrored(q)) .. Tol * Mirrored(q)
    BY <1>4, <1>8 DEF Followed
  <2> HIDE DEF q
  <2> QED BY <1>5, <1>7, <1>9, <2>1, <2>2, Widen
<1>11. doc[q.v] # "draft" /\ doc'[q.v] = "cancelled"
  BY <1>2, <1>4, <1>5, <1>8 DEF Followed, Commit, StatusAfter, TypeOK
<1> QED BY <1>5, <1>10, <1>11

\* The inventory account leaves the stock value only when a document is
\* cancelled, and by no more than the tolerance for each entry taken back.
THEOREM AccountFollowsStock == Spec => InventoryFollowsStock
<1>1. TypeOK /\ AccountsFollow /\ [Next]_vars
      => [\A b \in Bins :
            Gap(b)' # Gap(b) =>
              \E v \in Vouchers :
                /\ doc[v] # "draft" /\ doc'[v] = "cancelled"
                /\ Gap(b)' - Gap(b) \in -(Tol * Len(sle[v])) .. Tol * Len(sle[v])]_vars
  BY GapOfCommit
<1> QED BY <1>1, FollowInit, FollowStep, TypeCorrect, PTL DEF Spec, InventoryFollowsStock

-----------------------------------------------------------------------------
(* Cancelling everything empties the bins, provided that a document has one *)
(* request at a time: the quantity of a bin is what the entries of the      *)
(* submitted vouchers moved, and an empty bin is worth nothing.             *)

Quantities(s, b) == [i \in DOMAIN s |-> IF s[i].bin = b THEN s[i].qty ELSE 0]
\* what the first n entries of s move in bin b
QtyOn(s, b, n) == SumFunctionOnSet(Quantities(s, b), 1 .. n)

InForce(b) == [v \in Vouchers |-> IF doc[v] = "submitted" THEN QtyOn(sle[v], b, Len(sle[v])) ELSE 0]

Accounted(q) ==
  /\ q.op = "submit" =>
       /\ doc[q.v] = "draft"
       /\ \A b \in Bins : q.pend[b].qty = QtyOn(q.new, b, Len(q.new))
  /\ q.op = "cancel" =>
       /\ doc[q.v] = "submitted" /\ q.new = <<>>
       /\ q.calls = IF sle[q.v] = <<>> THEN <<>> ELSE <<Originals(q.v)>>
       /\ Mirrored(q) \in 0 .. Len(sle[q.v])
       /\ \A b \in Bins : q.pend[b].qty = -QtyOn(sle[q.v], b, Mirrored(q))

StockAccounted ==
  /\ \A b \in Bins : led[b].qty = SumFunctionOnSet(InForce(b), Vouchers)
  /\ \A v \in Vouchers : doc[v] = "draft" => sle[v] = <<>>
  /\ \A t, u \in Txns : Busy(t) /\ Busy(u) /\ txn[t].v = txn[u].v => t = u
  /\ \A t \in Txns : Busy(t) => Accounted(txn[t])

LEMMA QtyOfNone == ASSUME NEW s, NEW b PROVE QtyOn(s, b, 0) = 0
<1>1. 1 .. 0 = {}
  OBVIOUS
<1> QED BY <1>1, SumOfEmpty DEF QtyOn

LEMMA QuantitiesType ==
  ASSUME NEW s \in Seq(Entry), NEW b
  PROVE  \A i \in DOMAIN s : Quantities(s, b)[i] \in Int
<1>1. \A i \in DOMAIN s : s[i] \in Entry
  BY LenProperties
<1> QED BY <1>1 DEF Quantities, Entry

LEMMA QtyType ==
  ASSUME NEW s \in Seq(Entry), NEW b, NEW n \in 0 .. Len(s)
  PROVE  QtyOn(s, b, n) \in Int
<1>1. 1 .. n \subseteq DOMAIN s /\ DOMAIN s = 1 .. Len(s) /\ Len(s) \in Nat
  BY LenProperties
<1>2. \A i \in 1 .. n : Quantities(s, b)[i] \in Int
  BY <1>1, QuantitiesType
<1>3. IsFiniteSet(1 .. n)
  BY FS_Interval
<1> QED BY <1>2, <1>3, SumIsInt DEF QtyOn

LEMMA QtyOfNext ==
  ASSUME NEW s \in Seq(Entry), NEW b, NEW n \in 0 .. Len(s) - 1
  PROVE  QtyOn(s, b, n + 1) = QtyOn(s, b, n) + (IF s[n + 1].bin = b THEN s[n + 1].qty ELSE 0)
<1>1. DOMAIN s = 1 .. Len(s) /\ Len(s) \in Nat /\ n \in Nat /\ n + 1 \in DOMAIN s
  BY LenProperties
<1>2. 1 .. n + 1 = (1 .. n) \cup {n + 1} /\ n + 1 \notin 1 .. n /\ 1 .. n + 1 \subseteq DOMAIN s
  BY <1>1
<1>3. \A i \in DOMAIN s : Quantities(s, b)[i] \in Int
  BY QuantitiesType
<1>4. IsFiniteSet(1 .. n)
  BY <1>1, FS_Interval
<1>5. QtyOn(s, b, n + 1) = Quantities(s, b)[n + 1] + QtyOn(s, b, n)
  BY <1>2, <1>3, <1>4, SumWith DEF QtyOn
<1>6. QtyOn(s, b, n) \in Int
  BY <1>1, QtyType
<1> QED BY <1>1, <1>3, <1>5, <1>6 DEF Quantities

LEMMA QtyOfAppend ==
  ASSUME NEW s \in Seq(Entry), NEW e \in Entry, NEW b
  PROVE  QtyOn(Append(s, e), b, Len(Append(s, e)))
           = QtyOn(s, b, Len(s)) + (IF e.bin = b THEN e.qty ELSE 0)
<1> DEFINE n == Len(s)
           a == Append(s, e)
<1>1. n \in Nat /\ a \in Seq(Entry) /\ Len(a) = n + 1 /\ DOMAIN s = 1 .. n /\ DOMAIN a = 1 .. n + 1
  BY LenProperties, AppendProperties
<1>2. a[n + 1] = e /\ \A i \in 1 .. n : a[i] = s[i]
  BY AppendProperties
<1> HIDE DEF a, n
<1>3. QtyOn(a, b, n + 1) = QtyOn(a, b, n) + (IF e.bin = b THEN e.qty ELSE 0)
  BY <1>1, <1>2, QtyOfNext
<1>4. QtyOn(a, b, n) = QtyOn(s, b, n)
  <2>1. \A i \in 1 .. n : Quantities(a, b)[i] = Quantities(s, b)[i]
    BY <1>1, <1>2 DEF Quantities
  <2>2. IsFiniteSet(1 .. n)
    BY <1>1, FS_Interval
  <2> QED BY <2>1, <2>2, SumOfSame DEF QtyOn
<1> QED BY <1>1, <1>3, <1>4 DEF a, n

\* what a request has posted, after one row more
LEMMA PostAccounts ==
  ASSUME TypeOK, AccountsFollow, NEW t \in Txns, PostRow(t), Accounted(txn[t])
  PROVE  Accounted(txn[t])'
<1> DEFINE r == CurrentRow(t)
           q == txn[t]
           old == q.cache[r.bin]
           upd == Apply(old, r, q.pool)
           qty == upd.qty - old.qty
           diff == upd.value - old.value
<1>1. q \in OpenRequest /\ r \in Row /\ r.bin \in Bins /\ old \in BinRow /\ Busy(t)
  BY CurrentRowType DEF PostRow, MoreRows, Posting
<1>2. q.call \in DOMAIN q.calls /\ q.row \in DOMAIN q.calls[q.call]
  BY DEF PostRow, MoreRows, Posting
<1>3. txn'[t] = Posted(q, r) /\ doc' = doc /\ sle' = sle
  BY DEF PostRow, TypeOK
<1>4. upd \in BinRow
  BY <1>1, ApplyType DEF OpenRequest
<1>5. qty \in Int /\ diff \in Int /\ \A b \in Bins : q.pend[b].qty \in Int
  <2>1. upd.qty \in Int /\ upd.value \in Int /\ old.qty \in Int /\ old.value \in Int
    BY <1>1, <1>4 DEF BinRow
  <2>2. \A b \in Bins : q.pend[b] \in Totals
    BY <1>1 DEF OpenRequest
  <2> HIDE DEF upd, old
  <2> QED BY <2>1, <2>2 DEF Totals
<1>6. /\ Posted(q, r).op = q.op /\ Posted(q, r).v = q.v /\ Posted(q, r).calls = q.calls
      /\ \A b \in Bins : b # r.bin => Posted(q, r).pend[b] = q.pend[b]
      /\ Posted(q, r).pend[r.bin].qty = q.pend[r.bin].qty + qty
  <2>0. q \in OpenRequest /\ r.bin \in Bins
    BY <1>1
  <2>1. upd = Apply(q.cache[r.bin], r, q.pool)
    OBVIOUS
  <2> HIDE DEF qty, diff, upd, old, r, q
  <2>2. /\ Posted(q, r).op = q.op /\ Posted(q, r).v = q.v /\ Posted(q, r).calls = q.calls
        /\ Posted(q, r).cache = [q.cache EXCEPT ![r.bin] = upd]
        /\ \A b \in Bins : b # r.bin => Posted(q, r).pend[b] = q.pend[b]
        /\ Posted(q, r).pend[r.bin].qty = q.pend[r.bin].qty + (upd.qty - q.cache[r.bin].qty)
    BY <2>0, <2>1, PostedFields
  <2> QED BY <2>2 DEF qty, old
<1>7. Followed(q)
  BY <1>1 DEF AccountsFollow
<1>8. q.op \in {"submit", "cancel"} /\ q.new \in Seq(Entry) /\ q.v \in Vouchers
  BY <1>1 DEF OpenRequest
<1>9. ASSUME q.op = "submit"
      PROVE  Accounted(txn[t])'
  <2>1. r.kind # "reverse"
    BY <1>2, <1>7, <1>9 DEF Followed, CurrentRow
  <2> DEFINE e == [bin |-> r.bin, qty |-> qty, diff |-> diff]
             new == IF qty = 0 /\ diff = 0 THEN q.new ELSE Append(q.new, e)
  <2>2. Posted(q, r).new = new
    BY <2>1 DEF Posted
  <2>3. e \in Entry
    BY <1>1, <1>5 DEF Entry
  <2>4. ASSUME NEW b \in Bins
        PROVE  QtyOn(new, b, Len(new)) = QtyOn(q.new, b, Len(q.new)) + (IF r.bin = b THEN qty ELSE 0)
    <3>1. QtyOn(q.new, b, Len(q.new)) \in Int
      BY <1>8, QtyType, LenProperties
    <3>2. CASE qty = 0 /\ diff = 0
      <4> HIDE DEF qty
      <4> QED BY <3>1, <3>2
    <3>3. CASE ~(qty = 0 /\ diff = 0)
      <4>1. e.bin = r.bin /\ e.qty = qty
        OBVIOUS
      <4> HIDE DEF e, qty, diff
      <4> QED BY <1>8, <2>3, <3>3, <4>1, QtyOfAppend
    <3> QED BY <3>2, <3>3
  <2> HIDE DEF new, e, qty, r, q
  <2>5. ASSUME NEW b \in Bins
        PROVE  Posted(q, r).pend[b].qty = QtyOn(new, b, Len(new))
    <3>1. q.pend[b].qty = QtyOn(q.new, b, Len(q.new))
      BY <1>9 DEF Accounted, q
    <3> QED BY <1>5, <1>6, <2>4, <3>1
  <2>6. doc[q.v] = "draft"
    BY <1>9 DEF Accounted, q
  <2> QED BY <1>3, <1>6, <1>9, <2>2, <2>5, <2>6 DEF Accounted
<1>10. ASSUME q.op = "cancel"
       PROVE  Accounted(txn[t])'
  <2>1. q.calls # <<>>
    BY <1>1, <1>2 DEF OpenRequest
  <2>2. q.calls = <<Originals(q.v)>> /\ sle[q.v] # <<>>
    BY <1>10, <2>1 DEF Accounted
  <2>3. q.call = 1
    BY <1>2, <2>2
  <2> DEFINE n == q.row - 1
             s == sle[q.v]
  <2>4. /\ s \in Seq(Entry) /\ Len(s) \in Nat /\ DOMAIN s = 1 .. Len(s)
        /\ Originals(q.v) \in Seq(Row) /\ DOMAIN Originals(q.v) = DOMAIN s
    BY <1>8, OriginalsType, LenProperties DEF TypeOK, Originals
  <2>5. Len(Originals(q.v)) = Len(s)
    BY <2>4, LenProperties
  <2>6. q.row \in 1 .. Len(s) /\ n \in 0 .. Len(s) - 1 /\ q.row = n + 1
    BY <1>2, <2>2, <2>3, <2>4
  <2>7. r.kind = "reverse" /\ r.bin = s[n + 1].bin /\ r.qty = s[n + 1].qty
    <3>1. r = Originals(q.v)[q.row]
      BY <2>2, <2>3 DEF CurrentRow
    <3>2. q.row \in DOMAIN s
      BY <2>4, <2>6
    <3>3. \A i \in DOMAIN s :
            Originals(q.v)[i] = [kind |-> "reverse", bin |-> s[i].bin, qty |-> s[i].qty, diff |-> s[i].diff]
      BY DEF Originals
    <3>4. r = [kind |-> "reverse", bin |-> s[q.row].bin, qty |-> s[q.row].qty, diff |-> s[q.row].diff]
      BY <3>1, <3>2, <3>3
    <3> HIDE DEF r, s, n
    <3>5. r.kind = "reverse" /\ r.bin = s[q.row].bin /\ r.qty = s[q.row].qty
      BY <3>4
    <3> QED BY <2>6, <3>5
  <2>8. qty = -s[n + 1].qty
    <3>1. s[n + 1] \in Entry
      BY <2>4, <2>6
    <3>2. upd.qty = old.qty - r.qty
      BY <2>7 DEF Apply, Reverse
    <3>3. old.qty \in Int /\ s[n + 1].qty \in Int
      BY <1>1, <3>1 DEF BinRow, Entry
    <3> HIDE DEF upd, old, r, n, s
    <3> QED BY <2>7, <3>2, <3>3
  <2>9. Mirrored(q) = n
    BY <2>1, <2>3 DEF Mirrored
  <2>10. Mirrored(Posted(q, r)) = n + 1
    <3>1. CASE q.row = Len(q.calls[q.call])
      <4>1. Posted(q, r).call = 2 /\ Posted(q, r).calls = q.calls
        BY <2>3, <3>1 DEF Posted
      <4> QED BY <2>1, <2>3, <2>6, <3>1, <4>1 DEF Mirrored
    <3>2. CASE q.row # Len(q.calls[q.call])
      <4>1. /\ Posted(q, r).call = 1 /\ Posted(q, r).calls = q.calls
            /\ Posted(q, r).row = q.row + 1
        BY <2>3, <3>2 DEF Posted
      <4> QED BY <2>1, <2>6, <4>1 DEF Mirrored
    <3> QED BY <3>1, <3>2
  <2>11. Posted(q, r).new = <<>>
    BY <1>10, <2>7 DEF Posted, Accounted
  <2> HIDE DEF n, s, r, qty, q
  <2>12. ASSUME NEW b \in Bins
         PROVE  Posted(q, r).pend[b].qty = -QtyOn(s, b, n + 1)
    <3>1. q.pend[b].qty = -QtyOn(s, b, n)
      BY <1>10, <2>9 DEF Accounted, q, s
    <3>2. QtyOn(s, b, n + 1) = QtyOn(s, b, n) + (IF s[n + 1].bin = b THEN s[n + 1].qty ELSE 0)
      BY <2>4, <2>6, QtyOfNext
    <3>3. QtyOn(s, b, n) \in Int /\ s[n + 1].qty \in Int
      <4>1. n \in 0 .. Len(s) /\ n + 1 \in 1 .. Len(s)
        BY <2>4, <2>6
      <4>2. s[n + 1] \in Entry
        BY <2>4, <4>1
      <4> QED BY <2>4, <4>1, <4>2, QtyType DEF Entry
    <3>4. CASE b = r.bin
      BY <1>6, <2>7, <2>8, <3>1, <3>2, <3>3, <3>4
    <3>5. CASE b # r.bin
      BY <1>6, <2>7, <3>1, <3>2, <3>3, <3>5
    <3> QED BY <3>4, <3>5
  <2>13. doc[q.v] = "submitted" /\ q.calls = IF s = <<>> THEN <<>> ELSE <<Originals(q.v)>>
    BY <1>10 DEF Accounted, q, s
  <2>14. \A v \in Vouchers : Originals(v)' = Originals(v)
    BY <1>3 DEF Originals
  <2>15. n + 1 \in 0 .. Len(s)
    BY <2>4, <2>6
  <2> DEFINE p == Posted(q, r)
  <2>16. p.op = "cancel" /\ p.v = q.v /\ p.calls = q.calls
    BY <1>6, <1>10
  <2>17. Accounted(p)
    <3> HIDE DEF p
    <3>1. p.calls = IF sle[p.v] = <<>> THEN <<>> ELSE <<Originals(p.v)>>
      BY <2>13, <2>16 DEF s
    <3>2. Mirrored(p) \in 0 .. Len(sle[p.v])
      BY <2>10, <2>15, <2>16 DEF s, p
    <3>3. \A b \in Bins : p.pend[b].qty = -QtyOn(sle[p.v], b, Mirrored(p))
      BY <2>10, <2>12, <2>16 DEF s, p
    <3>4. doc[p.v] = "submitted" /\ p.new = <<>>
      BY <2>11, <2>13, <2>16 DEF p
    <3> QED BY <2>16, <3>1, <3>2, <3>3, <3>4 DEF Accounted
  <2>18. txn'[t] = p
    BY <1>3
  <2> HIDE DEF p
  <2> QED BY <1>3, <2>16, <2>17, <2>18, <2>14, <1>8 DEF Accounted, Originals
<1> QED BY <1>8, <1>9, <1>10

LEMMA EntriesType ==
  ASSUME TypeOK, NEW v \in Vouchers
  PROVE  sle[v] \in Seq(Entry) /\ Len(sle[v]) \in Nat
BY LenProperties DEF TypeOK

LEMMA InForceType ==
  ASSUME TypeOK, NEW b \in Bins
  PROVE  \A v \in Vouchers : InForce(b)[v] \in Int
<1> SUFFICES ASSUME NEW v \in Vouchers PROVE InForce(b)[v] \in Int
  OBVIOUS
<1>1. QtyOn(sle[v], b, Len(sle[v])) \in Int
  BY EntriesType, QtyType
<1> QED BY <1>1 DEF InForce

\* what a step of one request has to show that leaves the books alone
LEMMA AccountFrame ==
  ASSUME TypeOK, StockAccounted, NEW t \in Txns,
         UNCHANGED <<led, sle, doc>>,
         \A u \in Txns : u # t => txn'[u] = txn[u],
         Busy(t)' => Accounted(txn[t])',
         Busy(t)' => \A u \in Txns : u # t /\ Busy(u) => txn[u].v # txn'[t].v
  PROVE  StockAccounted'
<1>1. \A b \in Bins : InForce(b)' = InForce(b)
  BY DEF InForce
<1>2. ASSUME NEW u \in Txns, u # t, Busy(u)'
      PROVE  Accounted(txn[u])'
  <2>1. Busy(u) /\ txn'[u] = txn[u]
    BY <1>2 DEF Busy
  <2>2. Accounted(txn[u])
    BY <2>1 DEF StockAccounted
  <2>3. Mirrored(txn'[u]) = Mirrored(txn[u])' /\ Originals(txn[u].v)' = Originals(txn[u].v)
    BY <2>1 DEF Mirrored, Originals
  <2> QED BY <2>1, <2>2, <2>3 DEF Accounted, Mirrored
<1>3. ASSUME NEW u \in Txns, NEW w \in Txns, Busy(u)', Busy(w)', txn'[u].v = txn'[w].v
      PROVE  u = w
  BY <1>3 DEF StockAccounted, Busy
<1> QED BY <1>1, <1>2, <1>3 DEF StockAccounted

LEMMA AccountCommit ==
  ASSUME TypeOK, StockAccounted, IsFiniteSet(Vouchers), NEW t \in Txns, Commit(t)
  PROVE  StockAccounted'
<1> DEFINE q == txn[t]
           v == q.v
<1>1. q \in OpenRequest /\ Busy(t) /\ ~Posting(t)
  BY BusyIsOpen DEF Commit
<1>2. Accounted(q) /\ q.op \in {"submit", "cancel"} /\ v \in Vouchers /\ q.new \in Seq(Entry)
  BY <1>1 DEF StockAccounted, OpenRequest
<1>3. /\ sle' = [sle EXCEPT ![v] = @ \o q.new]
      /\ doc' = [doc EXCEPT ![v] = StatusAfter(q.op)]
      /\ \A b \in Bins : led'[b].qty = led[b].qty + q.pend[b].qty
  BY DEF Commit
<1>4. txn'[t] = Idle /\ \A u \in Txns : u # t => txn'[u] = txn[u]
  BY DEF Commit, TypeOK
<1>5. \A b \in Bins : q.pend[b].qty \in Int /\ led[b].qty \in Int
  BY <1>1 DEF OpenRequest, Totals, TypeOK
<1> HIDE DEF q, v
<1>6. \A u \in Vouchers : u # v => sle'[u] = sle[u] /\ doc'[u] = doc[u]
  BY <1>3 DEF TypeOK
<1>7. sle'[v] = sle[v] \o q.new /\ doc'[v] = StatusAfter(q.op)
  BY <1>2, <1>3 DEF TypeOK
<1>8. ASSUME NEW b \in Bins
      PROVE  InForce(b)'[v] = InForce(b)[v] + q.pend[b].qty
  <2>1. CASE q.op = "submit"
    <3>1. doc[v] = "draft" /\ sle[v] = <<>>
      BY <1>2, <2>1 DEF Accounted, StockAccounted, v
    <3>2. sle'[v] = q.new
      BY <1>2, <1>7, <3>1
    <3>3. q.pend[b].qty = QtyOn(q.new, b, Len(q.new))
      BY <1>2, <2>1 DEF Accounted
    <3>4. InForce(b)[v] = 0
      BY <1>2, <3>1 DEF InForce
    <3>5. InForce(b)'[v] = QtyOn(q.new, b, Len(q.new))
      BY <1>2, <1>7, <2>1, <3>2 DEF InForce, StatusAfter
    <3> QED BY <1>5, <3>3, <3>4, <3>5
  <2>2. CASE q.op = "cancel"
    <3>1. /\ doc[v] = "submitted" /\ q.new = <<>>
          /\ q.calls = IF sle[v] = <<>> THEN <<>> ELSE <<Originals(v)>>
          /\ q.pend[b].qty = -QtyOn(sle[v], b, Mirrored(q))
      BY <1>2, <2>2 DEF Accounted, v
    <3>2. Mirrored(q) = Len(sle[v])
      <4>1. CASE sle[v] = <<>>
        BY <3>1, <4>1 DEF Mirrored
      <4>2. CASE sle[v] # <<>>
        <5>1. q.calls = <<Originals(v)>>
          BY <3>1, <4>2
        <5>2. q.call # 1
          BY <1>1, <5>1 DEF Posting, q
        <5>3. Len(Originals(v)) = Len(sle[v])
          <6>1. Originals(v) \in Seq(Row) /\ DOMAIN Originals(v) = DOMAIN sle[v]
            BY <1>2, OriginalsType DEF Originals
          <6> QED BY <1>2, <6>1, EntriesType, LenProperties
        <5> QED BY <5>1, <5>2, <5>3 DEF Mirrored
      <4> QED BY <4>1, <4>2
    <3>3. InForce(b)[v] = QtyOn(sle[v], b, Len(sle[v]))
      BY <1>2, <3>1 DEF InForce
    <3>4. InForce(b)'[v] = 0
      BY <1>2, <1>7, <2>2 DEF InForce, StatusAfter
    <3>5. InForce(b)[v] \in Int
      BY <1>2, InForceType
    <3> QED BY <1>5, <3>1, <3>2, <3>3, <3>4, <3>5
  <2> QED BY <1>2, <2>1, <2>2
<1>9. ASSUME NEW b \in Bins
      PROVE  led'[b].qty = SumFunctionOnSet(InForce(b)', Vouchers)
  <2>1. \A u \in Vouchers \ {v} : InForce(b)'[u] = InForce(b)[u]
    BY <1>6 DEF InForce
  <2>2. InForce(b)[v] \in Int /\ InForce(b)'[v] \in Int
    BY <1>2, <1>5, <1>8, InForceType
  <2>3. SumFunctionOnSet(InForce(b)', Vouchers)
          = SumFunctionOnSet(InForce(b), Vouchers) + InForce(b)'[v] - InForce(b)[v]
    <3> DEFINE f == InForce(b)
               g == InForce(b)'
    <3>1. /\ \A u \in Vouchers : f[u] \in Int
          /\ g[v] \in Int /\ \A u \in Vouchers \ {v} : g[u] = f[u]
      BY <2>1, <2>2, InForceType
    <3> HIDE DEF f, g
    <3>2. SumFunctionOnSet(g, Vouchers) = SumFunctionOnSet(f, Vouchers) + g[v] - f[v]
      BY <1>2, <3>1, SumOfChange
    <3> QED BY <3>2 DEF f, g
  <2>4. SumFunctionOnSet(InForce(b), Vouchers) \in Int
    BY InForceType, SumIsInt
  <2>5. led[b].qty = SumFunctionOnSet(InForce(b), Vouchers)
    BY DEF StockAccounted
  <2> QED BY <1>3, <1>5, <1>8, <2>2, <2>3, <2>4, <2>5
<1>10. \A u \in Vouchers : doc'[u] = "draft" => sle'[u] = <<>>
  <2>1. doc'[v] # "draft"
    BY <1>2, <1>7 DEF StatusAfter
  <2> QED BY <1>6, <2>1 DEF StockAccounted
<1>11. ASSUME NEW u \in Txns, Busy(u)'
       PROVE  /\ u # t /\ Busy(u) /\ txn'[u] = txn[u] /\ txn[u].v # v
              /\ Accounted(txn[u])'
  <2>1. u # t /\ Busy(u) /\ txn'[u] = txn[u]
    BY <1>4, <1>11 DEF Busy, Idle
  <2>2. txn[u].v # v
    BY <1>1, <2>1 DEF StockAccounted, v, q
  <2>3. txn[u].v \in Vouchers
    BY <2>1, BusyIsOpen DEF OpenRequest
  <2>4. sle'[txn[u].v] = sle[txn[u].v] /\ doc'[txn[u].v] = doc[txn[u].v]
    BY <1>6, <2>2, <2>3
  <2>5. Accounted(txn[u])
    BY <2>1 DEF StockAccounted
  <2>6. Accounted(txn[u])'
    BY <2>1, <2>4, <2>5 DEF Accounted, Originals
  <2> QED BY <2>1, <2>2, <2>6
<1>12. \A u, w \in Txns : Busy(u)' /\ Busy(w)' /\ txn'[u].v = txn'[w].v => u = w
  BY <1>11 DEF StockAccounted
<1> QED BY <1>9, <1>10, <1>11, <1>12 DEF StockAccounted

LEMMA AccountStep ==
  ASSUME ~SameVoucherTwice, IsFiniteSet(Vouchers),
         TypeOK, AccountsFollow, StockAccounted, [Next]_vars
  PROVE  StockAccounted'
<1>1. ASSUME NEW t \in Txns, NEW v \in Vouchers, BeginSubmit(t, v)
      PROVE  StockAccounted'
  <2>1. /\ txn'[t] = Start(v, "submit", PricedCalls(v), LastPeeked(draft[v][1]))
        /\ \A u \in Txns : u # t => txn'[u] = txn[u]
        /\ doc[v] = "draft" /\ UNCHANGED <<led, sle, doc>>
    BY <1>1 DEF BeginSubmit, TypeOK
  <2>2. \A u \in Txns : Busy(u) => txn[u].v # v
    BY <1>1 DEF BeginSubmit, Admitted
  <2>3. \A b : QtyOn(<<>>, b, Len(<<>>)) = 0
    BY QtyOfNone
  <2>4. Accounted(txn[t])'
    BY <2>1, <2>3 DEF Accounted, Start, NoTotals
  <2>5. txn'[t].v = v
    BY <2>1 DEF Start
  <2> QED BY <2>1, <2>2, <2>4, <2>5, AccountFrame
<1>2. ASSUME NEW t \in Txns, NEW v \in Vouchers, BeginCancel(t, v)
      PROVE  StockAccounted'
  <2> DEFINE calls == IF sle[v] = <<>> THEN <<>> ELSE <<Originals(v)>>
  <2>1. /\ txn'[t] = Start(v, "cancel", calls, {})
        /\ \A u \in Txns : u # t => txn'[u] = txn[u]
        /\ doc[v] = "submitted" /\ UNCHANGED <<led, sle, doc>>
    BY <1>2 DEF BeginCancel, TypeOK
  <2>2. \A u \in Txns : Busy(u) => txn[u].v # v
    BY <1>2 DEF BeginCancel, Admitted
  <2>3. calls' = calls
    BY <2>1 DEF Originals
  <2> DEFINE p == Start(v, "cancel", calls, {})
  <2>4. /\ p.op = "cancel" /\ p.v = v /\ p.calls = calls /\ p.new = <<>>
        /\ \A b \in Bins : p.pend[b].qty = 0
    BY DEF Start, NoTotals
  <2>5. Mirrored(p) = 0
    BY DEF Mirrored, Start
  <2> HIDE DEF p
  <2>6. Accounted(p)
    <3>1. \A b \in Bins : p.pend[b].qty = -QtyOn(sle[v], b, 0)
      BY <2>4, QtyOfNone
    <3>2. 0 \in 0 .. Len(sle[v])
      BY EntriesType
    <3> QED BY <2>1, <2>4, <2>5, <3>1, <3>2 DEF Accounted
  <2>7. txn'[t] = p
    BY <2>1 DEF p
  <2>8. Accounted(txn[t])'
    BY <2>1, <2>6, <2>7 DEF Accounted, Originals
  <2> HIDE DEF calls
  <2> QED BY <2>1, <2>2, <2>4, <2>7, <2>8, AccountFrame
<1>3. ASSUME NEW t \in Txns, LockBin(t)
      PROVE  StockAccounted'
  <2>1. txn[t] \in OpenRequest /\ Busy(t)
    BY <1>3, BusyIsOpen DEF LockBin, Wants, Posting
  <2>2. PICK b \in Bins :
          txn' = [txn EXCEPT ![t].loaded = @ \cup {b},
                             ![t].cache[b] = IF b \in txn[t].loaded THEN @ ELSE bin[b]]
    BY <1>3 DEF LockBin
  <2>3. /\ txn'[t].op = txn[t].op /\ txn'[t].v = txn[t].v /\ txn'[t].calls = txn[t].calls
        /\ txn'[t].call = txn[t].call /\ txn'[t].row = txn[t].row /\ txn'[t].pend = txn[t].pend
        /\ txn'[t].new = txn[t].new
        /\ \A u \in Txns : u # t => txn'[u] = txn[u]
    BY <2>1, <2>2 DEF OpenRequest, TypeOK
  <2>4. UNCHANGED <<led, sle, doc>>
    BY <1>3 DEF LockBin
  <2>5. Accounted(txn[t])'
    <3>1. Accounted(txn[t])
      BY <2>1 DEF StockAccounted
    <3>2. Originals(txn[t].v)' = Originals(txn[t].v) /\ Mirrored(txn[t])' = Mirrored(txn[t])
      BY <2>3, <2>4 DEF Originals, Mirrored
    <3> QED BY <2>3, <2>4, <3>1, <3>2 DEF Accounted
  <2>6. \A u \in Txns : u # t /\ Busy(u) => txn[u].v # txn'[t].v
    BY <2>1, <2>3 DEF StockAccounted
  <2> QED BY <2>3, <2>4, <2>5, <2>6, AccountFrame
<1>4. ASSUME NEW t \in Txns, PostRow(t)
      PROVE  StockAccounted'
  <2>1. Busy(t)
    BY <1>4 DEF PostRow, MoreRows, Posting
  <2>2. Accounted(txn[t])'
    BY <1>4, <2>1, PostAccounts DEF StockAccounted
  <2>3. /\ txn'[t].v = txn[t].v
        /\ \A u \in Txns : u # t => txn'[u] = txn[u]
        /\ UNCHANGED <<led, sle, doc>>
    BY <1>4 DEF PostRow, Posted, TypeOK
  <2>4. \A u \in Txns : u # t /\ Busy(u) => txn[u].v # txn'[t].v
    BY <2>1, <2>3 DEF StockAccounted
  <2> QED BY <2>2, <2>3, <2>4, AccountFrame
<1>5. ASSUME NEW t \in Txns, RollBack(t)
      PROVE  StockAccounted'
  <2>1. /\ txn'[t] = Idle /\ \A u \in Txns : u # t => txn'[u] = txn[u]
        /\ UNCHANGED <<led, sle, doc>>
    BY <1>5 DEF RollBack, TypeOK
  <2>2. ~Busy(t)'
    BY <2>1 DEF Busy, Idle
  <2> QED BY <2>1, <2>2, AccountFrame
<1>6. ASSUME NEW t \in Txns, Commit(t)
      PROVE  StockAccounted'
  BY <1>6, AccountCommit
<1>7. CASE UNCHANGED vars
  BY <1>7 DEF vars, StockAccounted, Accounted, Originals, InForce, Busy
<1> QED
  BY <1>1, <1>2, <1>3, <1>4, <1>5, <1>6, <1>7
     DEF Next, Work, Reject, DeadlockVictim, Crash

LEMMA AccountInit ==
  ASSUME IsFiniteSet(Vouchers), Init
  PROVE  StockAccounted
<1>1. ASSUME NEW b \in Bins
      PROVE  led[b].qty = SumFunctionOnSet(InForce(b), Vouchers)
  <2>1. \A v \in Vouchers : InForce(b)[v] = 0
    BY DEF Init, InForce
  <2>2. SumFunctionOnSet(InForce(b), Vouchers) = 0
    BY <2>1, SumOfZeros
  <2> QED BY <2>2 DEF Init, NoTotals
<1> QED BY <1>1 DEF Init, StockAccounted, Busy, Idle

\* Whatever was received, moved, counted and cancelled on the way, the stock is
\* gone when no document counts any more.
THEOREM CancellingEmptiesStock ==
  ASSUME AllPriced, ~SameVoucherTwice, IsFiniteSet(Vouchers)
  PROVE  Spec => []CancelledStockIsGone
<1>1. TypeOK /\ CopiesAreFresh /\ [Next]_vars => CopiesAreFresh'
  BY FreshStep
<1>2. TypeOK /\ AccountsFollow /\ StockAccounted /\ [Next]_vars => StockAccounted'
  BY AccountStep
<1>3. Init => StockAccounted
  BY AccountInit
<1>4. SoundBins /\ CopiesAreFresh /\ StockAccounted => CancelledStockIsGone
  <2> SUFFICES ASSUME SoundBins, CopiesAreFresh, StockAccounted,
                      \A v \in Vouchers : doc[v] # "submitted", NEW b \in Bins
               PROVE  bin[b].qty = 0 /\ bin[b].value = 0
    BY DEF CancelledStockIsGone
  <2>1. \A v \in Vouchers : InForce(b)[v] = 0
    BY DEF InForce
  <2>2. led[b].qty = 0
    BY <2>1, SumOfZeros DEF StockAccounted
  <2>3. bin[b].qty = 0
    BY <2>2 DEF CopiesAreFresh
  <2> QED BY <2>3 DEF SoundBins, SoundBin
<1> QED
  BY <1>1, <1>2, <1>3, <1>4, FreshInit, FollowInit, FollowStep, SoundAlways, TypeCorrect, PTL DEF Spec

-----------------------------------------------------------------------------
(* Serial numbers: what the numbers and the vouchers say of each other.      *)

NumberRow == [status : {"Unknown", "In Stock", "Delivered", "Returned"}, at : Places \cup {NoPlace},
              delivery : Papers \cup {NoPaper}, purchase : Papers \cup {NoPaper}]
Errand == [paper : Papers, op : {"submit", "cancel"}, read : [Numbers -> NumberRow]]
Numbered(p) == DOMAIN RowFor[p]
Sends(p) == KindOf[p] \in {"Issue", "Supplier return"}
Out(k) == errand[k] # Unasked

\* SerialsFollowVouchers takes that every delivery ships from one warehouse
OneWarehouse ==
  \A p \in Papers : KindOf[p] = "Delivery" =>
    \A n, m \in Numbered(p) : RowFor[p][n] = RowFor[p][m]

\* a number without a voucher has none of its columns
Blanks == \A n \in Numbers : Is(number[n], "Unknown") => number[n] = Unknown

\* a number names a delivery, from whose warehouse it left, or a receipt
Links ==
  \A n \in Numbers :
    /\ Is(number[n], "Delivered") =>
         LET d == number[n].delivery IN
         d \in Papers /\ KindOf[d] = "Delivery" /\ n \in Numbered(d) /\ number[n].at = RowFor[d][n]
    /\ ~Is(number[n], "Unknown") => number[n].purchase \in Papers /\ KindOf[number[n].purchase] = "Receipt"

\* what a submitted receipt, issue or return did to its numbers
Holds(p) ==
  \A n \in Numbered(p) :
    /\ KindOf[p] = "Receipt" => ~Is(number[n], "Unknown") /\ number[n].purchase = p
    /\ Sends(p) => Is(number[n], "Returned")
    /\ KindOf[p] = "Customer return" =>
         paper[Returned[p]] = "Submitted" /\ n \in Numbered(Returned[p])
Done == \A p \in Papers : paper[p] = "Submitted" => Holds(p)

\* a number is sent back once, and comes back once from a delivery
Once ==
  \A p, q \in Papers :
    (paper[p] = "Submitted" /\ paper[q] = "Submitted" /\ Numbered(p) \cap Numbered(q) # {}) =>
      /\ Sends(p) /\ Sends(q) => p = q
      /\ KindOf[p] = "Customer return" /\ KindOf[q] = "Customer return"
           /\ Returned[p] = Returned[q] => p = q

\* nothing is returned before it is delivered
Later == \A p, q \in Papers : Returned[q] = p /\ paper[p] \in {"Absent", "Draft"} => paper[q] = "Absent"

\* a request in flight has its voucher and its bins to itself, and what it read
\* of its numbers is still so, unless it is about to create them
Current(e) ==
  \A n \in Numbered(e.paper) :
    /\ MayTake(e.paper, e.op, e.read[n], RowFor[e.paper][n])
    /\ e.read[n] = number[n] \/ e.read[n] = Unknown
InFlight ==
  /\ errand \in [Keepers -> {Unasked} \cup Errand]
  /\ \A k \in Keepers : Out(k) =>
       /\ errand[k] \in Errand /\ Current(errand[k])
       /\ paper[errand[k].paper] = IF errand[k].op = "submit" THEN "Draft" ELSE "Submitted"
  /\ \A j, k \in Keepers : Out(j) /\ Out(k) /\ j # k =>
       /\ errand[j].paper # errand[k].paper
       /\ BinsOf(errand[j].paper) \cap BinsOf(errand[k].paper) = {}

Vouched == NTypeOK /\ Blanks /\ Links /\ NumbersNameTheirVouchers /\ Done /\ Once /\ Later
KInv == Vouched /\ NumbersFillBins /\ InFlight

-----------------------------------------------------------------------------
(* What a voucher asks of a number, and what it makes of it. *)

LEMMA RowTypes ==
  ASSUME NEW p \in Papers, NEW n \in Numbered(p)
  PROVE  n \in Numbers /\ RowFor[p][n] \in Places /\ RowFor[p][n] \in BinsOf(p)
<1>1. RowFor[p] \in [Numbered(p) -> Places] /\ Numbered(p) \subseteq Numbers
  BY SerialsAssumption DEF Numbered
<1> QED BY <1>1 DEF BinsOf, Numbered

LEMMA PaperTypes ==
  ASSUME NEW p \in Papers
  PROVE  /\ KindOf[p] \in Kinds /\ Target[p] \in Places /\ Returned[p] \in Papers \cup {NoPaper}
         /\ KindOf[p] = "Customer return" => Returned[p] \in Papers /\ KindOf[Returned[p]] = "Delivery"
         /\ KindOf[p] = "Supplier return" => Returned[p] \in Papers /\ KindOf[Returned[p]] = "Receipt"
         /\ KindOf[p] \notin {"Customer return", "Supplier return"} => Returned[p] = NoPaper
<1>1. KindOf[p] \in Kinds /\ Target[p] \in Places
  BY SerialsAssumption
<1>2. Returned[p] \in CASE KindOf[p] = "Customer return" -> Of("Delivery")
                       [] KindOf[p] = "Supplier return" -> Of("Receipt")
                       [] OTHER -> {NoPaper}
  BY SerialsAssumption
<1> QED BY <1>1, <1>2 DEF Of

LEMMA TakenType ==
  ASSUME NEW p \in Papers, NEW op \in {"submit", "cancel"}, NEW x \in NumberRow, NEW s \in Places,
         MayTake(p, op, x, s)
  PROVE  Taken(p, op, x, s) \in NumberRow
<1>1. KindOf[p] \in Kinds /\ Target[p] \in Places /\ Returned[p] \in Papers \cup {NoPaper}
  BY PaperTypes
<1>2. CASE KindOf[p] = "Receipt"
  BY <1>2 DEF Taken, NumberRow, Unknown
<1>3. CASE KindOf[p] = "Delivery"
  BY <1>3 DEF Taken, NumberRow, HomeAgain
<1>4. CASE KindOf[p] = "Customer return"
  BY <1>4, <1>1 DEF Taken, NumberRow
<1>5. CASE Sends(p)
  BY <1>5 DEF Taken, NumberRow, Sends
<1>6. CASE KindOf[p] = "Transfer"
  BY <1>6, <1>1 DEF Taken, NumberRow
<1> QED BY <1>1, <1>2, <1>3, <1>4, <1>5, <1>6 DEF Kinds, Sends

\* the ten transitions of stock_serials.py, y made of x in a row of warehouse s
Transition(p, op, s, x, y) ==
  \/ /\ KindOf[p] = "Receipt" /\ op = "submit" /\ x.status = "Unknown"
     /\ y.status = "In Stock" /\ y.at = s /\ y.delivery = NoPaper /\ y.purchase = p
  \/ /\ KindOf[p] = "Receipt" /\ op = "cancel" /\ x.status = "In Stock" /\ x.at = s
     /\ y = Unknown /\ y.status = "Unknown" /\ y.delivery = NoPaper
  \/ /\ KindOf[p] = "Delivery" /\ op = "submit" /\ x.status = "In Stock" /\ x.at = s
     /\ y.status = "Delivered" /\ y.at = x.at /\ y.delivery = p /\ y.purchase = x.purchase
  \/ /\ KindOf[p] = "Delivery" /\ op = "cancel" /\ x.status = "Delivered" /\ x.delivery = p
     /\ y.status = "In Stock" /\ y.at = x.at /\ y.delivery = NoPaper /\ y.purchase = x.purchase
  \/ /\ KindOf[p] = "Customer return" /\ op = "submit"
     /\ x.status = "Delivered" /\ x.delivery = Returned[p]
     /\ y.status = "In Stock" /\ y.at = s /\ y.delivery = NoPaper /\ y.purchase = x.purchase
  \/ /\ KindOf[p] = "Customer return" /\ op = "cancel" /\ x.status = "In Stock" /\ x.at = s
     /\ y.status = "Delivered" /\ y.at = x.at /\ y.delivery = Returned[p] /\ y.purchase = x.purchase
  \/ /\ Sends(p) /\ op = "submit" /\ x.status = "In Stock" /\ x.at = s
     /\ y.status = "Returned" /\ y.at = x.at /\ y.delivery = x.delivery /\ y.purchase = x.purchase
  \/ /\ Sends(p) /\ op = "cancel" /\ x.status = "Returned"
     /\ y.status = "In Stock" /\ y.at = s /\ y.delivery = x.delivery /\ y.purchase = x.purchase
  \/ /\ KindOf[p] = "Transfer" /\ op = "submit" /\ x.status = "In Stock" /\ x.at = s
     /\ y.status = "In Stock" /\ y.at = Target[p] /\ y.delivery = x.delivery /\ y.purchase = x.purchase
  \/ /\ KindOf[p] = "Transfer" /\ op = "cancel" /\ x.status = "In Stock" /\ x.at = Target[p]
     /\ y.status = "In Stock" /\ y.at = s /\ y.delivery = x.delivery /\ y.purchase = x.purchase

LEMMA TakenMeans ==
  ASSUME NEW p \in Papers, NEW op \in {"submit", "cancel"}, NEW x \in NumberRow, NEW s,
         MayTake(p, op, x, s)
  PROVE  Transition(p, op, s, x, Taken(p, op, x, s))
<1>0. KindOf[p] \in Kinds
  BY SerialsAssumption
<1>1. x = [status |-> x.status, at |-> x.at, delivery |-> x.delivery, purchase |-> x.purchase]
  BY DEF NumberRow
<1>2. CASE KindOf[p] = "Receipt"
  BY <1>2 DEF MayTake, Taken, Unknown, Transition, Is, Here, StillThere
<1>3. CASE KindOf[p] = "Delivery"
  BY <1>1, <1>3 DEF MayTake, Taken, Transition, Is, Here, DeliveredBy, HomeAgain
<1>4. CASE KindOf[p] = "Customer return"
  BY <1>1, <1>4 DEF MayTake, Taken, Transition, Is, Here, DeliveredBy
<1>5. CASE Sends(p)
  BY <1>1, <1>5 DEF MayTake, Taken, Transition, Is, Here, Sends
<1>6. CASE KindOf[p] = "Transfer"
  BY <1>1, <1>6 DEF MayTake, Taken, Transition, Is, Here
<1> QED BY <1>0, <1>2, <1>3, <1>4, <1>5, <1>6 DEF Kinds, Sends

\* what a request needs of a number: that nobody has it yet, or that it is in
\* stock in one of its bins, or out with a delivery of one of them, or sent back
Needs(p, op, x) ==
  \/ x.status = "Unknown"
  \/ x.status = "In Stock" /\ x.at \in BinsOf(p)
  \/ x.status = "Delivered" /\ KindOf[p] = "Delivery" /\ op = "cancel" /\ x.delivery = p
  \/ /\ x.status = "Delivered" /\ KindOf[p] = "Customer return" /\ op = "submit"
     /\ x.delivery = Returned[p]
  \/ x.status = "Returned" /\ Sends(p) /\ op = "cancel"

LEMMA MayTakeMeans ==
  ASSUME NEW p \in Papers, NEW op \in {"submit", "cancel"}, NEW x \in NumberRow,
         NEW n \in Numbered(p), MayTake(p, op, x, RowFor[p][n])
  PROVE  Needs(p, op, x)
<1>1. PICK s : s = RowFor[p][n]
  OBVIOUS
<1>2. PICK y : Transition(p, op, s, x, y)
  BY <1>1, TakenMeans
<1>3. s \in BinsOf(p) /\ (KindOf[p] = "Transfer" => Target[p] \in BinsOf(p))
  BY <1>1, RowTypes DEF BinsOf
<1> QED BY <1>2, <1>3 DEF Transition, Needs

-----------------------------------------------------------------------------
(* Why a request finds its numbers as it read them. *)

LEMMA ReturnsGoHome ==
  ASSUME OneWarehouse, NEW p \in Papers, NEW n \in Numbered(p), Returned[p] \in Papers,
         KindOf[Returned[p]] = "Delivery", n \in Numbered(Returned[p])
  PROVE  RowFor[p][n] = RowFor[Returned[p]][n]
<1> DEFINE s == RowFor[p][n]
           d == Returned[p]
           S == {m \in Numbered(p) : RowFor[p][m] = s}
           T == {m \in Numbered(d) : RowFor[d][m] = s}
<1>1. Cardinality(S) <= Cardinality(T)
  <2>1. s \in Places /\ Returned[p] # NoPaper
    BY RowTypes, SerialsAssumption
  <2>2. RowsAt(p, s) <= RowsAt(d, s)
    BY <2>1, SerialsAssumption
  <2> QED BY <2>2 DEF RowsAt, Numbered
<1>2. IsFiniteSet(S) /\ n \in S
  <2>1. S \subseteq Numbers
    BY RowTypes
  <2> QED BY <2>1, FS_Subset, SerialsAssumption
<1>3. Cardinality(S) \in Nat /\ Cardinality(S) # 0
  BY <1>2, FS_EmptySet, FS_CardinalityType
<1>4. T # {}
  BY <1>1, <1>3, FS_EmptySet
<1>5. PICK m \in Numbered(d) : RowFor[d][m] = s
  BY <1>4
<1> QED BY <1>5 DEF OneWarehouse

\* two requests in flight never need the same number
LEMMA NumbersApart ==
  ASSUME OneWarehouse, KInv, NEW j \in Keepers, NEW k \in Keepers, j # k, Out(j), Out(k),
         NEW n \in Numbered(errand[j].paper), n \in Numbered(errand[k].paper),
         errand[j].read[n] = number[n], errand[k].read[n] = number[n], ~Is(number[n], "Unknown")
  PROVE  FALSE
<1> DEFINE p == errand[j].paper
           q == errand[k].paper
           x == number[n]
<1>1. /\ n \in Numbered(p) /\ n \in Numbered(q)
      /\ p \in Papers /\ q \in Papers /\ p # q /\ BinsOf(p) \cap BinsOf(q) = {}
      /\ errand[j].op \in {"submit", "cancel"} /\ errand[k].op \in {"submit", "cancel"}
      /\ errand[j].op = "cancel" => paper[p] = "Submitted"
      /\ errand[k].op = "cancel" => paper[q] = "Submitted"
      /\ MayTake(p, errand[j].op, x, RowFor[p][n]) /\ MayTake(q, errand[k].op, x, RowFor[q][n])
  BY DEF KInv, InFlight, Errand, Current
<1>2. n \in Numbers /\ x \in NumberRow
  BY <1>1, RowTypes DEF KInv, Vouched, NTypeOK, NumberRow
<1>3. RowFor[p][n] \in BinsOf(p) /\ RowFor[q][n] \in BinsOf(q)
  BY <1>1, RowTypes
<1> HIDE DEF p, q, x
<1>a. PICK a, b : a = errand[j].op /\ b = errand[k].op
  OBVIOUS
<1>b. Needs(p, a, x) /\ Needs(q, b, x)
  BY <1>1, <1>2, <1>a, MayTakeMeans
<1>4. CASE x.status = "In Stock"
  BY <1>1, <1>b, <1>4 DEF Needs
<1>5. CASE x.status = "Delivered"
  <2>1. /\ x.delivery \in Papers /\ KindOf[x.delivery] = "Delivery" /\ n \in Numbered(x.delivery)
    BY <1>2, <1>5 DEF KInv, Vouched, Links, Is, x
  <2>2. \/ KindOf[p] = "Delivery" /\ x.delivery = p
        \/ KindOf[p] = "Customer return" /\ x.delivery = Returned[p]
    BY <1>b, <1>5 DEF Needs
  <2>3. \/ KindOf[q] = "Delivery" /\ x.delivery = q
        \/ KindOf[q] = "Customer return" /\ x.delivery = Returned[q]
    BY <1>b, <1>5 DEF Needs
  <2>4. RowFor[p][n] = RowFor[x.delivery][n] /\ RowFor[q][n] = RowFor[x.delivery][n]
    BY <1>1, <2>1, <2>2, <2>3, ReturnsGoHome
  <2> QED BY <1>1, <1>3, <2>4
<1>6. CASE x.status = "Returned"
  <2>1. Sends(p) /\ Sends(q) /\ paper[p] = "Submitted" /\ paper[q] = "Submitted"
    BY <1>1, <1>a, <1>b, <1>6 DEF Needs
  <2> QED BY <1>1, <2>1 DEF KInv, Vouched, Once
<1>7. x.status # "Unknown"
  BY DEF Is, x
<1> QED BY <1>2, <1>4, <1>5, <1>6, <1>7 DEF NumberRow

LEMMA WrittenAlone ==
  ASSUME NEW now \in NumberRow, NEW new \in NumberRow
  PROVE  Written(now, now, new) = new
BY DEF Written, NumberRow

\* so a request writes as if it read, checked and wrote in one step
Posts(p, op) ==
  /\ p \in Papers /\ op \in {"submit", "cancel"}
  /\ paper[p] = IF op = "submit" THEN "Draft" ELSE "Submitted"
  /\ paper' = [paper EXCEPT ![p] = IF op = "submit" THEN "Submitted" ELSE "Cancelled"]
  /\ number' = [n \in Numbers |-> number'[n]]
  /\ \A n \in Numbers \ Numbered(p) : number'[n] = number[n]
  /\ \A n \in Numbered(p) : /\ MayTake(p, op, number[n], RowFor[p][n])
                            /\ Transition(p, op, RowFor[p][n], number[n], number'[n])
                            /\ number'[n] \in NumberRow

LEMMA KeepPosts ==
  ASSUME KInv, NEW k \in Keepers, Keep(k)
  PROVE  /\ Posts(errand[k].paper, errand[k].op)
         /\ \A n \in Numbered(errand[k].paper) : errand[k].read[n] = number[n]
         /\ onHand' = [s \in Places |->
              onHand[s] + IF errand[k].op = "submit" THEN Brought(errand[k].paper, s)
                          ELSE -Brought(errand[k].paper, s)]
         /\ errand' = [errand EXCEPT ![k] = Unasked]
<1> DEFINE e == errand[k]
           p == e.paper
           new == [n \in Numbered(p) |-> Taken(p, e.op, e.read[n], RowFor[p][n])]
<1>1. /\ e \in Errand /\ Current(e) /\ paper[p] = IF e.op = "submit" THEN "Draft" ELSE "Submitted"
      /\ p \in Papers /\ e.op \in {"submit", "cancel"}
  BY DEF KInv, InFlight, Keep, Out, Errand
<1>2. /\ \A n \in Numbered(p) : Is(e.read[n], "Unknown") => Is(number[n], "Unknown")
      /\ number' = [n \in Numbers |->
           IF n \in Numbered(p) THEN Written(number[n], e.read[n], new[n]) ELSE number[n]]
      /\ onHand' = [s \in Places |->
           onHand[s] + IF e.op = "submit" THEN Brought(p, s) ELSE -Brought(p, s)]
      /\ paper' = [paper EXCEPT ![p] = IF e.op = "submit" THEN "Submitted" ELSE "Cancelled"]
      /\ errand' = [errand EXCEPT ![k] = Unasked]
  BY DEF Keep, Numbered
<1>3. ASSUME NEW n \in Numbered(p)
      PROVE  /\ e.read[n] = number[n] /\ MayTake(p, e.op, number[n], RowFor[p][n])
             /\ number'[n] \in NumberRow
             /\ Transition(p, e.op, RowFor[p][n], number[n], number'[n])
  <2>1. n \in Numbers /\ RowFor[p][n] \in Places
    BY <1>1, RowTypes
  <2>2. number[n] \in NumberRow
    BY <2>1 DEF KInv, Vouched, NTypeOK, NumberRow
  <2>3. e.read[n] \in NumberRow
    BY <1>1, <2>1 DEF Errand
  <2>4. e.read[n] = number[n] /\ MayTake(p, e.op, e.read[n], RowFor[p][n])
    <3>1. CASE e.read[n] = Unknown
      <4>1. number[n] = Unknown
        BY <1>2, <2>1, <3>1 DEF KInv, Vouched, Blanks, Is, Unknown
      <4> QED BY <1>1, <3>1, <4>1 DEF Current
    <3> QED BY <1>1, <3>1 DEF Current
  <2>5. number'[n] = Taken(p, e.op, number[n], RowFor[p][n])
    <3>1. Taken(p, e.op, number[n], RowFor[p][n]) \in NumberRow
      BY <1>1, <2>1, <2>2, <2>4, TakenType
    <3>2. number'[n] = Written(number[n], number[n], Taken(p, e.op, number[n], RowFor[p][n]))
      BY <1>2, <2>1, <2>4
    <3> QED BY <2>2, <3>1, <3>2, WrittenAlone
  <2> QED BY <1>1, <2>1, <2>2, <2>4, <2>5, TakenMeans, TakenType
<1>4. \A n \in Numbers \ Numbered(p) : number'[n] = number[n]
  BY <1>2
<1> QED BY <1>1, <1>2, <1>3, <1>4 DEF Posts

-----------------------------------------------------------------------------
(* A voucher that is posted or cancelled in one step keeps what the numbers *)
(* and the vouchers say of each other.                                      *)

LEMMA PostsKeepsRows ==
  ASSUME Vouched, NEW p, NEW op, Posts(p, op)
  PROVE  /\ number' \in [Numbers -> NumberRow]
         /\ Blanks'
         /\ \A n \in Numbers : ~Is(number[n], "Delivered") => number[n].delivery = NoPaper
<1>1. \A n \in Numbers : number[n] \in NumberRow
  BY DEF Vouched, NTypeOK, NumberRow
<1>2. ASSUME NEW n \in Numbers PROVE number'[n] \in NumberRow
  BY <1>1 DEF Posts
<1>3. number' \in [Numbers -> NumberRow]
  BY <1>2 DEF Posts
<1>4. ASSUME NEW n \in Numbers, Is(number'[n], "Unknown") PROVE number'[n] = Unknown
  <2>1. CASE n \in Numbered(p)
    BY <1>4, <2>1 DEF Posts, Transition, Is
  <2>2. CASE n \notin Numbered(p)
    BY <1>4, <2>2 DEF Posts, Vouched, Blanks, Is
  <2> QED BY <2>1, <2>2
<1> QED BY <1>3, <1>4 DEF Blanks, Vouched, NumbersNameTheirVouchers

LEMMA PostsKeepsLinks ==
  ASSUME OneWarehouse, Vouched, NEW p, NEW op, Posts(p, op)
  PROVE  Links'
<1>1. \A n \in Numbers : number[n] \in NumberRow
  BY DEF Vouched, NTypeOK, NumberRow
<1> SUFFICES ASSUME NEW n \in Numbers
             PROVE  /\ Is(number'[n], "Delivered") =>
                         LET d == number'[n].delivery IN
                         /\ d \in Papers /\ KindOf[d] = "Delivery" /\ n \in Numbered(d)
                         /\ number'[n].at = RowFor[d][n]
                    /\ ~Is(number'[n], "Unknown") =>
                         number'[n].purchase \in Papers /\ KindOf[number'[n].purchase] = "Receipt"
  BY DEF Links
<1>2. CASE n \notin Numbered(p)
  BY <1>2 DEF Vouched, Links, Posts
<1>3. CASE n \in Numbered(p)
  <2> DEFINE x == number[n]
             y == number'[n]
             s == RowFor[p][n]
  <2>1. p \in Papers /\ op \in {"submit", "cancel"} /\ Transition(p, op, s, x, y)
    BY <1>3 DEF Posts
  <2>2. ~Is(x, "Unknown") => x.purchase \in Papers /\ KindOf[x.purchase] = "Receipt"
    BY DEF Vouched, Links
  <2>3. KindOf[p] = "Customer return" /\ op = "cancel" =>
          /\ Returned[p] \in Papers /\ KindOf[Returned[p]] = "Delivery"
          /\ n \in Numbered(Returned[p]) /\ s = RowFor[Returned[p]][n]
    <3> SUFFICES ASSUME KindOf[p] = "Customer return", op = "cancel"
                 PROVE  /\ Returned[p] \in Papers /\ KindOf[Returned[p]] = "Delivery"
                        /\ n \in Numbered(Returned[p]) /\ s = RowFor[Returned[p]][n]
      OBVIOUS
    <3>1. paper[p] = "Submitted"
      BY DEF Posts
    <3>2. Returned[p] \in Papers /\ KindOf[Returned[p]] = "Delivery"
      BY <2>1, PaperTypes
    <3>3. n \in Numbered(Returned[p])
      BY <1>3, <2>1, <3>1 DEF Vouched, Done, Holds
    <3> QED BY <1>3, <2>1, <3>2, <3>3, ReturnsGoHome
  <2> HIDE DEF x, y, s
  <2>4. y.status # "Unknown" => y.purchase \in Papers /\ KindOf[y.purchase] = "Receipt"
    BY <2>1, <2>2 DEF Transition, Is, Unknown
  <2>5. y.status = "Delivered" =>
          /\ y.delivery \in Papers /\ KindOf[y.delivery] = "Delivery" /\ n \in Numbered(y.delivery)
          /\ y.at = RowFor[y.delivery][n]
    BY <1>3, <2>1, <2>3 DEF Transition, Unknown, s
  <2> QED BY <2>4, <2>5 DEF Is, y
<1> QED BY <1>2, <1>3

\* the vouchers a number names are submitted
LEMMA PostsKeepsNames ==
  ASSUME Vouched, NEW p, NEW op, Posts(p, op)
  PROVE  NumbersNameTheirVouchers'
<1> USE DEF Is
<1>0. p \in Papers /\ op \in {"submit", "cancel"} /\ KindOf[p] \in Kinds
  BY SerialsAssumption DEF Posts
<1>1. /\ paper'[p] = IF op = "submit" THEN "Submitted" ELSE "Cancelled"
      /\ \A q \in Papers \ {p} : paper'[q] = paper[q]
      /\ paper[p] = IF op = "submit" THEN "Draft" ELSE "Submitted"
  BY DEF Posts, Vouched, NTypeOK
<1> SUFFICES ASSUME NEW n \in Numbers
             PROVE  /\ Is(number'[n], "Delivered") =>
                         /\ paper'[number'[n].delivery] = "Submitted"
                         /\ n \in Numbered(number'[n].delivery)
                         /\ \A q \in Papers :
                              Returned[q] = number'[n].delivery /\ n \in Numbered(q) => paper'[q] # "Submitted"
                    /\ ~Is(number'[n], "Delivered") => number'[n].delivery = NoPaper
                    /\ ~Is(number'[n], "Unknown") =>
                         /\ paper'[number'[n].purchase] = "Submitted"
                         /\ n \in Numbered(number'[n].purchase)
  BY DEF NumbersNameTheirVouchers, Numbered
<1> DEFINE x == number[n]
           y == number'[n]
           s == RowFor[p][n]
<1>2. /\ x.status = "Delivered" =>
           /\ x.delivery \in Papers /\ KindOf[x.delivery] = "Delivery"
           /\ paper[x.delivery] = "Submitted" /\ n \in Numbered(x.delivery)
           /\ \A q \in Papers : Returned[q] = x.delivery /\ n \in Numbered(q) => paper[q] # "Submitted"
      /\ x.status # "Delivered" => x.delivery = NoPaper
      /\ x.status # "Unknown" =>
           /\ x.purchase \in Papers /\ KindOf[x.purchase] = "Receipt"
           /\ paper[x.purchase] = "Submitted" /\ n \in Numbered(x.purchase)
  BY DEF Vouched, NumbersNameTheirVouchers, Links, Numbered
\* a number that is not of the voucher
<1>3. CASE n \notin Numbered(p)
  BY <1>1, <1>2, <1>3 DEF Posts
<1>4. CASE n \in Numbered(p)
  <2>1. Transition(p, op, s, x, y)
    BY <1>4 DEF Posts
  <2>2. op = "cancel" => Holds(p)
    BY <1>0, <1>1 DEF Vouched, Done
  \* nothing can have come back of what is delivered now
  <2>3. KindOf[p] = "Delivery" /\ op = "submit" => \A q \in Papers : Returned[q] = p => paper[q] = "Absent"
    BY <1>0, <1>1 DEF Vouched, Later
  <2>4. KindOf[p] = "Customer return" /\ op = "cancel" =>
          /\ Returned[p] \in Papers /\ paper[Returned[p]] = "Submitted" /\ n \in Numbered(Returned[p])
          /\ Returned[p] # p
          /\ \A q \in Papers : Returned[q] = Returned[p] /\ n \in Numbered(q) /\ q # p => paper[q] # "Submitted"
    <3>1. KindOf[p] = "Customer return" => Returned[p] \in Papers /\ KindOf[Returned[p]] = "Delivery"
      BY <1>0, PaperTypes
    <3>2. KindOf[p] = "Customer return" /\ op = "cancel" =>
            paper[p] = "Submitted" /\ paper[Returned[p]] = "Submitted" /\ n \in Numbered(Returned[p])
      BY <1>1, <1>4, <2>2 DEF Holds
    <3>3. ASSUME KindOf[p] = "Customer return", op = "cancel", NEW q \in Papers,
                 Returned[q] = Returned[p], n \in Numbered(q), q # p, paper[q] = "Submitted"
          PROVE  FALSE
      <4>1. KindOf[q] = "Customer return"
        BY <3>1, <3>3, PaperTypes, SerialsAssumption
      <4>2. Numbered(p) \cap Numbered(q) # {}
        BY <1>4, <3>3
      <4> QED BY <1>0, <3>2, <3>3, <4>1, <4>2 DEF Vouched, Once
    <3> QED BY <3>1, <3>2, <3>3
  <2>5. KindOf[p] = "Receipt" /\ op = "cancel" => x.purchase = p
    BY <1>4, <2>2 DEF Holds
  <2> HIDE DEF x, y, s
  <2>6. y.status # "Delivered" => y.delivery = NoPaper
    BY <2>1, <1>2 DEF Transition, Unknown
  <2>7. y.status # "Unknown" => paper'[y.purchase] = "Submitted" /\ n \in Numbered(y.purchase)
    BY <1>0, <1>1, <1>2, <1>4, <2>1 DEF Transition, Unknown, Sends
  <2>8. y.status = "Delivered" =>
          /\ paper'[y.delivery] = "Submitted" /\ n \in Numbered(y.delivery)
          /\ \A q \in Papers : Returned[q] = y.delivery /\ n \in Numbered(q) => paper'[q] # "Submitted"
    BY <1>0, <1>1, <1>2, <1>4, <2>1, <2>3, <2>4 DEF Transition, Unknown
  <2> QED BY <2>6, <2>7, <2>8 DEF y
<1> QED BY <1>3, <1>4

LEMMA PostsKeepsPapers ==
  ASSUME Vouched, NEW p, NEW op, Posts(p, op)
  PROVE  Done' /\ Once' /\ Later' /\ paper' \in [Papers -> {"Absent", "Draft", "Submitted", "Cancelled"}]
<1>0. p \in Papers /\ op \in {"submit", "cancel"} /\ KindOf[p] \in Kinds
  BY SerialsAssumption DEF Posts
<1>1. /\ paper'[p] = IF op = "submit" THEN "Submitted" ELSE "Cancelled"
      /\ \A q \in Papers \ {p} : paper'[q] = paper[q]
      /\ paper[p] = IF op = "submit" THEN "Draft" ELSE "Submitted"
      /\ paper' \in [Papers -> {"Absent", "Draft", "Submitted", "Cancelled"}]
  BY DEF Posts, Vouched, NTypeOK
<1>2. \A n \in Numbered(p) : n \in Numbers /\ Transition(p, op, RowFor[p][n], number[n], number'[n])
  BY <1>0, RowTypes DEF Posts
<1>3. \A n \in Numbers : n \notin Numbered(p) => number'[n] = number[n]
  BY DEF Posts
\* no return against the delivery of a number of p is submitted
<1>4. ASSUME NEW n \in Numbers, number[n].status = "Delivered", NEW q \in Papers,
             Returned[q] = number[n].delivery, n \in Numbered(q)
      PROVE  paper[q] # "Submitted"
  BY <1>4 DEF Vouched, NumbersNameTheirVouchers, Numbered, Is
<1>5. ASSUME NEW n \in Numbers, number[n].status = "Delivered"
      PROVE  /\ number[n].delivery \in Papers /\ KindOf[number[n].delivery] = "Delivery"
             /\ paper[number[n].delivery] = "Submitted" /\ n \in Numbered(number[n].delivery)
  BY <1>5 DEF Vouched, NumbersNameTheirVouchers, Numbered, Is, Links
<1>6. ASSUME NEW q \in Papers, paper'[q] = "Submitted", NEW n \in Numbered(q)
      PROVE  /\ KindOf[q] = "Receipt" => number'[n].status # "Unknown" /\ number'[n].purchase = q
             /\ Sends(q) => number'[n].status = "Returned"
             /\ KindOf[q] = "Customer return" => paper'[Returned[q]] = "Submitted" /\ n \in Numbered(Returned[q])
  <2> DEFINE x == number[n]
             y == number'[n]
             s == RowFor[p][n]
  <2>0. n \in Numbers
    BY RowTypes
  \* the voucher itself
  <2>1. CASE q = p
    <3>1. op = "submit" /\ Transition(p, op, s, x, y)
      BY <1>1, <1>2, <1>6, <2>1
    <3>2. x.status = "Delivered" /\ x.delivery = Returned[p] =>
            /\ KindOf[Returned[p]] = "Delivery" /\ Returned[p] \in Papers
            /\ paper[Returned[p]] = "Submitted" /\ n \in Numbered(Returned[p])
      BY <1>5, <2>0
    <3> HIDE DEF x, y, s
    <3>3. KindOf[p] = "Receipt" => y.status # "Unknown" /\ y.purchase = p
      BY <3>1 DEF Transition, Sends
    <3>4. Sends(p) => y.status = "Returned"
      BY <3>1 DEF Transition, Sends
    <3>5. KindOf[p] = "Customer return" => paper'[Returned[p]] = "Submitted" /\ n \in Numbered(Returned[p])
      <4>1. KindOf[p] = "Customer return" => x.status = "Delivered" /\ x.delivery = Returned[p]
        BY <3>1 DEF Transition, Sends
      <4> QED BY <1>1, <3>2, <4>1
    <3> QED BY <2>1, <3>3, <3>4, <3>5 DEF y
  <2>2. CASE q # p
    <3>1. paper[q] = "Submitted" /\ Holds(q)
      BY <1>1, <1>6, <2>2 DEF Vouched, Done
    <3>2. /\ KindOf[q] = "Receipt" => x.status # "Unknown" /\ x.purchase = q
          /\ Sends(q) => x.status = "Returned"
          /\ KindOf[q] = "Customer return" => paper[Returned[q]] = "Submitted" /\ n \in Numbered(Returned[q])
      BY <3>1 DEF Holds, Is
    \* what it returns is not cancelled
    <3>3. KindOf[q] = "Customer return" => paper'[Returned[q]] = "Submitted"
      <4>1. CASE KindOf[q] = "Customer return" /\ Returned[q] = p
        <5>1. KindOf[p] = "Delivery" /\ op = "cancel" /\ n \in Numbered(p)
          BY <1>0, <1>1, <3>2, <4>1, PaperTypes
        <5>2. x.status = "Delivered" /\ x.delivery = p
          BY <1>2, <5>1 DEF Transition, Sends
        <5> QED BY <1>4, <2>0, <3>1, <4>1, <5>2
      <4>2. KindOf[q] = "Customer return" => Returned[q] \in Papers
        BY PaperTypes
      <4> QED BY <1>1, <3>2, <4>1, <4>2
    <3>4. CASE n \notin Numbered(p)
      BY <1>3, <2>0, <3>2, <3>3, <3>4
    <3>5. CASE n \in Numbered(p)
      <4>1. Transition(p, op, s, x, y)
        BY <1>2, <3>5
      <4>2. KindOf[p] = "Receipt" /\ op = "cancel" => x.purchase = p
        BY <1>0, <1>1, <3>5 DEF Vouched, Done, Holds
      <4>3. ~(Sends(q) /\ Sends(p) /\ op = "cancel")
        BY <1>0, <1>1, <2>2, <3>1, <3>5 DEF Vouched, Once
      <4> HIDE DEF x, y, s
      <4>4. Sends(q) => y.status = "Returned"
        BY <3>2, <4>1, <4>3 DEF Transition
      <4>5. KindOf[q] = "Receipt" => y.status # "Unknown" /\ y.purchase = q
        BY <2>2, <3>2, <4>1, <4>2 DEF Transition
      <4> QED BY <3>2, <3>3, <4>4, <4>5 DEF y
    <3> QED BY <3>4, <3>5
  <2> QED BY <2>1, <2>2
<1>7. Done'
  BY <1>6 DEF Done, Holds, Is
\* no second return of a number
<1>8. ASSUME NEW q \in Papers, paper[q] = "Submitted", op = "submit", NEW n \in Numbered(p), n \in Numbered(q)
      PROVE  /\ ~(Sends(p) /\ Sends(q))
             /\ ~(KindOf[p] = "Customer return" /\ Returned[p] = Returned[q])
  <2> DEFINE x == number[n]
             y == number'[n]
             s == RowFor[p][n]
  <2>1. n \in Numbers /\ Transition(p, op, s, x, y)
    BY <1>2
  <2>2. Sends(q) => x.status = "Returned"
    BY <1>8 DEF Vouched, Done, Holds, Is
  <2>3. ~(x.status = "Delivered" /\ Returned[q] = x.delivery)
    BY <1>4, <1>8, <2>1
  <2> HIDE DEF x, y, s
  <2>4. Sends(p) => x.status = "In Stock"
    BY <1>8, <2>1 DEF Transition, Sends
  <2>5. KindOf[p] = "Customer return" => x.status = "Delivered" /\ x.delivery = Returned[p]
    BY <1>8, <2>1 DEF Transition, Sends
  <2>6. ~(Sends(p) /\ Sends(q))
    BY <2>2, <2>4
  <2>7. ~(KindOf[p] = "Customer return" /\ Returned[p] = Returned[q])
    BY <2>3, <2>5
  <2> QED BY <2>6, <2>7
<1>9. Once'
  <2> SUFFICES ASSUME NEW a \in Papers, NEW b \in Papers, paper'[a] = "Submitted", paper'[b] = "Submitted",
                      Numbered(a) \cap Numbered(b) # {}, a # b
               PROVE  /\ ~(Sends(a) /\ Sends(b))
                      /\ ~(KindOf[a] = "Customer return" /\ KindOf[b] = "Customer return"
                             /\ Returned[a] = Returned[b])
    BY DEF Once
  <2>1. CASE a = p
    BY <1>1, <1>8, <2>1
  <2>2. CASE b = p
    BY <1>1, <1>8, <2>2
  <2>3. CASE a # p /\ b # p
    BY <1>1, <2>3 DEF Vouched, Once
  <2> QED BY <2>1, <2>2, <2>3
<1>10. Later'
  BY <1>0, <1>1 DEF Vouched, Later
<1> QED BY <1>1, <1>7, <1>9, <1>10

-----------------------------------------------------------------------------
(* The bins of the voucher move with its numbers. *)

InBin(s) == {n \in Numbers : Here(number[n], s)}
RowsOf(p, s) == {n \in Numbered(p) : RowFor[p][n] = s}

LEMMA Counts ==
  ASSUME NEW A, NEW B, IsFiniteSet(A), IsFiniteSet(B)
  PROVE  /\ Cardinality(A) \in Nat /\ Cardinality(B) \in Nat
         /\ A \cap B = {} => Cardinality(A \cup B) = Cardinality(A) + Cardinality(B)
         /\ B \subseteq A => Cardinality(A \ B) = Cardinality(A) - Cardinality(B)
<1>1. Cardinality(A) \in Nat /\ Cardinality(B) \in Nat
  BY FS_CardinalityType
<1>2. ASSUME A \cap B = {} PROVE Cardinality(A \cup B) = Cardinality(A) + Cardinality(B)
  <2>1. Cardinality(A \cup B) = Cardinality(A) + Cardinality(B) - Cardinality(A \cap B)
    BY FS_Union
  <2>2. Cardinality(A \cap B) = 0
    BY <1>2, FS_EmptySet
  <2> QED BY <1>1, <2>1, <2>2
<1>3. ASSUME B \subseteq A PROVE Cardinality(A \ B) = Cardinality(A) - Cardinality(B)
  <2>1. Cardinality(A \ B) = Cardinality(A) - Cardinality(A \cap B)
    BY FS_Difference
  <2>2. A \cap B = B
    BY <1>3
  <2> QED BY <2>1, <2>2
<1> QED BY <1>1, <1>2, <1>3

LEMMA PostsKeepsBins ==
  ASSUME Vouched, NumbersFillBins, NEW p, NEW op, Posts(p, op),
         onHand' = [s \in Places |->
           onHand[s] + IF op = "submit" THEN Brought(p, s) ELSE -Brought(p, s)]
  PROVE  NumbersFillBins' /\ onHand' \in [Places -> Int]
<1>0. p \in Papers /\ op \in {"submit", "cancel"} /\ KindOf[p] \in Kinds
  BY SerialsAssumption DEF Posts
<1>1. Numbered(p) \subseteq Numbers /\ IsFiniteSet(Numbered(p))
  <2>1. Numbered(p) \subseteq Numbers
    BY <1>0, RowTypes
  <2> QED BY <2>1, FS_Subset, SerialsAssumption
<1>2. \A n \in Numbered(p) : Transition(p, op, RowFor[p][n], number[n], number'[n])
  BY DEF Posts
<1>3. \A n \in Numbers : n \notin Numbered(p) => number'[n] = number[n]
  BY DEF Posts
\* a delivery is cancelled in the warehouse it left
<1>4. \A n \in Numbered(p) : number[n].status = "Delivered" /\ number[n].delivery = p => number[n].at = RowFor[p][n]
  BY <1>1 DEF Vouched, Links, Is
<1> SUFFICES ASSUME NEW s \in Places
             PROVE  onHand'[s] \in Int /\ onHand'[s] = Cardinality({n \in Numbers : Here(number'[n], s)})
  BY DEF NumbersFillBins, Here
<1> DEFINE B == InBin(s)
           R == RowsOf(p, s)
           N == Numbered(p)
           C == {n \in Numbers : number'[n].status = "In Stock" /\ number'[n].at = s}
<1>5. /\ B = {n \in Numbers : number[n].status = "In Stock" /\ number[n].at = s}
      /\ C = {n \in Numbers : Here(number'[n], s)}
  BY DEF InBin, Here
<1>6. onHand[s] = Cardinality(B) /\ onHand[s] \in Int
  BY DEF Vouched, NTypeOK, NumbersFillBins, InBin
<1>7. IsFiniteSet(B) /\ IsFiniteSet(R) /\ IsFiniteSet(N) /\ R \subseteq N
  <2>1. B \subseteq Numbers /\ R \subseteq N
    BY DEF InBin, RowsOf
  <2> QED BY <1>1, <2>1, FS_Subset, SerialsAssumption
<1>8. R = {n \in N : RowFor[p][n] = s} /\ RowsAt(p, s) = Cardinality(R) /\ Cardinality(DOMAIN RowFor[p]) = Cardinality(N)
  BY DEF RowsOf, RowsAt, Numbered
<1>9. onHand'[s] = onHand[s] + IF op = "submit" THEN Brought(p, s) ELSE -Brought(p, s)
  OBVIOUS
<1> SUFFICES onHand'[s] \in Int /\ onHand'[s] = Cardinality(C)
  BY <1>5
<1> HIDE DEF B, R, N, C
<1>b. PICK c, b, r, m \in Nat : c = Cardinality(C) /\ b = Cardinality(B) /\ r = Cardinality(R) /\ m = Cardinality(N)
  <2>1. IsFiniteSet(C)
    BY <1>5, FS_Subset, SerialsAssumption DEF C
  <2> QED BY <1>7, <2>1, FS_CardinalityType
\* goods that come in
<1>10. CASE \/ KindOf[p] \in {"Receipt", "Customer return"} /\ op = "submit"
            \/ (KindOf[p] = "Delivery" \/ Sends(p)) /\ op = "cancel"
  <2>1. ASSUME NEW n \in N
        PROVE  number[n].status # "In Stock" /\ number'[n].status = "In Stock" /\ number'[n].at = RowFor[p][n]
    BY <1>2, <1>4, <1>10 DEF Transition, Sends, N
  <2>2. B \cap R = {}
    BY <1>5, <1>8, <2>1
  <2>5. C = B \cup R
    <3>1. ASSUME NEW n \in Numbers PROVE n \in C <=> n \in B \/ n \in R
      <4>1. CASE n \in N
        BY <1>5, <1>8, <2>1, <4>1 DEF C
      <4>2. CASE n \notin N
        BY <1>3, <1>5, <1>8, <4>2 DEF C, N
      <4> QED BY <4>1, <4>2
    <3> QED BY <1>1, <1>5, <1>8, <3>1 DEF C, N
  <2>3. Brought(p, s) = IF op = "submit" THEN r ELSE -r
    BY <1>8, <1>b, <1>10 DEF Brought, Sends
  <2>4. c = b + r
    BY <1>7, <1>b, <2>2, <2>5, Counts
  <2> QED BY <1>0, <1>6, <1>9, <1>b, <2>3, <2>4
\* goods that go out
<1>11. CASE \/ KindOf[p] \in {"Receipt", "Customer return"} /\ op = "cancel"
            \/ (KindOf[p] = "Delivery" \/ Sends(p)) /\ op = "submit"
  <2>1. ASSUME NEW n \in N
        PROVE  number[n].status = "In Stock" /\ number'[n].status # "In Stock" /\ number[n].at = RowFor[p][n]
    BY <1>2, <1>11 DEF Transition, Sends, N
  <2>2. R \subseteq B
    BY <1>1, <1>5, <1>8, <2>1 DEF N
  <2>5. C = B \ R
    <3>1. ASSUME NEW n \in Numbers PROVE n \in C <=> n \in B /\ n \notin R
      <4>1. CASE n \in N
        BY <1>5, <1>8, <2>1, <4>1 DEF C
      <4>2. CASE n \notin N
        BY <1>3, <1>5, <1>8, <4>2 DEF C, N
      <4> QED BY <4>1, <4>2
    <3> QED BY <1>5, <3>1 DEF C
  <2>3. Brought(p, s) = IF op = "submit" THEN -r ELSE r
    BY <1>8, <1>b, <1>11 DEF Brought, Sends
  <2>4. c = b - r
    BY <1>7, <1>b, <2>2, <2>5, Counts
  <2> QED BY <1>0, <1>6, <1>9, <1>b, <2>3, <2>4
\* goods that move
<1>12. CASE KindOf[p] = "Transfer"
  <2>0. Brought(p, s) = (IF s = Target[p] THEN m ELSE 0) - r
    BY <1>8, <1>b, <1>12 DEF Brought
  <2>1. CASE op = "submit"
    <3>1. ASSUME NEW n \in N
          PROVE  /\ number[n].status = "In Stock" /\ number[n].at = RowFor[p][n]
                 /\ number'[n].status = "In Stock" /\ number'[n].at = Target[p]
      BY <1>2, <1>12, <2>1 DEF Transition, Sends, N
    <3>2. R \subseteq B /\ (B \ R) \cap N = {} /\ C = (B \ R) \cup (IF s = Target[p] THEN N ELSE {})
      BY <1>1, <1>3, <1>5, <1>8, <3>1 DEF C, N
    <3>3. /\ IsFiniteSet(B \ R) /\ Cardinality(B \ R) = b - r
          /\ Cardinality((B \ R) \cup N) = Cardinality(B \ R) + m
      BY <1>7, <1>b, <3>2, Counts, FS_Difference
    <3>4. c = b - r + IF s = Target[p] THEN m ELSE 0
      <4>1. CASE s = Target[p]
        BY <1>b, <3>2, <3>3, <4>1
      <4>2. CASE s # Target[p]
        <5>1. C = B \ R
          BY <3>2, <4>2
        <5> QED BY <1>b, <3>3, <4>2, <5>1
      <4> QED BY <4>1, <4>2
    <3> QED BY <1>6, <1>9, <1>b, <2>0, <2>1, <3>4
  <2>2. CASE op = "cancel"
    <3>1. ASSUME NEW n \in N
          PROVE  /\ number[n].status = "In Stock" /\ number[n].at = Target[p]
                 /\ number'[n].status = "In Stock" /\ number'[n].at = RowFor[p][n]
      BY <1>2, <1>12, <2>2 DEF Transition, Sends, N
    <3>2. CASE s = Target[p]
      <4>1. N \subseteq B /\ (B \ N) \cap R = {} /\ C = (B \ N) \cup R
        BY <1>1, <1>3, <1>5, <1>7, <1>8, <3>1, <3>2 DEF C, N
      <4>2. /\ IsFiniteSet(B \ N) /\ Cardinality(B \ N) = b - m
            /\ Cardinality((B \ N) \cup R) = Cardinality(B \ N) + r
        BY <1>7, <1>b, <4>1, Counts, FS_Difference
      <4>3. c = b - m + r
        BY <1>b, <4>1, <4>2
      <4> QED BY <1>6, <1>9, <1>b, <2>0, <2>2, <3>2, <4>3
    <3>3. CASE s # Target[p]
      <4>1. B \cap R = {} /\ C = B \cup R
        BY <1>1, <1>3, <1>5, <1>7, <1>8, <3>1, <3>3 DEF C, N
      <4>2. c = b + r
        BY <1>7, <1>b, <4>1, Counts
      <4> QED BY <1>6, <1>9, <1>b, <2>0, <2>2, <3>3, <4>2
    <3> QED BY <3>2, <3>3
  <2> QED BY <1>0, <2>1, <2>2
<1> QED BY <1>0, <1>10, <1>11, <1>12 DEF Kinds, Sends

-----------------------------------------------------------------------------
(* The steps of a request. *)

LEMMA KeepKeeps ==
  ASSUME OneWarehouse, KInv, NEW k \in Keepers, Keep(k)
  PROVE  KInv'
<1> DEFINE p == errand[k].paper
           op == errand[k].op
<1>1. /\ Posts(p, op)
      /\ \A n \in Numbered(p) : errand[k].read[n] = number[n]
      /\ onHand' = [s \in Places |-> onHand[s] + IF op = "submit" THEN Brought(p, s) ELSE -Brought(p, s)]
      /\ errand' = [errand EXCEPT ![k] = Unasked]
  BY KeepPosts
<1>2. Vouched /\ NumbersFillBins /\ InFlight /\ Out(k)
  BY DEF KInv, Keep, Out
<1>3. Vouched'
  <2> HIDE DEF p, op
  <2>1. number' \in [Numbers -> NumberRow] /\ Blanks'
    BY <1>1, <1>2, PostsKeepsRows
  <2>2. Links'
    BY <1>1, <1>2, PostsKeepsLinks
  <2>3. NumbersNameTheirVouchers'
    BY <1>1, <1>2, PostsKeepsNames
  <2>4. Done' /\ Once' /\ Later' /\ paper' \in [Papers -> {"Absent", "Draft", "Submitted", "Cancelled"}]
    BY <1>1, <1>2, PostsKeepsPapers
  <2>5. onHand' \in [Places -> Int]
    BY <1>1, <1>2, PostsKeepsBins
  <2> QED BY <2>1, <2>2, <2>3, <2>4, <2>5 DEF Vouched, NTypeOK, NumberRow
<1>4. NumbersFillBins'
  <2> HIDE DEF p, op
  <2> QED BY <1>1, <1>2, PostsKeepsBins
<1>5. InFlight'
  <2>1. errand \in [Keepers -> {Unasked} \cup Errand]
    BY <1>2 DEF InFlight
  <2>2. /\ errand' \in [Keepers -> {Unasked} \cup Errand]
        /\ errand'[k] = Unasked /\ \A j \in Keepers \ {k} : errand'[j] = errand[j]
    BY <1>1, <2>1
  <2>3. paper' = [paper EXCEPT ![p] = IF op = "submit" THEN "Submitted" ELSE "Cancelled"]
    BY <1>1 DEF Posts
  <2>4. ASSUME NEW j \in Keepers \ {k}, Out(j), NEW n \in Numbered(errand[j].paper)
        PROVE  errand[j].read[n] = number'[n] \/ errand[j].read[n] = Unknown
    <3>1. errand[j].read[n] = number[n] \/ errand[j].read[n] = Unknown
      BY <1>2, <2>4 DEF InFlight, Current
    <3>2. n \in Numbers
      BY <1>2, <2>4, RowTypes DEF InFlight, Errand
    <3>3. CASE n \in Numbered(p) /\ errand[j].read[n] = number[n]
      <4>1. Is(number[n], "Unknown")
        BY <1>1, <1>2, <2>4, <3>3, NumbersApart
      <4> QED BY <1>2, <3>2, <3>3, <4>1 DEF Vouched, Blanks
    <3>4. CASE n \notin Numbered(p)
      BY <1>1, <3>1, <3>2, <3>4 DEF Posts
    <3> QED BY <3>1, <3>3, <3>4
  <2>5. ASSUME NEW j \in Keepers \ {k}, Out(j)
        PROVE  /\ errand[j] \in Errand /\ Current(errand[j])'
               /\ paper'[errand[j].paper] = IF errand[j].op = "submit" THEN "Draft" ELSE "Submitted"
    <3>1. /\ errand[j] \in Errand /\ Current(errand[j]) /\ errand[j].paper # p
          /\ paper[errand[j].paper] = IF errand[j].op = "submit" THEN "Draft" ELSE "Submitted"
      BY <1>2, <2>5 DEF InFlight
    <3>2. errand'[j] = errand[j]
      BY <2>2
    <3>3. \A n \in Numbered(errand[j].paper) : MayTake(errand[j].paper, errand[j].op, errand[j].read[n], RowFor[errand[j].paper][n])
      BY <3>1 DEF Current
    <3>4. \A n \in Numbered(errand[j].paper) : errand[j].read[n] = number'[n] \/ errand[j].read[n] = Unknown
      BY <2>4, <2>5
    <3>5. Current(errand[j])'
      BY <3>2, <3>3, <3>4 DEF Current
    <3>6. errand[j].paper \in Papers /\ paper'[errand[j].paper] = paper[errand[j].paper]
      BY <1>2, <2>3, <3>1 DEF Errand, Vouched, NTypeOK
    <3> QED BY <3>1, <3>5, <3>6
  <2>6. \A j \in Keepers : Out(j)' => j # k /\ Out(j) /\ errand'[j] = errand[j]
    BY <2>2 DEF Out
  <2>7. \A j \in Keepers : Out(j)' =>
          /\ errand'[j] \in Errand /\ Current(errand[j])'
          /\ paper'[errand'[j].paper] = IF errand'[j].op = "submit" THEN "Draft" ELSE "Submitted"
    BY <2>5, <2>6
  <2>8. \A i, j \in Keepers : Out(i)' /\ Out(j)' /\ i # j =>
          /\ errand'[i].paper # errand'[j].paper
          /\ BinsOf(errand'[i].paper) \cap BinsOf(errand'[j].paper) = {}
    BY <1>2, <2>6 DEF InFlight
  <2> QED BY <2>2, <2>7, <2>8 DEF InFlight
<1> QED BY <1>3, <1>4, <1>5 DEF KInv

\* a step that leaves the columns alone
LEMMA VouchedStays ==
  ASSUME KInv, UNCHANGED <<number, onHand, paper>>
  PROVE  Vouched' /\ NumbersFillBins'
<1>1. number' = number /\ onHand' = onHand /\ paper' = paper
  OBVIOUS
<1>2. NTypeOK'
  BY <1>1 DEF KInv, Vouched, NTypeOK
<1>3. Blanks'
  BY <1>1 DEF KInv, Vouched, Blanks
<1>4. Links'
  BY <1>1 DEF KInv, Vouched, Links
<1>5. NumbersNameTheirVouchers'
  BY <1>1 DEF KInv, Vouched, NumbersNameTheirVouchers
<1>6. Done'
  BY <1>1 DEF KInv, Vouched, Done, Holds
<1>7. Once'
  BY <1>1 DEF KInv, Vouched, Once
<1>8. Later'
  BY <1>1 DEF KInv, Vouched, Later
<1>9. NumbersFillBins'
  BY <1>1 DEF KInv, NumbersFillBins
<1> QED BY <1>2, <1>3, <1>4, <1>5, <1>6, <1>7, <1>8, <1>9 DEF Vouched

LEMMA TakeKeeps ==
  ASSUME KInv, NEW k \in Keepers, NEW p \in Papers, NEW op \in {"submit", "cancel"}, Take(k, p, op)
  PROVE  KInv'
<1> DEFINE e == [paper |-> p, op |-> op, read |-> number]
<1>1. /\ errand[k] = Unasked /\ \A j \in Keepers : errand[j] # Unasked => errand[j].paper # p
      /\ paper[p] = IF op = "submit" THEN "Draft" ELSE "Submitted"
      /\ \A j \in Keepers : errand[j] # Unasked => BinsOf(errand[j].paper) \cap BinsOf(p) = {}
      /\ \A n \in Numbered(p) : MayTake(p, op, number[n], RowFor[p][n])
      /\ errand' = [errand EXCEPT ![k] = e] /\ UNCHANGED <<number, onHand, paper>>
  BY DEF Take, BinsFree, Numbered
<1>2. Vouched' /\ NumbersFillBins'
  BY <1>1, VouchedStays
<1>3. errand \in [Keepers -> {Unasked} \cup Errand] /\ e \in Errand
  BY DEF KInv, InFlight, Vouched, NTypeOK, Errand, NumberRow
<1>4. /\ errand' \in [Keepers -> {Unasked} \cup Errand]
      /\ errand'[k] = e /\ \A j \in Keepers \ {k} : errand'[j] = errand[j]
  BY <1>1, <1>3
<1>5. ASSUME NEW j \in Keepers, Out(j)'
      PROVE  /\ errand'[j] \in Errand
             /\ paper'[errand'[j].paper] = IF errand'[j].op = "submit" THEN "Draft" ELSE "Submitted"
             /\ \A n \in Numbered(errand'[j].paper) :
                  /\ MayTake(errand'[j].paper, errand'[j].op, errand'[j].read[n], RowFor[errand'[j].paper][n])
                  /\ errand'[j].read[n] = number'[n] \/ errand'[j].read[n] = Unknown
  <2>1. CASE j = k
    BY <1>1, <1>3, <1>4, <2>1
  <2>2. CASE j # k
    BY <1>1, <1>4, <1>5, <2>2 DEF KInv, InFlight, Current, Out
  <2> QED BY <2>1, <2>2
<1>6. ASSUME NEW i \in Keepers, NEW j \in Keepers, Out(i)', Out(j)', i # j
      PROVE  errand'[i].paper # errand'[j].paper /\ BinsOf(errand'[i].paper) \cap BinsOf(errand'[j].paper) = {}
  <2>1. CASE i = k
    BY <1>1, <1>4, <1>6, <2>1 DEF Out
  <2>2. CASE j = k
    BY <1>1, <1>4, <1>6, <2>2 DEF Out
  <2>3. CASE i # k /\ j # k
    BY <1>4, <1>6, <2>3 DEF Out, KInv, InFlight
  <2> QED BY <2>1, <2>2, <2>3
<1>7. InFlight'
  BY <1>4, <1>5, <1>6 DEF InFlight, Current
<1> QED BY <1>2, <1>7 DEF KInv

LEMMA AbortKeeps ==
  ASSUME KInv, NEW k \in Keepers, Abort(k)
  PROVE  KInv'
<1>1. Vouched' /\ NumbersFillBins'
  BY VouchedStays DEF Abort
<1>2. errand \in [Keepers -> {Unasked} \cup Errand]
  BY DEF KInv, InFlight
<1>3. /\ errand' \in [Keepers -> {Unasked} \cup Errand] /\ UNCHANGED <<number, paper>>
      /\ \A j \in Keepers : Out(j)' => Out(j) /\ errand'[j] = errand[j]
  BY <1>2 DEF Abort, Out
<1>4. /\ \A j \in Keepers : Out(j)' =>
           /\ errand[j] \in Errand /\ Current(errand[j])'
           /\ paper'[errand'[j].paper] = IF errand'[j].op = "submit" THEN "Draft" ELSE "Submitted"
  BY <1>3 DEF KInv, InFlight, Current
<1>5. \A i, j \in Keepers : Out(i)' /\ Out(j)' /\ i # j =>
        errand'[i].paper # errand'[j].paper /\ BinsOf(errand'[i].paper) \cap BinsOf(errand'[j].paper) = {}
  BY <1>3 DEF KInv, InFlight
<1>6. InFlight'
  BY <1>3, <1>4, <1>5 DEF InFlight, Current
<1> QED BY <1>1, <1>6 DEF KInv

LEMMA WritePaperKeeps ==
  ASSUME KInv, NEW p \in Papers, WritePaper(p)
  PROVE  KInv'
<1>1. /\ paper[p] = "Absent"
      /\ Returned[p] # NoPaper => paper[Returned[p]] = "Submitted"
      /\ paper' = [paper EXCEPT ![p] = "Draft"] /\ UNCHANGED <<number, onHand, errand>>
  BY DEF WritePaper
<1>2. /\ paper' \in [Papers -> {"Absent", "Draft", "Submitted", "Cancelled"}]
      /\ paper'[p] = "Draft" /\ \A q \in Papers \ {p} : paper'[q] = paper[q]
      /\ \A q \in Papers : paper'[q] = "Submitted" <=> paper[q] = "Submitted"
  <2>1. paper \in [Papers -> {"Absent", "Draft", "Submitted", "Cancelled"}]
    BY DEF KInv, Vouched, NTypeOK
  <2> QED BY <1>1, <2>1
<1>3. NTypeOK' /\ Blanks' /\ Links' /\ NumbersFillBins'
  <2>1. NTypeOK'
    BY <1>1, <1>2 DEF KInv, Vouched, NTypeOK
  <2>2. Blanks'
    BY <1>1 DEF KInv, Vouched, Blanks
  <2>3. Links'
    BY <1>1 DEF KInv, Vouched, Links
  <2>4. NumbersFillBins'
    BY <1>1 DEF KInv, NumbersFillBins
  <2> QED BY <2>1, <2>2, <2>3, <2>4
<1>4. NumbersNameTheirVouchers'
  BY <1>1, <1>2 DEF KInv, Vouched, Links, NumbersNameTheirVouchers
<1>5. Done'
  <2>1. ASSUME NEW q \in Papers, paper'[q] = "Submitted" PROVE Holds(q)'
    <3>1. paper[q] = "Submitted" /\ Holds(q)
      BY <1>2, <2>1 DEF KInv, Vouched, Done
    <3>2. KindOf[q] = "Customer return" => Returned[q] \in Papers
      BY PaperTypes
    <3>3. number' = number
      BY <1>1
    <3> QED BY <1>2, <3>1, <3>2, <3>3 DEF Holds
  <2> QED BY <2>1 DEF Done
<1>6. Once'
  BY <1>2 DEF KInv, Vouched, Once
<1>7. Later'
  <2> SUFFICES ASSUME NEW r \in Papers, NEW q \in Papers, Returned[q] = r, paper'[r] \in {"Absent", "Draft"}
               PROVE  paper'[q] = "Absent"
    BY DEF Later
  <2>1. paper[r] \in {"Absent", "Draft"}
    BY <1>1, <1>2
  <2>2. paper[q] = "Absent"
    BY <2>1 DEF KInv, Vouched, Later
  <2>3. q # p
    BY <1>1, <2>1, SerialsAssumption
  <2> QED BY <1>2, <2>2, <2>3
<1>8. InFlight'
  <2>1. \A k \in Keepers : Out(k) => errand[k].paper \in Papers /\ errand[k].paper # p
    BY <1>1 DEF KInv, InFlight, Errand
  <2>2. number' = number /\ errand' = errand
    BY <1>1
  <2>3. \A k \in Keepers : Out(k) =>
          paper'[errand[k].paper] = IF errand[k].op = "submit" THEN "Draft" ELSE "Submitted"
    BY <1>2, <2>1 DEF KInv, InFlight
  <2>4. \A k \in Keepers : Out(k) => errand[k] \in Errand /\ Current(errand[k])'
    BY <2>2 DEF KInv, InFlight, Current
  <2> QED BY <2>2, <2>3, <2>4 DEF KInv, InFlight, Current, Out
<1> QED BY <1>3, <1>4, <1>5, <1>6, <1>7, <1>8 DEF KInv, Vouched

LEMMA NInitKInv ==
  ASSUME NInit
  PROVE  KInv
<1>1. NTypeOK
  BY DEF NInit, NTypeOK, Unknown
<1>2. /\ \A n \in Numbers : number[n] = Unknown
      /\ \A p \in Papers : paper[p] = "Absent"
      /\ \A k \in Keepers : errand[k] = Unasked
      /\ errand \in [Keepers -> {Unasked} \cup Errand]
  BY DEF NInit
<1>3. Blanks /\ Links /\ NumbersNameTheirVouchers
  BY <1>2 DEF Blanks, Links, NumbersNameTheirVouchers, Is, Unknown
<1>6. Done /\ Once /\ Later
  BY <1>2 DEF Done, Once, Later
<1>4. NumbersFillBins
  <2>1. ASSUME NEW s \in Places PROVE {n \in Numbers : Here(number[n], s)} = {}
    <3>1. Unknown.status # "In Stock"
      BY DEF Unknown
    <3> QED BY <1>2, <3>1 DEF Here
  <2> QED BY <2>1, FS_EmptySet DEF NInit, NumbersFillBins
<1>5. InFlight
  BY <1>2 DEF InFlight, Out
<1> QED BY <1>1, <1>3, <1>4, <1>5, <1>6 DEF KInv, Vouched

LEMMA NStutters ==
  ASSUME KInv, UNCHANGED nvars
  PROVE  KInv'
<1>1. Vouched' /\ NumbersFillBins'
  BY VouchedStays DEF nvars
<1>2. InFlight'
  BY DEF nvars, KInv, InFlight, Current, Out
<1> QED BY <1>1, <1>2 DEF KInv

\* SerialsFollowVouchers holds for any numbers, vouchers and requests, if every
\* delivery ships from one warehouse; SerialsSplit.cfg shows that it takes that.
THEOREM SerialsFollow ==
  ASSUME OneWarehouse
  PROVE  NSpec => []SerialsFollowVouchers
<1>1. NInit => KInv
  BY NInitKInv
<1>2. ASSUME KInv, [NNext]_nvars
      PROVE  KInv'
  <2>1. ASSUME NEW p \in Papers, WritePaper(p) PROVE KInv'
    BY <1>2, <2>1, WritePaperKeeps
  <2>2. ASSUME NEW k \in Keepers, NEW p \in Papers, NEW op \in {"submit", "cancel"}, Take(k, p, op) PROVE KInv'
    BY <1>2, <2>2, TakeKeeps
  <2>3. ASSUME NEW k \in Keepers, Keep(k) PROVE KInv'
    BY <1>2, <2>3, KeepKeeps
  <2>4. ASSUME NEW k \in Keepers, Abort(k) PROVE KInv'
    BY <1>2, <2>4, AbortKeeps
  <2>5. CASE UNCHANGED nvars
    BY <1>2, <2>5, NStutters
  <2> QED BY <1>2, <2>1, <2>2, <2>3, <2>4, <2>5 DEF NNext
<1>3. KInv => SerialsFollowVouchers
  BY DEF KInv, Vouched, SerialsFollowVouchers
<1> QED BY <1>1, <1>2, <1>3, PTL DEF NSpec
=============================================================================
