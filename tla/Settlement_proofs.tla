-------------------------- MODULE Settlement_proofs --------------------------
(***************************************************************************)
(* Served one request at a time, stored balances do what open-item         *)
(* bookkeeping promises: outstanding amounts are what submitted returns    *)
(* and payments leave, the party ledger agrees with them, and every step   *)
(* is one that OpenItems allows.  Below, the bank side: whatever requests  *)
(* interleave, a statement line and the voucher it is matched to agree.    *)
(***************************************************************************)
EXTENDS Settlement, Banking, SumLemmas, SequenceTheorems, TLAPS

\* The hypotheses: requests one at a time, no tax of its own on a return, no
\* invoice named twice in an entry.
OneAtATime == \E w \in Workers : Workers = {w}
PlainReturns == \A i \in Invoices : Against[i] # None => Withheld[i] = 0
DistinctRows ==
  \A p \in Payments : \A rows \in Asked[p] :
    \A j, k \in DOMAIN rows : rows[j].invoice = rows[k].invoice => j = k
PlainReceipts == Receives => \A p \in Payments : Deducted[p] = 0

Invoiced(i) == inv[i].docstatus = "Submitted"

\* What the request in flight has loaded is what is stored, and what it checked holds.
Submitting(r) ==
  /\ pay[r.p].docstatus = "Draft" /\ Balanced(r.p, refs[r.p])
  /\ \A k \in DOMAIN refs[r.p] : Fits(inv[refs[r.p][k].invoice].out, refs[r.p][k].amount)
OnPayment(r) ==
  /\ r.p \in Payments /\ r.pay = pay[r.p] /\ r.rows = refs[r.p]
  /\ r.inv = [i \in Referenced(refs[r.p]) |-> inv[i]]
Reconciling(r, i, amount) ==
  /\ r.p \in Payments /\ r.pay = pay[r.p] /\ pay[r.p].docstatus = "Submitted"
  /\ r.rows = <<[invoice |-> i, amount |-> amount]>> /\ r.inv = [j \in {i} |-> inv[j]]
  /\ Invoiced(i) /\ Fits(pay[r.p].free, amount) /\ Fits(inv[i].out, amount)
OnInvoice(r, i) ==
  /\ r.rows = <<[invoice |-> i, amount |-> 0]>>
  /\ r.inv = [j \in {i} \cup Original(i) |-> inv[j]]
Fresh(r) ==
  \/ r.op = "submit payment" /\ OnPayment(r) /\ Submitting(r)
  \/ r.op = "cancel payment" /\ OnPayment(r) /\ pay[r.p].docstatus = "Submitted"
  \/ r.op = "reconcile" /\ \E i \in Invoices, amount \in Amounts : Reconciling(r, i, amount)
  \/ /\ r.op = "submit invoice"
     /\ \E i \in Invoices : /\ OnInvoice(r, i) /\ inv[i].docstatus = "Draft"
                            /\ \A o \in Original(i) : Invoiced(o)
  \/ /\ r.op = "cancel invoice"
     /\ \E i \in Invoices : OnInvoice(r, i) /\ Invoiced(i) /\ Untouched(i, inv[i].out)
Current ==
  /\ DOMAIN work = Workers
  /\ \A w \in Workers : work[w] # Idle => Fresh(work[w])

\* The stored columns have their types.
Typed ==
  /\ inv \in [Invoices -> [docstatus : Stages, out : Int]]
  /\ pay \in [Payments -> [docstatus : Stages \cup {"Absent"}, free : Int]]
  /\ \A p \in Payments : Deducted[p] = 0 => pay[p].free >= 0
  /\ refs \in [Payments -> Seq([invoice : Invoices, amount : Nat \ {0}])]
  /\ gl \in [Invoices \cup Payments -> [posted : Int, reversed : Int]]

\* What is unallocated is what the references leave.
Allocated ==
  \A p \in Payments :
    /\ pay[p].docstatus = "Draft" => refs[p] \in Asked[p] /\ Total(refs[p]) <= Paid[p]
    /\ pay[p].docstatus \in {"Draft", "Submitted"} =>
         pay[p].free = Paid[p] - Total(refs[p]) - Deducted[p]
    /\ pay[p].docstatus = "Submitted" =>
         Total(refs[p]) <= Value(p) /\ Paid[p] - Deducted[p] <= Value(p)

\* Only submitted invoices that are not returns are settled, and only they are credited.
Backed ==
  /\ \A p \in Live : \A k \in DOMAIN refs[p] :
       Invoiced(refs[p][k].invoice) /\ Against[refs[p][k].invoice] = None
  /\ \A i \in Invoices : Against[i] # None /\ Invoiced(i) => Invoiced(Against[i])

\* A voucher stands in the ledger once while it is submitted.
Entered ==
  /\ \A i \in Invoices :
       gl[i].posted - gl[i].reversed = IF Invoiced(i) THEN Due(i) ELSE 0
  /\ \A p \in Payments :
       gl[p].posted - gl[p].reversed = IF p \in Live THEN Value(p) ELSE 0
  /\ \A i \in Invoices : inv[i].docstatus = "Draft" => gl[i].posted = 0 /\ gl[i].reversed = 0
  /\ \A i \in Invoices : Invoiced(i) => gl[i].reversed = 0
  /\ \A p \in Payments : pay[p].docstatus \in {"Absent", "Draft"} => gl[p].posted = 0 /\ gl[p].reversed = 0
  /\ \A p \in Live : gl[p].reversed = 0

-----------------------------------------------------------------------------
(* Reference rows *)

Rows == Seq([invoice : Invoices, amount : Nat])

LEMMA RowFacts ==
  ASSUME NEW rows \in Rows
  PROVE  /\ IsFiniteSet(DOMAIN rows) /\ DOMAIN rows = 1 .. Len(rows) /\ Len(rows) \in Nat
         /\ \A k \in DOMAIN rows : /\ rows[k].invoice \in Invoices /\ rows[k].amount \in Nat
                                   /\ Each(rows)[k] = rows[k].amount
<1>0. rows \in Seq([invoice : Invoices, amount : Nat])
  BY DEF Rows
<1>1. DOMAIN rows = 1 .. Len(rows) /\ Len(rows) \in Nat
  OBVIOUS
<1>2. IsFiniteSet(DOMAIN rows)
  BY <1>1, FS_Interval
<1>3. \A k \in DOMAIN rows : rows[k] \in [invoice : Invoices, amount : Nat]
  BY <1>0, <1>1, ElementOfSeq
<1> QED BY <1>2, <1>3 DEF Each

LEMMA ClaimFacts ==
  ASSUME NEW rows \in Rows, NEW i
  PROVE  /\ Total(rows) \in Nat /\ Claimed(rows, i) \in Nat
         /\ i \notin Referenced(rows) => Claimed(rows, i) = 0
<1> DEFINE mine == {k \in DOMAIN rows : rows[k].invoice = i}
<1>1. \A k \in DOMAIN rows : Each(rows)[k] \in Nat
  BY RowFacts
<1>2. mine \in SUBSET DOMAIN rows /\ DOMAIN rows \in SUBSET DOMAIN rows
  OBVIOUS
<1>3. i \notin Referenced(rows) => mine = {}
  BY DEF Referenced
<1> HIDE DEF mine
<1>4. SumFunctionOnSet(Each(rows), mine) \in Nat /\ SumFunctionOnSet(Each(rows), DOMAIN rows) \in Nat
  BY <1>2, RowFacts, SumOfPart
<1>5. mine = {} => SumFunctionOnSet(Each(rows), mine) = 0
  BY SumOfEmpty
<1> QED BY <1>3, <1>4, <1>5 DEF Total, Claimed, mine

\* What the rows claim of each invoice adds up to their total.
LEMMA ClaimsAddUp ==
  ASSUME NEW rows \in Rows
  PROVE  SumFunctionOnSet([i \in Invoices |-> Claimed(rows, i)], Invoices) = Total(rows)
<1> DEFINE K == DOMAIN rows
           each == Each(rows)
           f == [i \in Invoices |-> [k \in K |-> IF k \in {j \in K : rows[j].invoice = i} THEN each[k] ELSE 0]]
           col == [k \in K |-> SumFunctionOnSet([i \in Invoices |-> f[i][k]], Invoices)]
<1>1. IsFiniteSet(K) /\ IsFiniteSet(Invoices) /\ \A k \in K : each[k] \in Int /\ rows[k].invoice \in Invoices
  BY RowFacts, PartyAssumption
<1>2. \A i \in Invoices : \A k \in K : f[i][k] \in Int
  BY <1>1
<1>3. \A i \in Invoices : Claimed(rows, i) = SumFunctionOnSet(f[i], K)
  <2> SUFFICES ASSUME NEW i \in Invoices PROVE Claimed(rows, i) = SumFunctionOnSet(f[i], K)
    OBVIOUS
  <2> DEFINE mine == {j \in K : rows[j].invoice = i}
  <2>1. mine \in SUBSET K /\ \A k \in mine : each[k] \in Int
    BY <1>1
  <2>2. SumFunctionOnSet(each, mine)
        = SumFunctionOnSet([k \in K |-> IF k \in mine THEN each[k] ELSE 0], K)
    <3> HIDE DEF mine, each, K
    <3> QED BY <1>1, <2>1, SumOfChosen
  <2>3. f[i] = [k \in K |-> IF k \in mine THEN each[k] ELSE 0]
    OBVIOUS
  <2> QED BY <2>2 DEF Claimed
<1>4. [i \in Invoices |-> Claimed(rows, i)] = [i \in Invoices |-> SumFunctionOnSet(f[i], K)]
  BY <1>3
<1>5. SumFunctionOnSet([i \in Invoices |-> SumFunctionOnSet(f[i], K)], Invoices) = SumFunctionOnSet(col, K)
  <2> HIDE DEF f, K
  <2> QED BY <1>1, <1>2, SumSwap
<1>6. \A k \in K : col[k] = each[k]
  <2> SUFFICES ASSUME NEW k \in K PROVE col[k] = each[k]
    OBVIOUS
  <2> DEFINE g == [i \in Invoices |-> f[i][k]]
             own == rows[k].invoice
  <2>1. own \in Invoices /\ g[own] = each[k] /\ each[k] \in Int /\ \A i \in Invoices \ {own} : g[i] = 0
    BY <1>1
  <2>2. SumFunctionOnSet(g, Invoices) = g[own]
    <3> HIDE DEF g, own
    <3> QED BY <1>1, <2>1, SumOfOne
  <2> QED BY <2>1, <2>2
<1>7. SumFunctionOnSet(col, K) = SumFunctionOnSet(each, K)
  <2> HIDE DEF col, each, K
  <2> QED BY <1>1, <1>6, SumOfSame
<1> HIDE DEF f, col
<1> QED BY <1>4, <1>5, <1>7 DEF Total

\* Rows that name each invoice once claim of it what the row says.
LEMMA ClaimOfDistinct ==
  ASSUME NEW rows \in Rows, NEW k \in DOMAIN rows,
         \A j \in DOMAIN rows : rows[j].invoice = rows[k].invoice => j = k
  PROVE  Claimed(rows, rows[k].invoice) = rows[k].amount
<1>1. {j \in DOMAIN rows : rows[j].invoice = rows[k].invoice} = {k}
  OBVIOUS
<1>2. Each(rows)[k] = rows[k].amount /\ rows[k].amount \in Int
  BY RowFacts
<1>3. SumFunctionOnSet(Each(rows), {k}) = Each(rows)[k]
  BY <1>2, FS_Singleton, SumOfOne
<1> QED BY <1>2, <1>3 DEF Claimed

LEMMA ClaimsOfMore ==
  ASSUME NEW rows \in Rows, NEW i \in Invoices, NEW amount \in Nat
  PROVE  LET more == rows \o <<[invoice |-> i, amount |-> amount]>>
         IN  /\ more \in Rows
             /\ Total(more) = Total(rows) + amount
             /\ \A j : Claimed(more, j) = Claimed(rows, j) + (IF j = i THEN amount ELSE 0)
<1> DEFINE row == [invoice |-> i, amount |-> amount]
           more == rows \o <<row>>
           n == Len(rows) + 1
<1>1. more \in Rows
  BY DEF Rows
<1>2. /\ DOMAIN more = (DOMAIN rows) \cup {n} /\ n \notin DOMAIN rows
      /\ more[n] = row /\ \A k \in DOMAIN rows : more[k] = rows[k]
  <2>1. Len(more) = n /\ Len(rows) \in Nat /\ DOMAIN more = 1 .. Len(more) /\ DOMAIN rows = 1 .. Len(rows)
    OBVIOUS
  <2>2. 1 .. n = (1 .. Len(rows)) \cup {n} /\ n \notin 1 .. Len(rows)
    OBVIOUS
  <2>3. more[n] = row /\ \A k \in 1 .. Len(rows) : more[k] = rows[k]
    OBVIOUS
  <2> QED OBVIOUS
<1>3. /\ IsFiniteSet(DOMAIN rows) /\ \A k \in DOMAIN more : Each(more)[k] \in Int
      /\ Each(more)[n] = amount /\ \A k \in DOMAIN rows : Each(more)[k] = Each(rows)[k]
  <2>1. \A k \in DOMAIN more : Each(more)[k] \in Int
    <3> HIDE DEF more
    <3> QED BY <1>1, RowFacts
  <2>2. Each(more)[n] = amount /\ \A k \in DOMAIN rows : Each(more)[k] = Each(rows)[k]
    BY DEF Each
  <2> QED BY <2>2, RowFacts
<1> HIDE DEF more, n
<1>4. ASSUME NEW S \in SUBSET DOMAIN rows
      PROVE  /\ SumFunctionOnSet(Each(more), S) = SumFunctionOnSet(Each(rows), S)
             /\ SumFunctionOnSet(Each(more), S \cup {n}) = SumFunctionOnSet(Each(rows), S) + amount
             /\ SumFunctionOnSet(Each(rows), S) \in Int
  <2>1. IsFiniteSet(S) /\ n \notin S
    BY <1>2, <1>3, FS_Subset
  <2>2. \A k \in S \cup {n} : Each(more)[k] \in Int
    BY <1>2, <1>3
  <2>3. SumFunctionOnSet(Each(more), S) = SumFunctionOnSet(Each(rows), S)
    BY <1>3, <2>1, SumOfSame
  <2>4. SumFunctionOnSet(Each(more), S \cup {n}) = Each(more)[n] + SumFunctionOnSet(Each(more), S)
    BY <2>1, <2>2, SumWith
  <2>5. SumFunctionOnSet(Each(more), S) \in Int
    BY <2>1, <2>2, SumIsInt
  <2> QED BY <1>3, <2>3, <2>4, <2>5
<1>5. Total(more) = Total(rows) + amount
  BY <1>2, <1>4 DEF Total
<1>6. ASSUME NEW j PROVE Claimed(more, j) = Claimed(rows, j) + (IF j = i THEN amount ELSE 0)
  <2> DEFINE S == {k \in DOMAIN rows : rows[k].invoice = j}
             T == {k \in DOMAIN more : more[k].invoice = j}
  <2>1. T = IF j = i THEN S \cup {n} ELSE S
    BY <1>2
  <2>2. S \in SUBSET DOMAIN rows
    OBVIOUS
  <2>3. Claimed(more, j) = SumFunctionOnSet(Each(more), T) /\ Claimed(rows, j) = SumFunctionOnSet(Each(rows), S)
    BY DEF Claimed
  <2> HIDE DEF S, T
  <2> QED BY <1>4, <2>1, <2>2, <2>3
<1> QED BY <1>1, <1>5, <1>6 DEF more

-----------------------------------------------------------------------------
(* What is left of an invoice *)

Returned(i, r) == IF Against[r] = i /\ Invoiced(r) THEN Due(r) ELSE 0
Takes(i, p) == IF p \in Live THEN Claimed(refs[p], i) ELSE 0
Credited(i) == SumFunctionOnSet([r \in Invoices |-> Returned(i, r)], Invoices)
Settled(i) == SumFunctionOnSet([p \in Payments |-> Takes(i, p)], Payments)
Open(i) == IF ~Invoiced(i) \/ Against[i] # None THEN 0 ELSE Due(i) + Credited(i) - Settled(i)
AsOpen == \A i \in Invoices : inv[i].out = Open(i)

LEMMA DueIsInt == \A i \in Invoices : Due(i) \in Int
BY DueAssumption DEF Due

LEMMA RefsAreRows == ASSUME Typed, NEW p \in Payments PROVE refs[p] \in Rows
<1>1. refs[p] \in Seq([invoice : Invoices, amount : Nat \ {0}])
  BY DEF Typed
<1>2. [invoice : Invoices, amount : Nat \ {0}] \subseteq [invoice : Invoices, amount : Nat]
  OBVIOUS
<1> DEFINE A == [invoice : Invoices, amount : Nat \ {0}]
           B == [invoice : Invoices, amount : Nat]
<1>3. refs[p] \in Seq(B)
  <2> HIDE DEF A, B
  <2>1. refs[p] \in Seq(A) /\ A \subseteq B
    BY <1>1 DEF A, B
  <2> QED BY <2>1
<1> QED BY <1>3 DEF Rows

LEMMA PartsAreInts ==
  ASSUME Typed, NEW i \in Invoices
  PROVE  /\ \A r \in Invoices : Returned(i, r) \in Int
         /\ \A p \in Payments : Takes(i, p) \in Nat
         /\ Credited(i) \in Int /\ Settled(i) \in Int
<1>1. \A r \in Invoices : Returned(i, r) \in Int
  BY DueIsInt DEF Returned
<1>2. \A p \in Payments : Takes(i, p) \in Nat
  BY RefsAreRows, ClaimFacts DEF Takes
<1> DEFINE f == [r \in Invoices |-> Returned(i, r)]
           g == [p \in Payments |-> Takes(i, p)]
<1>3. (\A r \in Invoices : f[r] \in Int) /\ (\A p \in Payments : g[p] \in Int)
  BY <1>1, <1>2
<1>4. SumFunctionOnSet(f, Invoices) \in Int /\ SumFunctionOnSet(g, Payments) \in Int
  <2> HIDE DEF f, g
  <2> QED BY <1>3, PartyAssumption, SumIsInt
<1> QED BY <1>1, <1>2, <1>4 DEF Credited, Settled

\* The sums of the instance are the sums of the library.
LEMMA BooksSum ==
  ASSUME NEW f, NEW S
  PROVE  Books!SumFunctionOnSet(f, S) = SumFunctionOnSet(f, S)
<1>1. Books!SumFunctionOnSet(f, S) = (CHOOSE g : IsPartialSum(f, g, SUBSET S))[S]
  BY DEF Books!SumFunctionOnSet, Books!FoldFunctionOnSet, Books!MapThenFoldSet, IsPartialSum,
       AddFirst, First
<1> QED BY <1>1, SumUnfolds

LEMMA BooksSettled ==
  ASSUME NEW i \in Invoices
  PROVE  Books!Settled(i) = Settled(i)
<1> DEFINE paid == [p \in Payments |-> [j \in Invoices |-> IF p \in Live THEN Claimed(refs[p], j) ELSE 0]]
<1>1. [p \in Payments |-> paid[p][i]] = [p \in Payments |-> Takes(i, p)]
  BY DEF Takes
<1>2. Books!Settled(i) = SumFunctionOnSet([p \in Payments |-> paid[p][i]], Payments)
  BY BooksSum DEF Books!Settled
<1> HIDE DEF paid
<1> QED BY <1>1, <1>2 DEF Settled

LEMMA LeftIsOpen ==
  ASSUME Typed, NEW i \in Invoices
  PROVE  Books!Left(i) = Open(i)
<1> DEFINE claim == [r \in Invoices |-> Due(r)]
           mine == {r \in Invoices : Against[r] = i /\ inv[r].docstatus = "Submitted"}
           f == [r \in Invoices |-> IF r \in mine THEN claim[r] ELSE 0]
<1>1. SumFunctionOnSet(claim, mine) = SumFunctionOnSet(f, Invoices)
  <2>1. mine \in SUBSET Invoices /\ \A r \in mine : claim[r] \in Int
    BY DueIsInt
  <2> HIDE DEF claim, mine
  <2> QED BY <2>1, PartyAssumption, SumOfChosen
<1>2. f = [r \in Invoices |-> Returned(i, r)]
  BY DEF Returned, Invoiced
<1>3. Credited(i) = SumFunctionOnSet(claim, mine)
  BY <1>1, <1>2 DEF Credited
<1>4. Books!Returns(i) = mine
  BY DEF Books!Returns
<1>5. Books!Settled(i) = Settled(i)
  BY BooksSettled
<1>6. Books!Left(i) = IF ~Invoiced(i) \/ Against[i] # None THEN 0
                      ELSE Due(i) + SumFunctionOnSet(claim, mine) - Settled(i)
  <2>1. Books!Left(i) = IF ~Invoiced(i) \/ Against[i] # None THEN 0
                        ELSE Due(i) + SumFunctionOnSet(claim, Books!Returns(i)) - Books!Settled(i)
    BY BooksSum DEF Books!Left, Invoiced
  <2> HIDE DEF claim, mine
  <2> QED BY <1>4, <1>5, <2>1
<1> QED BY <1>3, <1>6 DEF Open

LEMMA OutstandingIsOpen == Typed => (OutstandingIsLeft <=> AsOpen)
BY LeftIsOpen DEF OutstandingIsLeft, AsOpen

-----------------------------------------------------------------------------
(* What each write does as a whole, when the request has loaded what is stored *)

SubmitsPayment(p) ==
  /\ pay[p].docstatus = "Draft" /\ Balanced(p, refs[p])
  /\ \A k \in DOMAIN refs[p] : Fits(inv[refs[p][k].invoice].out, refs[p][k].amount)
  /\ inv' = [i \in Invoices |-> [docstatus |-> inv[i].docstatus,
                                 out |-> inv[i].out - Claimed(refs[p], i)]]
  /\ pay' = [pay EXCEPT ![p] = [docstatus |-> "Submitted", free |-> pay[p].free]]
  /\ gl' = [gl EXCEPT ![p].posted = @ + PartyRows(p, refs[p])]
  /\ refs' = refs

CancelsPayment(p) ==
  /\ pay[p].docstatus = "Submitted"
  /\ inv' = [i \in Invoices |-> [docstatus |-> inv[i].docstatus,
                                 out |-> inv[i].out + Claimed(refs[p], i)]]
  /\ pay' = [pay EXCEPT ![p] = [docstatus |-> "Cancelled", free |-> pay[p].free]]
  /\ gl' = [gl EXCEPT ![p].reversed = @ + gl[p].posted]
  /\ refs' = refs

Reconciles(p, i, amount) ==
  /\ pay[p].docstatus = "Submitted" /\ Invoiced(i)
  /\ amount <= pay[p].free /\ amount <= inv[i].out
  /\ inv' = [j \in Invoices |-> [docstatus |-> inv[j].docstatus,
                                 out |-> inv[j].out - (IF j = i THEN amount ELSE 0)]]
  /\ pay' = [pay EXCEPT ![p] = [docstatus |-> "Submitted", free |-> pay[p].free - amount]]
  /\ refs' = [refs EXCEPT ![p] = @ \o <<[invoice |-> i, amount |-> amount]>>]
  /\ gl' = gl

SubmitsInvoice(i) ==
  /\ inv[i].docstatus = "Draft" /\ (Against[i] # None => Invoiced(Against[i]))
  /\ inv' = [j \in Invoices |->
       IF j = i THEN [docstatus |-> "Submitted", out |-> IF Against[i] = None THEN Due(i) ELSE 0]
       ELSE IF j = Against[i]
            THEN [docstatus |-> inv[j].docstatus, out |-> inv[j].out + Due(i)]
            ELSE inv[j]]
  /\ gl' = [gl EXCEPT ![i].posted = @ + Due(i)]
  /\ UNCHANGED <<pay, refs>>

CancelsInvoice(i) ==
  /\ Invoiced(i) /\ Untouched(i, inv[i].out)
  /\ inv' = [j \in Invoices |->
       IF j = i THEN [docstatus |-> "Cancelled", out |-> 0]
       ELSE IF j = Against[i]
            THEN [docstatus |-> inv[j].docstatus, out |-> inv[j].out - Gross[i]]
            ELSE inv[j]]
  /\ gl' = [gl EXCEPT ![i].reversed = @ + gl[i].posted]
  /\ UNCHANGED <<pay, refs>>

LEMMA RowStored ==
  ASSUME NEW now, NEW new
  PROVE  /\ InvoiceRow(now, now, new) = [docstatus |-> new.docstatus, out |-> new.out]
         /\ PaymentRow(now, now, new) = [docstatus |-> new.docstatus, free |-> new.free]
BY DEF InvoiceRow, PaymentRow, Column

LEMMA StoredRows ==
  ASSUME Typed
  PROVE  /\ \A i \in Invoices : inv[i] = [docstatus |-> inv[i].docstatus, out |-> inv[i].out]
         /\ \A i \in Invoices : inv[i].docstatus \in Stages /\ inv[i].out \in Int
         /\ \A p \in Payments : pay[p] = [docstatus |-> pay[p].docstatus, free |-> pay[p].free]
         /\ \A p \in Payments : pay[p].docstatus \in Stages \cup {"Absent"} /\ pay[p].free \in Int
         /\ \A v \in Invoices \cup Payments :
              /\ gl[v] = [posted |-> gl[v].posted, reversed |-> gl[v].reversed]
              /\ gl[v].posted \in Int /\ gl[v].reversed \in Int
BY DEF Typed

LEMMA ColumnsChanged ==
  ASSUME Typed
  PROVE  /\ \A i \in Invoices : \A x :
              [inv[i] EXCEPT !.out = x] = [docstatus |-> inv[i].docstatus, out |-> x]
         /\ \A p \in Payments : \A x :
              /\ [pay[p] EXCEPT !.free = x] = [docstatus |-> pay[p].docstatus, free |-> x]
              /\ [pay[p] EXCEPT !.docstatus = x] = [docstatus |-> x, free |-> pay[p].free]
<1>1. ASSUME NEW i \in Invoices, NEW x
      PROVE  [inv[i] EXCEPT !.out = x] = [docstatus |-> inv[i].docstatus, out |-> x]
  <2>1. inv[i] \in [docstatus : Stages, out : Int]
    BY DEF Typed
  <2> QED BY <2>1
<1>2. ASSUME NEW p \in Payments, NEW x
      PROVE  /\ [pay[p] EXCEPT !.free = x] = [docstatus |-> pay[p].docstatus, free |-> x]
             /\ [pay[p] EXCEPT !.docstatus = x] = [docstatus |-> x, free |-> pay[p].free]
  <2>1. pay[p] \in [docstatus : Stages \cup {"Absent"}, free : Int]
    BY DEF Typed
  <2> QED BY <2>1
<1> QED BY <1>1, <1>2

\* the invoices a payment claims, loaded and stored with n(i) as outstanding
LEMMA StoredClaims ==
  ASSUME Typed, NEW w \in Workers, NEW p \in Payments, NEW n \in [Invoices -> Int],
         work[w].inv = [i \in Referenced(refs[p]) |-> inv[i]],
         StoreInvoices(w, [i \in DOMAIN work[w].inv |-> [work[w].inv[i] EXCEPT !.out = n[i]]]),
         \A i \in Invoices \ Referenced(refs[p]) : n[i] = inv[i].out
  PROVE  inv' = [i \in Invoices |-> [docstatus |-> inv[i].docstatus, out |-> n[i]]]
<1> DEFINE R == Referenced(refs[p])
           new == [i \in R |-> [inv[i] EXCEPT !.out = n[i]]]
<1>1. R \subseteq Invoices
  BY RefsAreRows, RowFacts DEF Referenced
<1>2. DOMAIN work[w].inv = R /\ \A i \in R : work[w].inv[i] = inv[i]
  OBVIOUS
<1>3. inv' = [i \in Invoices |-> IF i \in R THEN InvoiceRow(inv[i], work[w].inv[i], new[i]) ELSE inv[i]]
  BY DEF StoreInvoices
<1>4. \A i \in R : new[i] = [docstatus |-> inv[i].docstatus, out |-> n[i]]
  BY <1>1, ColumnsChanged
<1>5. \A i \in R : InvoiceRow(inv[i], work[w].inv[i], new[i]) = [docstatus |-> inv[i].docstatus, out |-> n[i]]
  <2> HIDE DEF new, R
  <2> SUFFICES ASSUME NEW i \in R
               PROVE  InvoiceRow(inv[i], inv[i], new[i]) = [docstatus |-> inv[i].docstatus, out |-> n[i]]
    BY <1>2
  <2>1. new[i] = [docstatus |-> inv[i].docstatus, out |-> n[i]]
    BY <1>4
  <2> DEFINE s == inv[i].docstatus
             o == n[i]
  <2>2. new[i] = [docstatus |-> s, out |-> o]
    BY <2>1
  <2> HIDE DEF s, o
  <2>3. InvoiceRow(inv[i], inv[i], new[i]) = [docstatus |-> s, out |-> o]
    BY <2>2, RowStored
  <2> QED BY <2>3 DEF s, o
<1>6. \A i \in Invoices \ R : inv[i] = [docstatus |-> inv[i].docstatus, out |-> n[i]]
  BY StoredRows
<1> HIDE DEF new, R
<1> QED BY <1>3, <1>5, <1>6

LEMMA SubmitPaymentDoes ==
  ASSUME Typed, Current, NEW w \in Workers, WriteSubmitPayment(w)
  PROVE  (\E p \in Payments : SubmitsPayment(p)) /\ work' = [work EXCEPT ![w] = Idle]
<1> DEFINE p == work[w].p
           n == [i \in Invoices |-> inv[i].out - Claimed(refs[p], i)]
<1>1. OnPayment(work[w]) /\ Submitting(work[w])
  BY DEF WriteSubmitPayment, Writes, Current, Fresh
<1>2. /\ p \in Payments /\ work[w].pay = pay[p] /\ work[w].rows = refs[p]
      /\ work[w].inv = [i \in Referenced(refs[p]) |-> inv[i]]
  BY <1>1 DEF OnPayment
<1>3. refs[p] \in Rows /\ Referenced(refs[p]) \subseteq Invoices
  BY <1>2, RefsAreRows, RowFacts DEF Referenced
<1>4. n \in [Invoices -> Int] /\ \A i \in Invoices \ Referenced(refs[p]) : n[i] = inv[i].out
  BY <1>3, ClaimFacts, StoredRows
<1>5. StoreInvoices(w, [i \in DOMAIN work[w].inv |-> [work[w].inv[i] EXCEPT !.out = n[i]]])
  <2>1. [i \in DOMAIN work[w].inv |-> [work[w].inv[i] EXCEPT !.out = @ - Claimed(work[w].rows, i)]]
        = [i \in DOMAIN work[w].inv |-> [work[w].inv[i] EXCEPT !.out = n[i]]]
    BY <1>2, <1>3
  <2> QED BY <2>1 DEF WriteSubmitPayment
<1>6. inv' = [i \in Invoices |-> [docstatus |-> inv[i].docstatus, out |-> n[i]]]
  <2> HIDE DEF n, p
  <2> QED BY <1>2, <1>4, <1>5, StoredClaims
<1>7. pay' = [pay EXCEPT ![p] = [docstatus |-> "Submitted", free |-> pay[p].free]]
  <2>1. pay' = [pay EXCEPT ![p] = PaymentRow(pay[p], pay[p], [pay[p] EXCEPT !.docstatus = "Submitted"])]
    BY <1>2 DEF WriteSubmitPayment, StorePayment
  <2>2. [pay[p] EXCEPT !.docstatus = "Submitted"] = [docstatus |-> "Submitted", free |-> pay[p].free]
    BY <1>2, ColumnsChanged
  <2> HIDE DEF p
  <2> QED BY <2>1, <2>2 DEF PaymentRow, Column
<1>8. gl' = [gl EXCEPT ![p].posted = @ + PartyRows(p, refs[p])]
  BY <1>2 DEF WriteSubmitPayment, Post
<1>9. refs' = refs /\ work' = [work EXCEPT ![w] = Idle]
  BY DEF WriteSubmitPayment, Done
<1>10. inv' = [i \in Invoices |-> [docstatus |-> inv[i].docstatus,
                                  out |-> inv[i].out - Claimed(refs[p], i)]]
  BY <1>6
<1> QED BY <1>1, <1>2, <1>7, <1>8, <1>9, <1>10 DEF Submitting, SubmitsPayment

LEMMA CancelPaymentDoes ==
  ASSUME Typed, Current, NEW w \in Workers, WriteCancelPayment(w)
  PROVE  (\E p \in Payments : CancelsPayment(p)) /\ work' = [work EXCEPT ![w] = Idle]
<1> DEFINE p == work[w].p
           n == [i \in Invoices |-> inv[i].out + Claimed(refs[p], i)]
<1>1. OnPayment(work[w]) /\ pay[p].docstatus = "Submitted"
  BY DEF WriteCancelPayment, Writes, Current, Fresh
<1>2. /\ p \in Payments /\ work[w].pay = pay[p] /\ work[w].rows = refs[p]
      /\ work[w].inv = [i \in Referenced(refs[p]) |-> inv[i]]
  BY <1>1 DEF OnPayment
<1>3. refs[p] \in Rows /\ Referenced(refs[p]) \subseteq Invoices
  BY <1>2, RefsAreRows, RowFacts DEF Referenced
<1>4. n \in [Invoices -> Int] /\ \A i \in Invoices \ Referenced(refs[p]) : n[i] = inv[i].out
  BY <1>3, ClaimFacts, StoredRows
<1>5. StoreInvoices(w, [i \in DOMAIN work[w].inv |-> [work[w].inv[i] EXCEPT !.out = n[i]]])
  <2>1. [i \in DOMAIN work[w].inv |-> [work[w].inv[i] EXCEPT !.out = @ + Claimed(work[w].rows, i)]]
        = [i \in DOMAIN work[w].inv |-> [work[w].inv[i] EXCEPT !.out = n[i]]]
    BY <1>2, <1>3
  <2> QED BY <2>1 DEF WriteCancelPayment
<1>6. inv' = [i \in Invoices |-> [docstatus |-> inv[i].docstatus, out |-> n[i]]]
  <2> HIDE DEF n, p
  <2> QED BY <1>2, <1>4, <1>5, StoredClaims
<1>7. pay' = [pay EXCEPT ![p] = [docstatus |-> "Cancelled", free |-> pay[p].free]]
  <2>1. pay' = [pay EXCEPT ![p] = PaymentRow(pay[p], pay[p], [pay[p] EXCEPT !.docstatus = "Cancelled"])]
    BY <1>2 DEF WriteCancelPayment, StorePayment
  <2>2. [pay[p] EXCEPT !.docstatus = "Cancelled"] = [docstatus |-> "Cancelled", free |-> pay[p].free]
    BY <1>2, ColumnsChanged
  <2> HIDE DEF p
  <2> QED BY <2>1, <2>2 DEF PaymentRow, Column
<1>8. gl' = [gl EXCEPT ![p].reversed = @ + gl[p].posted]
  BY <1>2 DEF WriteCancelPayment, ReverseAll
<1>9. refs' = refs /\ work' = [work EXCEPT ![w] = Idle]
  BY DEF WriteCancelPayment, Done
<1>10. inv' = [i \in Invoices |-> [docstatus |-> inv[i].docstatus,
                                  out |-> inv[i].out + Claimed(refs[p], i)]]
  BY <1>6
<1> QED BY <1>1, <1>2, <1>7, <1>8, <1>9, <1>10 DEF CancelsPayment

LEMMA ReconcileDoes ==
  ASSUME Typed, Current, NEW w \in Workers, WriteReconcile(w)
  PROVE  (\E p \in Payments, i \in Invoices, amount \in Amounts : Reconciles(p, i, amount)) /\ work' = [work EXCEPT ![w] = Idle]
<1> DEFINE p == work[w].p
<1>1. PICK i \in Invoices, amount \in Amounts : Reconciling(work[w], i, amount)
  BY DEF WriteReconcile, Writes, Current, Fresh
<1> DEFINE row == <<[invoice |-> i, amount |-> amount]>>
<1>2. /\ p \in Payments /\ work[w].pay = pay[p] /\ pay[p].docstatus = "Submitted"
      /\ work[w].rows = row /\ work[w].inv = [j \in {i} |-> inv[j]]
      /\ Invoiced(i) /\ amount <= pay[p].free /\ amount <= inv[i].out /\ amount \in Nat
  BY <1>1, PaidAssumption DEF Reconciling, Fits
<1>3. Total(row) = amount
  <2>1. <<>> \in Rows
    BY DEF Rows
  <2>2. Total(<<>> \o row) = Total(<<>>) + amount
    BY <1>2, <2>1, ClaimsOfMore
  <2>3. Total(<<>>) = 0
    BY SumOfEmpty DEF Total
  <2>4. <<>> \o row = row
    OBVIOUS
  <2> HIDE DEF row
  <2> QED BY <1>2, <2>2, <2>3
<1>4. inv' = [j \in Invoices |-> [docstatus |-> inv[j].docstatus,
                                  out |-> inv[j].out - (IF j = i THEN amount ELSE 0)]]
  <2> DEFINE new == [j \in {i} |-> [inv[j] EXCEPT !.out = @ - amount]]
  <2>1. inv' = [j \in Invoices |-> IF j \in {i} THEN InvoiceRow(inv[j], inv[j], new[j]) ELSE inv[j]]
    BY <1>2, <1>3 DEF WriteReconcile, StoreInvoices
  <2>2. InvoiceRow(inv[i], inv[i], new[i]) = [docstatus |-> inv[i].docstatus, out |-> inv[i].out - amount]
    BY StoredRows, RowStored
  <2>3. \A j \in Invoices \ {i} : inv[j] = [docstatus |-> inv[j].docstatus, out |-> inv[j].out - 0]
    BY StoredRows
  <2> HIDE DEF new
  <2> QED BY <2>1, <2>2, <2>3
<1>5. pay' = [pay EXCEPT ![p] = [docstatus |-> "Submitted", free |-> pay[p].free - amount]]
  <2>1. pay' = [pay EXCEPT ![p] = PaymentRow(pay[p], pay[p], [pay[p] EXCEPT !.free = @ - amount])]
    BY <1>2, <1>3 DEF WriteReconcile, StorePayment
  <2>2. [pay[p] EXCEPT !.free = @ - amount] = [docstatus |-> "Submitted", free |-> pay[p].free - amount]
    <3>1. [pay[p] EXCEPT !.free = pay[p].free - amount]
          = [docstatus |-> pay[p].docstatus, free |-> pay[p].free - amount]
      BY <1>2, ColumnsChanged
    <3> QED BY <1>2, <3>1
  <2> HIDE DEF p
  <2> QED BY <2>1, <2>2 DEF PaymentRow, Column
<1>6. /\ refs' = [refs EXCEPT ![p] = @ \o row] /\ gl' = gl
      /\ work' = [work EXCEPT ![w] = Idle]
  BY <1>2 DEF WriteReconcile, Done
<1> QED BY <1>2, <1>4, <1>5, <1>6 DEF Reconciles

\* the original of an invoice is another one
LEMMA OriginalOf ==
  ASSUME NEW i \in Invoices
  PROVE  /\ Against[i] # i
         /\ Original(i) = IF Against[i] = None THEN {} ELSE {Against[i]}
         /\ Original(i) \subseteq Invoices
         /\ Against[i] # None => Against[i] \in Invoices /\ Against[Against[i]] = None
BY AgainstAssumption, PartyAssumption DEF Original

\* a column of the original, loaded and stored
LEMMA OriginalStored ==
  ASSUME Typed, NEW i \in Invoices, NEW j \in Invoices, j # i
  PROVE  /\ j \in {i} \cup Original(i) <=> j = Against[i]
         /\ \A n : InvoiceRow(inv[j], inv[j], [inv[j] EXCEPT !.out = n])
                 = [docstatus |-> inv[j].docstatus, out |-> n]
<1>1. ASSUME NEW n
      PROVE  InvoiceRow(inv[j], inv[j], [inv[j] EXCEPT !.out = n])
             = [docstatus |-> inv[j].docstatus, out |-> n]
  <2>1. PICK new : new = [inv[j] EXCEPT !.out = n]
    OBVIOUS
  <2>2. new = [docstatus |-> inv[j].docstatus, out |-> n]
    BY <2>1, ColumnsChanged
  <2>3. InvoiceRow(inv[j], inv[j], new) = [docstatus |-> inv[j].docstatus, out |-> n]
    BY <2>2, RowStored
  <2> QED BY <2>1, <2>3
<1> QED BY <1>1, OriginalOf, PartyAssumption

LEMMA SubmitInvoiceDoes ==
  ASSUME Typed, Current, NEW w \in Workers, WriteSubmitInvoice(w)
  PROVE  (\E i \in Invoices : SubmitsInvoice(i)) /\ work' = [work EXCEPT ![w] = Idle]
<1>1. PICK i \in Invoices : /\ OnInvoice(work[w], i) /\ inv[i].docstatus = "Draft"
                            /\ \A o \in Original(i) : Invoiced(o)
  BY DEF WriteSubmitInvoice, Writes, Current, Fresh
<1>2. work[w].rows[1].invoice = i
  BY <1>1 DEF OnInvoice
<1>3. work[w].inv = [j \in {i} \cup Original(i) |-> inv[j]]
  BY <1>1 DEF OnInvoice
<1>4. inv' = [j \in Invoices |->
                IF j = i THEN [docstatus |-> "Submitted", out |-> IF Against[i] = None THEN Due(i) ELSE 0]
                ELSE IF j = Against[i]
                     THEN [docstatus |-> inv[j].docstatus, out |-> inv[j].out + Due(i)]
                     ELSE inv[j]]
  <2>1. PICK row, n : /\ row = [docstatus |-> "Submitted",
                                out |-> IF Against[i] = None THEN Due(i) ELSE 0]
                      /\ n = inv[Against[i]].out + Due(i)
    OBVIOUS
  <2>2. inv' = [j \in Invoices |->
                  IF j \in {i} \cup Original(i)
                  THEN InvoiceRow(inv[j], inv[j], IF j = i THEN row ELSE [inv[j] EXCEPT !.out = n])
                  ELSE inv[j]]
    <3> DEFINE D == {i} \cup Original(i)
               new == [j \in D |-> IF j = i THEN row ELSE [inv[j] EXCEPT !.out = @ + Due(i)]]
    <3>1. inv' = [j \in Invoices |-> IF j \in D THEN InvoiceRow(inv[j], inv[j], new[j]) ELSE inv[j]]
      BY <1>2, <1>3, <2>1 DEF WriteSubmitInvoice, StoreInvoices
    <3>2. \A j \in D : new[j] = IF j = i THEN row ELSE [inv[j] EXCEPT !.out = n]
      BY <2>1 DEF Original
    <3> HIDE DEF new
    <3> QED BY <3>1, <3>2
  <2>3. inv' = [j \in Invoices |->
                  IF j = i THEN [docstatus |-> row.docstatus, out |-> row.out]
                  ELSE IF j = Against[i] THEN [docstatus |-> inv[j].docstatus, out |-> n]
                  ELSE inv[j]]
    <3>1. i \in {i} \cup Original(i) /\ InvoiceRow(inv[i], inv[i], row) = [docstatus |-> row.docstatus, out |-> row.out]
      BY RowStored
    <3>2. \A j \in Invoices : j # i =>
            /\ j \in {i} \cup Original(i) <=> j = Against[i]
            /\ InvoiceRow(inv[j], inv[j], [inv[j] EXCEPT !.out = n]) = [docstatus |-> inv[j].docstatus, out |-> n]
      BY OriginalStored
    <3> QED BY <2>2, <3>1, <3>2
  <2> QED BY <2>1, <2>3
<1>5. /\ gl' = [gl EXCEPT ![i].posted = @ + Due(i)]
      /\ UNCHANGED <<pay, refs>> /\ work' = [work EXCEPT ![w] = Idle]
  BY <1>2 DEF WriteSubmitInvoice, Post, Done
<1>6. Against[i] # None => Invoiced(Against[i])
  BY <1>1, OriginalOf
<1> QED BY <1>1, <1>4, <1>5, <1>6 DEF SubmitsInvoice

LEMMA CancelInvoiceDoes ==
  ASSUME Typed, Current, NEW w \in Workers, WriteCancelInvoice(w)
  PROVE  (\E i \in Invoices : CancelsInvoice(i)) /\ work' = [work EXCEPT ![w] = Idle]
<1>1. PICK i \in Invoices : OnInvoice(work[w], i) /\ Invoiced(i) /\ Untouched(i, inv[i].out)
  BY DEF WriteCancelInvoice, Writes, Current, Fresh
<1>2. work[w].rows[1].invoice = i
  BY <1>1 DEF OnInvoice
<1>3. work[w].inv = [j \in {i} \cup Original(i) |-> inv[j]]
  BY <1>1 DEF OnInvoice
<1>4. inv' = [j \in Invoices |->
                IF j = i THEN [docstatus |-> "Cancelled", out |-> 0]
                ELSE IF j = Against[i]
                     THEN [docstatus |-> inv[j].docstatus, out |-> inv[j].out - Gross[i]]
                     ELSE inv[j]]
  <2>1. PICK row, n : /\ row = [docstatus |-> "Cancelled", out |-> 0]
                      /\ n = inv[Against[i]].out - Gross[i]
    OBVIOUS
  <2>2. inv' = [j \in Invoices |->
                  IF j \in {i} \cup Original(i)
                  THEN InvoiceRow(inv[j], inv[j], IF j = i THEN row ELSE [inv[j] EXCEPT !.out = n])
                  ELSE inv[j]]
    <3> DEFINE D == {i} \cup Original(i)
               new == [j \in D |-> IF j = i THEN row ELSE [inv[j] EXCEPT !.out = @ - Gross[i]]]
    <3>1. inv' = [j \in Invoices |-> IF j \in D THEN InvoiceRow(inv[j], inv[j], new[j]) ELSE inv[j]]
      BY <1>2, <1>3, <2>1 DEF WriteCancelInvoice, StoreInvoices
    <3>2. \A j \in D : new[j] = IF j = i THEN row ELSE [inv[j] EXCEPT !.out = n]
      BY <2>1 DEF Original
    <3> HIDE DEF new
    <3> QED BY <3>1, <3>2
  <2>3. inv' = [j \in Invoices |->
                  IF j = i THEN [docstatus |-> row.docstatus, out |-> row.out]
                  ELSE IF j = Against[i] THEN [docstatus |-> inv[j].docstatus, out |-> n]
                  ELSE inv[j]]
    <3>1. i \in {i} \cup Original(i) /\ InvoiceRow(inv[i], inv[i], row) = [docstatus |-> row.docstatus, out |-> row.out]
      BY RowStored
    <3>2. \A j \in Invoices : j # i =>
            /\ j \in {i} \cup Original(i) <=> j = Against[i]
            /\ InvoiceRow(inv[j], inv[j], [inv[j] EXCEPT !.out = n]) = [docstatus |-> inv[j].docstatus, out |-> n]
      BY OriginalStored
    <3> QED BY <2>2, <3>1, <3>2
  <2> QED BY <2>1, <2>3
<1>5. /\ gl' = [gl EXCEPT ![i].reversed = @ + gl[i].posted]
      /\ UNCHANGED <<pay, refs>> /\ work' = [work EXCEPT ![w] = Idle]
  BY <1>2 DEF WriteCancelInvoice, ReverseAll, Done
<1> QED BY <1>1, <1>4, <1>5 DEF CancelsInvoice

-----------------------------------------------------------------------------
(* What a write changes of the sums *)

LEMMA RowsArePositive ==
  ASSUME Typed, NEW p \in Payments, NEW k \in DOMAIN refs[p]
  PROVE  refs[p][k].invoice \in Invoices /\ refs[p][k].amount \in Nat \ {0}
<1>1. refs[p] \in Seq([invoice : Invoices, amount : Nat \ {0}]) /\ k \in 1 .. Len(refs[p])
  BY RefsAreRows, RowFacts DEF Typed
<1>2. PICK S : S = [invoice : Invoices, amount : Nat \ {0}]
  OBVIOUS
<1>3. refs[p][k] \in S
  <2>1. refs[p] \in Seq(S)
    BY <1>1, <1>2
  <2> QED BY <2>1
<1> QED BY <1>2, <1>3

\* Rows have positive amounts: what claims nothing of an invoice does not name it.
LEMMA ClaimsNothing ==
  ASSUME Typed, NEW p \in Payments, NEW i, Claimed(refs[p], i) = 0
  PROVE  i \notin Referenced(refs[p])
<1> SUFFICES ASSUME NEW k \in DOMAIN refs[p], refs[p][k].invoice = i PROVE FALSE
  BY DEF Referenced
<1> DEFINE mine == {j \in DOMAIN refs[p] : refs[p][j].invoice = i}
           each == Each(refs[p])
<1>1. IsFiniteSet(DOMAIN refs[p]) /\ \A j \in DOMAIN refs[p] : each[j] \in Nat
  BY RefsAreRows, RowFacts
<1>2. IsFiniteSet(mine) /\ (\A j \in mine : each[j] \in Nat) /\ k \in mine
  BY <1>1, FS_Subset
<1>3. SumFunctionOnSet(each, mine) = 0
  BY DEF Claimed
<1>4. each[k] = 0
  <2> HIDE DEF mine, each
  <2> QED BY <1>2, <1>3, SumIsZero
<1>5. refs[p][k].amount \in Nat \ {0}
  BY RowsArePositive
<1> QED BY <1>4, <1>5 DEF Each

LEMMA SettledChange ==
  ASSUME Typed, NEW i \in Invoices, NEW r \in Payments, Takes(i, r)' \in Int,
         \A q \in Payments \ {r} : Takes(i, q)' = Takes(i, q)
  PROVE  Settled(i)' = Settled(i) + Takes(i, r)' - Takes(i, r)
<1>1. PICK f, g : /\ f = [q \in Payments |-> Takes(i, q)]
                  /\ g = [q \in Payments |-> Takes(i, q)']
  OBVIOUS
<1>2. /\ \A q \in Payments : f[q] \in Int
      /\ g[r] \in Int /\ \A q \in Payments \ {r} : g[q] = f[q]
  BY <1>1, PartsAreInts
<1>3. SumFunctionOnSet(g, Payments) = SumFunctionOnSet(f, Payments) + g[r] - f[r]
  <2>1. IsFiniteSet(Payments)
    BY PartyAssumption
  <2>2. SumFunctionOnSet(g, Payments) = g[r] + SumFunctionOnSet(g, Payments \ {r})
    <3>1. \A q \in Payments : g[q] \in Int
      BY <1>2
    <3> QED BY <2>1, <3>1, SumWithout
  <2>3. SumFunctionOnSet(f, Payments) = f[r] + SumFunctionOnSet(f, Payments \ {r})
    BY <1>2, <2>1, SumWithout
  <2>4. SumFunctionOnSet(g, Payments \ {r}) = SumFunctionOnSet(f, Payments \ {r})
    BY <1>2, <2>1, FS_RemoveElement, SumOfSame
  <2>5. SumFunctionOnSet(f, Payments \ {r}) \in Int
    BY <1>2, <2>1, FS_RemoveElement, SumIsInt
  <2> QED BY <1>2, <2>2, <2>3, <2>4, <2>5
<1>4. Settled(i) = SumFunctionOnSet(f, Payments) /\ Settled(i)' = SumFunctionOnSet(g, Payments)
  BY <1>1 DEF Settled
<1> QED BY <1>1, <1>3, <1>4

LEMMA CreditedChange ==
  ASSUME Typed, NEW i \in Invoices, NEW r \in Invoices, Returned(i, r)' \in Int,
         \A q \in Invoices \ {r} : Returned(i, q)' = Returned(i, q)
  PROVE  Credited(i)' = Credited(i) + Returned(i, r)' - Returned(i, r)
<1>1. PICK f, g : /\ f = [q \in Invoices |-> Returned(i, q)]
                  /\ g = [q \in Invoices |-> Returned(i, q)']
  OBVIOUS
<1>2. /\ \A q \in Invoices : f[q] \in Int
      /\ g[r] \in Int /\ \A q \in Invoices \ {r} : g[q] = f[q]
  BY <1>1, PartsAreInts
<1>3. SumFunctionOnSet(g, Invoices) = SumFunctionOnSet(f, Invoices) + g[r] - f[r]
  BY <1>2, PartyAssumption, SumOfChange
<1>4. Credited(i) = SumFunctionOnSet(f, Invoices) /\ Credited(i)' = SumFunctionOnSet(g, Invoices)
  BY <1>1 DEF Credited
<1> QED BY <1>1, <1>3, <1>4

LEMMA SettledSame ==
  ASSUME NEW i \in Invoices, \A q \in Payments : Takes(i, q)' = Takes(i, q)
  PROVE  Settled(i)' = Settled(i)
<1>1. [q \in Payments |-> Takes(i, q)]' = [q \in Payments |-> Takes(i, q)]
  OBVIOUS
<1> QED BY DEF Settled

LEMMA CreditedSame ==
  ASSUME NEW i \in Invoices, \A r \in Invoices : Invoiced(r)' = Invoiced(r)
  PROVE  Credited(i)' = Credited(i)
<1>1. [r \in Invoices |-> Returned(i, r)]' = [r \in Invoices |-> Returned(i, r)]
  BY DEF Returned
<1> QED BY <1>1 DEF Credited

\* Nothing settles or credits an invoice that is not submitted, or that is a return.
LEMMA NothingElsewhere ==
  ASSUME Typed, Backed, NEW i \in Invoices, ~Invoiced(i) \/ Against[i] # None
  PROVE  /\ \A p \in Payments : Takes(i, p) = 0
         /\ \A r \in Invoices : Returned(i, r) = 0
         /\ Settled(i) = 0 /\ Credited(i) = 0
<1>1. ASSUME NEW p \in Payments PROVE Takes(i, p) = 0
  <2>1. p \in Live => i \notin Referenced(refs[p])
    BY DEF Backed, Referenced
  <2>2. i \notin Referenced(refs[p]) => Claimed(refs[p], i) = 0
    BY RefsAreRows, ClaimFacts
  <2> QED BY <2>1, <2>2 DEF Takes
<1>2. ASSUME NEW r \in Invoices PROVE Returned(i, r) = 0
  <2>1. ~(Against[r] = i /\ Invoiced(r))
    BY OriginalOf, PartyAssumption DEF Backed
  <2> QED BY <2>1 DEF Returned
<1> DEFINE f == [r \in Invoices |-> Returned(i, r)]
           g == [p \in Payments |-> Takes(i, p)]
<1>3. (\A r \in Invoices : f[r] = 0) /\ (\A p \in Payments : g[p] = 0)
  BY <1>1, <1>2
<1>4. SumFunctionOnSet(f, Invoices) = 0 /\ SumFunctionOnSet(g, Payments) = 0
  <2> HIDE DEF f, g
  <2> QED BY <1>3, PartyAssumption, SumOfZeros
<1> QED BY <1>1, <1>2, <1>4 DEF Settled, Credited

\* An invoice outstanding in full is neither settled nor credited: what payments
\* take and what returns credit both lower it, so neither hides the other.
LEMMA FullMeansUntouched ==
  ASSUME PlainReturns, Typed, AsOpen, Backed, NEW i \in Invoices, Invoiced(i),
         Untouched(i, inv[i].out)
  PROVE  /\ \A p \in Live : i \notin Referenced(refs[p])
         /\ \A r \in Invoices : Against[r] = i => ~Invoiced(r)
         /\ Settled(i) = 0
<1>1. CASE Against[i] # None
  <2>1. \A p \in Live : i \notin Referenced(refs[p])
    BY <1>1 DEF Backed, Referenced
  <2>2. \A r \in Invoices : Against[r] = i => FALSE
    BY <1>1, AgainstAssumption, PartyAssumption
  <2> QED BY <1>1, <2>1, <2>2, NothingElsewhere
<1>2. CASE Against[i] = None
  <2>1. Credited(i) = Settled(i) /\ Credited(i) \in Int /\ Settled(i) \in Int
    <3>1. inv[i].out = Due(i) /\ inv[i].out = Due(i) + Credited(i) - Settled(i)
      BY <1>2 DEF Untouched, AsOpen, Open
    <3>2. Due(i) \in Int /\ Credited(i) \in Int /\ Settled(i) \in Int
      BY DueIsInt, PartsAreInts
    <3> QED BY <3>1, <3>2
  <2> DEFINE f == [r \in Invoices |-> Returned(i, r)]
             h == [r \in Invoices |-> -f[r]]
             g == [p \in Payments |-> Takes(i, p)]
  <2>2. \A r \in Invoices : /\ f[r] \in Int /\ h[r] \in Nat
                            /\ Against[r] = i /\ Invoiced(r) => h[r] # 0
    <3> SUFFICES ASSUME NEW r \in Invoices
                 PROVE  /\ f[r] \in Int /\ h[r] \in Nat
                        /\ Against[r] = i /\ Invoiced(r) => h[r] # 0
      OBVIOUS
    <3>1. Against[r] = i => Due(r) = Gross[r] /\ Gross[r] < 0
      BY AgainstAssumption, PartyAssumption, DueAssumption DEF PlainReturns, Due
    <3>2. Due(r) \in Int
      BY DueIsInt
    <3>3. f[r] = IF Against[r] = i /\ Invoiced(r) THEN Due(r) ELSE 0
      BY DEF Returned
    <3> QED BY <3>1, <3>2, <3>3
  <2>3. \A p \in Payments : g[p] \in Nat
    BY PartsAreInts
  <2>4. SumFunctionOnSet(h, Invoices) = -Credited(i)
    <3>1. Credited(i) = SumFunctionOnSet(f, Invoices)
      BY DEF Credited
    <3> HIDE DEF f
    <3> QED BY <2>2, <3>1, PartyAssumption, SumOfNegated
  <2>5. Settled(i) = SumFunctionOnSet(g, Payments)
    BY DEF Settled
  <2> HIDE DEF f, g, h
  <2>6. SumFunctionOnSet(h, Invoices) \in Nat /\ SumFunctionOnSet(g, Payments) \in Nat
    BY <2>2, <2>3, PartyAssumption, SumOfPart
  <2>7. SumFunctionOnSet(h, Invoices) = 0 /\ SumFunctionOnSet(g, Payments) = 0
    BY <2>1, <2>4, <2>5, <2>6
  <2>8. (\A r \in Invoices : h[r] = 0) /\ (\A p \in Payments : g[p] = 0)
    BY <2>2, <2>3, <2>7, PartyAssumption, SumIsZero
  <2>9. ASSUME NEW p \in Live PROVE i \notin Referenced(refs[p])
    <3>1. p \in Payments
      BY DEF Live
    <3>2. Claimed(refs[p], i) = 0
      BY <2>8, <3>1 DEF g, Takes
    <3> QED BY <3>1, <3>2, ClaimsNothing
  <2> QED BY <2>2, <2>5, <2>7, <2>8, <2>9
<1> QED BY <1>1, <1>2

-----------------------------------------------------------------------------
(* What each write keeps *)

Core == Typed /\ Allocated /\ Backed /\ Entered /\ AsOpen

\* An allocation that fits names a submitted invoice that is not a return.
LEMMA FittingIsOpen ==
  ASSUME Typed, AsOpen, NEW i \in Invoices, NEW amount \in Nat \ {0}, amount <= inv[i].out
  PROVE  Invoiced(i) /\ Against[i] = None
<1>1. inv[i].out \in Int /\ inv[i].out # 0
  BY StoredRows
<1> QED BY DEF AsOpen, Open

LEMMA Unnamed ==
  ASSUME Typed, NEW p \in Payments, NEW i, ~\E k \in DOMAIN refs[p] : refs[p][k].invoice = i
  PROVE  Claimed(refs[p], i) = 0
BY RefsAreRows, ClaimFacts DEF Referenced

LEMMA SubmitPaymentKeeps ==
  ASSUME Core, NEW p \in Payments, SubmitsPayment(p)
  PROVE  Core'
<1> DEFINE R == refs[p]
           c == [i \in Invoices |-> Claimed(R, i)]
<1>1. /\ R \in Rows /\ Total(R) \in Nat /\ (\A i \in Invoices : c[i] \in Nat)
      /\ pay[p].docstatus = "Draft" /\ refs' = refs
  BY RefsAreRows, ClaimFacts DEF Core, SubmitsPayment
<1>2. \A k \in DOMAIN R : Invoiced(R[k].invoice) /\ Against[R[k].invoice] = None
  BY RowsArePositive, FittingIsOpen DEF Core, SubmitsPayment, Fits
<1>3. \A i \in Invoices : ~Invoiced(i) \/ Against[i] # None => c[i] = 0
  BY <1>2, Unnamed DEF Core
<1>4. \A i \in Invoices : /\ inv'[i].docstatus = inv[i].docstatus /\ inv'[i].out = inv[i].out - c[i]
                          /\ inv'[i] = [docstatus |-> inv[i].docstatus, out |-> inv[i].out - c[i]]
  BY DEF SubmitsPayment
<1>5. \A q \in Payments : /\ q # p => pay'[q] = pay[q]
                          /\ pay'[p].docstatus = "Submitted" /\ pay'[p].free = pay[p].free
  BY DEF SubmitsPayment, Core, Typed
<1>6. /\ \A v \in Invoices \cup Payments : v # p => gl'[v] = gl[v]
      /\ gl'[p].posted = Value(p) /\ gl'[p].reversed = 0
  <2>1. PartyRows(p, R) = Value(p)
    BY DEF SubmitsPayment, Balanced
  <2>2. gl[p].posted = 0 /\ gl[p].reversed = 0 /\ gl[p] \in [posted : Int, reversed : Int]
    BY <1>1 DEF Core, Entered, Typed
  <2>3. gl' = [gl EXCEPT ![p].posted = @ + Value(p)] /\ p \in DOMAIN gl
    BY <2>1 DEF SubmitsPayment, Core, Typed
  <2>4. Value(p) \in Int
    BY PaidAssumption DEF Value
  <2> QED BY <2>2, <2>3, <2>4
<1>7. Typed'
  <2>1. inv' \in [Invoices -> [docstatus : Stages, out : Int]]
    <3>1. \A i \in Invoices : inv[i].docstatus \in Stages /\ inv[i].out - c[i] \in Int
      BY <1>1, StoredRows DEF Core
    <3>2. inv' = [i \in Invoices |-> [docstatus |-> inv[i].docstatus, out |-> inv[i].out - c[i]]]
      BY DEF SubmitsPayment
    <3> HIDE DEF c
    <3> QED BY <3>1, <3>2
  <2>2. pay' \in [Payments -> [docstatus : Stages \cup {"Absent"}, free : Int]]
    BY DEF Core, Typed, SubmitsPayment, Stages
  <2>3. \A q \in Payments : Deducted[q] = 0 => pay'[q].free >= 0
    BY <1>5 DEF Core, Typed
  <2>4. gl' \in [Invoices \cup Payments -> [posted : Int, reversed : Int]]
    <3>1. gl \in [Invoices \cup Payments -> [posted : Int, reversed : Int]] /\ PartyRows(p, R) \in Int
      BY PaidAssumption DEF Core, Typed, SubmitsPayment, Balanced, Value
    <3> QED BY <3>1 DEF SubmitsPayment
  <2> QED BY <1>1, <2>1, <2>2, <2>3, <2>4 DEF Core, Typed
<1>8. Allocated'
  <2>1. Total(R) <= Value(p) /\ Paid[p] - Deducted[p] <= Value(p)
    <3>1. PartyRows(p, R) = Value(p) /\ Total(R) <= Paid[p]
      BY DEF SubmitsPayment, Balanced, Core, Allocated
    <3> QED BY <1>1, <3>1, PaidAssumption DEF PartyRows
  <2> QED BY <1>1, <1>5, <2>1 DEF Core, Allocated
<1>9. Backed'
  <2>1. \A i \in Invoices : Invoiced(i)' <=> Invoiced(i)
    BY <1>4 DEF Invoiced
  <2>2. ASSUME NEW q \in Live', NEW k \in DOMAIN refs'[q]
        PROVE  inv'[refs'[q][k].invoice].docstatus = "Submitted" /\ Against[refs'[q][k].invoice] = None
    <3>1. q \in Payments /\ refs'[q] = refs[q] /\ (q = p \/ q \in Live)
      BY <1>1, <1>5 DEF Live
    <3>2. refs[q][k].invoice \in Invoices
      BY <3>1, RowsArePositive DEF Core
    <3>3. Invoiced(refs[q][k].invoice) /\ Against[refs[q][k].invoice] = None
      BY <1>2, <3>1 DEF Core, Backed
    <3> QED BY <1>4, <3>1, <3>2, <3>3 DEF Invoiced
  <2>3. \A i \in Invoices : Against[i] # None /\ Invoiced(i)' => Invoiced(Against[i])'
    BY <2>1, OriginalOf DEF Core, Backed
  <2> QED BY <2>2, <2>3 DEF Backed, Invoiced
<1>10. Entered'
  <2>1. Value(p) \in Int
    BY PaidAssumption DEF Value
  <2>2. \A i \in Invoices : gl'[i] = gl[i] /\ inv'[i].docstatus = inv[i].docstatus
    BY <1>4, <1>6, PartyAssumption
  <2>3. \A q \in Payments \ {p} : gl'[q] = gl[q] /\ pay'[q] = pay[q]
    BY <1>5, <1>6
  <2>4. gl'[p].posted - gl'[p].reversed = Value(p) /\ gl'[p].reversed = 0 /\ p \in Live'
    BY <1>5, <1>6, <2>1 DEF Live
  <2>5. \A q \in Payments \ {p} : q \in Live' <=> q \in Live
    BY <2>3 DEF Live
  <2>6. \A i \in Invoices : /\ gl'[i].posted - gl'[i].reversed = IF Invoiced(i)' THEN Due(i) ELSE 0
                            /\ inv'[i].docstatus = "Draft" => gl'[i].posted = 0 /\ gl'[i].reversed = 0
                            /\ Invoiced(i)' => gl'[i].reversed = 0
    BY <2>2 DEF Core, Entered, Invoiced
  <2>7. \A q \in Payments :
          /\ gl'[q].posted - gl'[q].reversed = IF q \in Live' THEN Value(q) ELSE 0
          /\ pay'[q].docstatus \in {"Absent", "Draft"} => gl'[q].posted = 0 /\ gl'[q].reversed = 0
          /\ q \in Live' => gl'[q].reversed = 0
    BY <1>5, <2>3, <2>4, <2>5 DEF Core, Entered
  <2> QED BY <2>6, <2>7 DEF Entered, Live
<1>11. AsOpen'
  <2> SUFFICES ASSUME NEW i \in Invoices PROVE inv'[i].out = Open(i)'
    BY DEF AsOpen
  <2>1. Settled(i)' = Settled(i) + c[i]
    <3>1. Takes(i, p) = 0 /\ Takes(i, p)' = c[i]
      BY <1>1, <1>5 DEF Takes, Live
    <3>2. \A q \in Payments \ {p} : Takes(i, q)' = Takes(i, q)
      BY <1>1, <1>5 DEF Takes, Live
    <3>3. Settled(i) \in Int
      BY PartsAreInts DEF Core
    <3> HIDE DEF c
    <3> QED BY <1>1, <3>1, <3>2, SettledChange DEF Core
  <2>2. Credited(i)' = Credited(i)
    BY <1>4, CreditedSame DEF Invoiced
  <2>3. inv[i].out = Open(i) /\ Due(i) \in Int /\ Credited(i) \in Int /\ Settled(i) \in Int
    BY DueIsInt, PartsAreInts DEF Core, AsOpen
  <2>4. Invoiced(i)' <=> Invoiced(i)
    BY <1>4 DEF Invoiced
  <2>5. Open(i) = IF ~Invoiced(i) \/ Against[i] # None THEN 0 ELSE Due(i) + Credited(i) - Settled(i)
    BY DEF Open
  <2>6. Open(i)' = IF ~Invoiced(i) \/ Against[i] # None THEN 0 ELSE Due(i) + Credited(i) - (Settled(i) + c[i])
    BY <2>1, <2>2, <2>4 DEF Open
  <2>7. c[i] \in Nat /\ (~Invoiced(i) \/ Against[i] # None => c[i] = 0) /\ inv'[i].out = inv[i].out - c[i]
    BY <1>1, <1>3, <1>4
  <2> HIDE DEF c
  <2> QED BY <2>3, <2>5, <2>6, <2>7
<1> QED BY <1>7, <1>8, <1>9, <1>10, <1>11 DEF Core

LEMMA CancelPaymentKeeps ==
  ASSUME Core, NEW p \in Payments, CancelsPayment(p)
  PROVE  Core'
<1> DEFINE R == refs[p]
           c == [i \in Invoices |-> Claimed(R, i)]
<1>1. /\ R \in Rows /\ (\A i \in Invoices : c[i] \in Nat)
      /\ pay[p].docstatus = "Submitted" /\ p \in Live /\ refs' = refs
  BY RefsAreRows, ClaimFacts DEF Core, CancelsPayment, Live
<1>2. \A k \in DOMAIN R : Invoiced(R[k].invoice) /\ Against[R[k].invoice] = None
  BY <1>1 DEF Core, Backed
<1>3. \A i \in Invoices : ~Invoiced(i) \/ Against[i] # None => c[i] = 0
  BY <1>2, Unnamed DEF Core
<1>4. \A i \in Invoices : inv'[i].docstatus = inv[i].docstatus /\ inv'[i].out = inv[i].out + c[i]
  BY DEF CancelsPayment
<1>5. \A q \in Payments : /\ q # p => pay'[q] = pay[q]
                          /\ pay'[p].docstatus = "Cancelled" /\ pay'[p].free = pay[p].free
  BY DEF CancelsPayment, Core, Typed
<1>6. \A q \in Payments : q \in Live' <=> q \in Live /\ q # p
  BY <1>5 DEF Live
<1>7. /\ \A v \in Invoices \cup Payments : v # p => gl'[v] = gl[v]
      /\ gl'[p].posted - gl'[p].reversed = 0
  <2>1. gl[p].reversed = 0 /\ gl[p].posted \in Int /\ gl[p] \in [posted : Int, reversed : Int]
    BY <1>1 DEF Core, Entered, Typed
  <2>2. gl' = [gl EXCEPT ![p].reversed = @ + gl[p].posted] /\ p \in DOMAIN gl
    BY DEF CancelsPayment, Core, Typed
  <2> QED BY <2>1, <2>2
<1>8. Typed'
  <2>1. inv' \in [Invoices -> [docstatus : Stages, out : Int]]
    <3>1. \A i \in Invoices : inv[i].docstatus \in Stages /\ inv[i].out + c[i] \in Int
      BY <1>1, StoredRows DEF Core
    <3>2. inv' = [i \in Invoices |-> [docstatus |-> inv[i].docstatus, out |-> inv[i].out + c[i]]]
      BY DEF CancelsPayment
    <3> HIDE DEF c
    <3> QED BY <3>1, <3>2
  <2>2. pay' \in [Payments -> [docstatus : Stages \cup {"Absent"}, free : Int]]
    BY DEF Core, Typed, CancelsPayment, Stages
  <2>3. \A q \in Payments : Deducted[q] = 0 => pay'[q].free >= 0
    BY <1>5 DEF Core, Typed
  <2>4. gl' \in [Invoices \cup Payments -> [posted : Int, reversed : Int]]
    BY DEF Core, Typed, CancelsPayment
  <2> QED BY <1>1, <2>1, <2>2, <2>3, <2>4 DEF Core, Typed
<1>9. Allocated'
  BY <1>1, <1>5 DEF Core, Allocated
<1>10. Backed'
  <2>1. \A i \in Invoices : Invoiced(i)' <=> Invoiced(i)
    BY <1>4 DEF Invoiced
  <2>2. ASSUME NEW q \in Live', NEW k \in DOMAIN refs'[q]
        PROVE  inv'[refs'[q][k].invoice].docstatus = "Submitted" /\ Against[refs'[q][k].invoice] = None
    <3>1. q \in Payments /\ refs'[q] = refs[q] /\ q \in Live
      BY <1>1, <1>6 DEF Live
    <3>2. refs[q][k].invoice \in Invoices
      BY <3>1, RowsArePositive DEF Core
    <3>3. Invoiced(refs[q][k].invoice) /\ Against[refs[q][k].invoice] = None
      BY <3>1 DEF Core, Backed
    <3> QED BY <1>4, <3>1, <3>2, <3>3 DEF Invoiced
  <2>3. \A i \in Invoices : Against[i] # None /\ Invoiced(i)' => Invoiced(Against[i])'
    BY <2>1, OriginalOf DEF Core, Backed
  <2> QED BY <2>2, <2>3 DEF Backed, Invoiced
<1>11. Entered'
  <2>1. \A i \in Invoices : gl'[i] = gl[i] /\ inv'[i].docstatus = inv[i].docstatus
    BY <1>4, <1>7, PartyAssumption
  <2>2. \A q \in Payments \ {p} : gl'[q] = gl[q] /\ pay'[q] = pay[q]
    BY <1>5, <1>7
  <2>3. \A i \in Invoices : /\ gl'[i].posted - gl'[i].reversed = IF Invoiced(i)' THEN Due(i) ELSE 0
                            /\ inv'[i].docstatus = "Draft" => gl'[i].posted = 0 /\ gl'[i].reversed = 0
                            /\ Invoiced(i)' => gl'[i].reversed = 0
    BY <2>1 DEF Core, Entered, Invoiced
  <2>4. \A q \in Payments :
          /\ gl'[q].posted - gl'[q].reversed = IF q \in Live' THEN Value(q) ELSE 0
          /\ pay'[q].docstatus \in {"Absent", "Draft"} => gl'[q].posted = 0 /\ gl'[q].reversed = 0
          /\ q \in Live' => gl'[q].reversed = 0
    BY <1>5, <1>6, <1>7 DEF Core, Entered
  <2> QED BY <2>3, <2>4 DEF Entered, Live
<1>12. AsOpen'
  <2> SUFFICES ASSUME NEW i \in Invoices PROVE inv'[i].out = Open(i)'
    BY DEF AsOpen
  <2>1. Settled(i)' = Settled(i) - c[i]
    <3>1. Takes(i, p) = c[i] /\ Takes(i, p)' = 0
      BY <1>1, <1>6 DEF Takes
    <3>2. \A q \in Payments \ {p} : Takes(i, q)' = Takes(i, q)
      BY <1>1, <1>6 DEF Takes
    <3>3. Settled(i) \in Int
      BY PartsAreInts DEF Core
    <3> HIDE DEF c
    <3> QED BY <1>1, <3>1, <3>2, <3>3, SettledChange DEF Core
  <2>2. Credited(i)' = Credited(i)
    BY <1>4, CreditedSame DEF Invoiced
  <2>3. inv[i].out = Open(i) /\ Due(i) \in Int /\ Credited(i) \in Int /\ Settled(i) \in Int
    BY DueIsInt, PartsAreInts DEF Core, AsOpen
  <2>4. Invoiced(i)' <=> Invoiced(i)
    BY <1>4 DEF Invoiced
  <2>5. Open(i) = IF ~Invoiced(i) \/ Against[i] # None THEN 0 ELSE Due(i) + Credited(i) - Settled(i)
    BY DEF Open
  <2>6. Open(i)' = IF ~Invoiced(i) \/ Against[i] # None THEN 0 ELSE Due(i) + Credited(i) - (Settled(i) - c[i])
    BY <2>1, <2>2, <2>4 DEF Open
  <2>7. c[i] \in Nat /\ (~Invoiced(i) \/ Against[i] # None => c[i] = 0) /\ inv'[i].out = inv[i].out + c[i]
    BY <1>1, <1>3, <1>4
  <2> HIDE DEF c
  <2> QED BY <2>3, <2>5, <2>6, <2>7
<1> QED BY <1>8, <1>9, <1>10, <1>11, <1>12 DEF Core

LEMMA ReconcileKeeps ==
  ASSUME Core, NEW p \in Payments, NEW j \in Invoices, NEW amount \in Amounts, Reconciles(p, j, amount)
  PROVE  Core'
<1> DEFINE R == refs[p]
           more == R \o <<[invoice |-> j, amount |-> amount]>>
           c == [i \in Invoices |-> IF i = j THEN amount ELSE 0]
<1>1. /\ pay[p].docstatus = "Submitted" /\ p \in Live /\ amount \in Nat \ {0}
      /\ amount <= pay[p].free /\ amount <= inv[j].out
  BY PaidAssumption DEF Reconciles, Live
<1>2. Invoiced(j) /\ Against[j] = None
  BY <1>1, FittingIsOpen DEF Core
<1>3. /\ R \in Rows /\ Total(R) \in Nat /\ more \in Rows /\ Total(more) = Total(R) + amount
      /\ \A i \in Invoices : c[i] \in Nat /\ Claimed(R, i) \in Nat /\ Claimed(more, i) = Claimed(R, i) + c[i]
  <2>1. R \in Rows /\ amount \in Nat
    BY <1>1, RefsAreRows DEF Core
  <2>2. Total(R) \in Nat /\ \A i \in Invoices : c[i] \in Nat /\ Claimed(R, i) \in Nat
    BY <2>1, ClaimFacts
  <2> HIDE DEF R
  <2> QED BY <2>1, <2>2, ClaimsOfMore
<1>4. \A i \in Invoices : inv'[i].docstatus = inv[i].docstatus /\ inv'[i].out = inv[i].out - c[i]
  BY DEF Reconciles
<1>5. \A q \in Payments : /\ q # p => pay'[q] = pay[q] /\ refs'[q] = refs[q]
                          /\ pay'[p].docstatus = "Submitted" /\ pay'[p].free = pay[p].free - amount
                          /\ refs'[p] = more
  BY DEF Reconciles, Core, Typed
<1>6. \A q \in Payments : q \in Live' <=> q \in Live
  BY <1>1, <1>5 DEF Live
<1>7. gl' = gl
  BY DEF Reconciles
<1>8. Typed'
  <2>1. inv' \in [Invoices -> [docstatus : Stages, out : Int]]
    <3>1. \A i \in Invoices : inv[i].docstatus \in Stages /\ inv[i].out - c[i] \in Int
      BY <1>3, StoredRows DEF Core
    <3>2. inv' = [i \in Invoices |-> [docstatus |-> inv[i].docstatus, out |-> inv[i].out - c[i]]]
      BY DEF Reconciles
    <3> HIDE DEF c
    <3> QED BY <3>1, <3>2
  <2>2. pay' \in [Payments -> [docstatus : Stages \cup {"Absent"}, free : Int]]
    <3>1. pay[p].free - amount \in Int
      BY <1>1, StoredRows DEF Core
    <3> QED BY <3>1 DEF Core, Typed, Reconciles
  <2>3. \A q \in Payments : Deducted[q] = 0 => pay'[q].free >= 0
    <3>1. pay[p].free - amount >= 0
      BY <1>1, StoredRows DEF Core
    <3> QED BY <1>5, <3>1 DEF Core, Typed
  <2>4. gl' \in [Invoices \cup Payments -> [posted : Int, reversed : Int]]
    BY <1>7 DEF Core, Typed
  <2>5. refs' \in [Payments -> Seq([invoice : Invoices, amount : Nat \ {0}])]
    <3>1. more \in Seq([invoice : Invoices, amount : Nat \ {0}])
      <4>1. R \in Seq([invoice : Invoices, amount : Nat \ {0}])
        BY DEF Core, Typed
      <4>2. [invoice |-> j, amount |-> amount] \in [invoice : Invoices, amount : Nat \ {0}]
        BY <1>1
      <4> HIDE DEF R
      <4> QED BY <4>1, <4>2
    <3> HIDE DEF more
    <3>2. refs' = [refs EXCEPT ![p] = more]
      BY DEF Reconciles, more
    <3> QED BY <3>1, <3>2 DEF Core, Typed
  <2> QED BY <2>1, <2>2, <2>3, <2>4, <2>5 DEF Typed
<1>9. Allocated'
  <2>1. /\ pay[p].free = Paid[p] - Total(R) - Deducted[p]
        /\ Total(R) <= Value(p) /\ Paid[p] - Deducted[p] <= Value(p)
    BY <1>1 DEF Core, Allocated
  <2>2. Paid[p] \in Int /\ Deducted[p] \in Int /\ Value(p) \in Int
    BY PaidAssumption DEF Value
  <2> HIDE DEF R, more
  <2>3. pay'[p].free = Paid[p] - Total(more) - Deducted[p] /\ Total(more) <= Value(p)
    BY <1>1, <1>3, <1>5, <2>1, <2>2
  <2> QED BY <1>5, <2>1, <2>3 DEF Core, Allocated
<1>10. Backed'
  <2>1. \A i \in Invoices : Invoiced(i)' <=> Invoiced(i)
    BY <1>4 DEF Invoiced
  <2>2. ASSUME NEW q \in Live', NEW k \in DOMAIN refs'[q]
        PROVE  inv'[refs'[q][k].invoice].docstatus = "Submitted" /\ Against[refs'[q][k].invoice] = None
    <3>1. q \in Payments /\ q \in Live
      BY <1>6 DEF Live
    <3>2. CASE k \in DOMAIN refs[q] /\ refs'[q][k] = refs[q][k]
      <4>1. refs[q][k].invoice \in Invoices
        BY <3>1, <3>2, RowsArePositive DEF Core
      <4>2. Invoiced(refs[q][k].invoice) /\ Against[refs[q][k].invoice] = None
        BY <3>1, <3>2 DEF Core, Backed
      <4> QED BY <1>4, <3>2, <4>1, <4>2 DEF Invoiced
    <3>3. CASE ~(k \in DOMAIN refs[q] /\ refs'[q][k] = refs[q][k])
      <4>1. q = p
        BY <1>5, <3>1, <3>3
      <4>2. refs'[q][k].invoice = j
        <5>1. k \in DOMAIN more /\ (k \notin DOMAIN R \/ more[k] # R[k])
          BY <1>5, <3>3, <4>1
        <5>2. R \in Seq([invoice : Invoices, amount : Nat])
          BY <1>3 DEF Rows
        <5>3. more[k] = [invoice |-> j, amount |-> amount]
          <6> HIDE DEF R
          <6>1. /\ DOMAIN R = 1 .. Len(R) /\ Len(R) \in Nat /\ Len(more) = Len(R) + 1
                /\ DOMAIN more = 1 .. Len(more)
            OBVIOUS
          <6>2. \A n \in 1 .. Len(R) : more[n] = R[n]
            OBVIOUS
          <6>3. k = Len(R) + 1
            <7> HIDE DEF more
            <7> QED BY <5>1, <6>1, <6>2
          <6> QED BY <6>3
        <5> QED BY <1>5, <4>1, <5>3
      <4> QED BY <1>2, <1>4, <4>2 DEF Invoiced
    <3> QED BY <3>2, <3>3
  <2>3. \A i \in Invoices : Against[i] # None /\ Invoiced(i)' => Invoiced(Against[i])'
    BY <2>1, OriginalOf DEF Core, Backed
  <2> QED BY <2>2, <2>3 DEF Backed, Invoiced
<1>11. Entered'
  <2>1. \A i \in Invoices : Invoiced(i)' <=> Invoiced(i)
    BY <1>4 DEF Invoiced
  <2>2. \A i \in Invoices : /\ gl'[i].posted - gl'[i].reversed = IF Invoiced(i)' THEN Due(i) ELSE 0
                            /\ inv'[i].docstatus = "Draft" => gl'[i].posted = 0 /\ gl'[i].reversed = 0
                            /\ Invoiced(i)' => gl'[i].reversed = 0
    BY <1>4, <1>7, <2>1 DEF Core, Entered
  <2>3. \A q \in Payments :
          /\ gl'[q].posted - gl'[q].reversed = IF q \in Live' THEN Value(q) ELSE 0
          /\ pay'[q].docstatus \in {"Absent", "Draft"} => gl'[q].posted = 0 /\ gl'[q].reversed = 0
          /\ q \in Live' => gl'[q].reversed = 0
    BY <1>5, <1>6, <1>7 DEF Core, Entered
  <2> QED BY <2>2, <2>3 DEF Entered, Live
<1>12. AsOpen'
  <2> SUFFICES ASSUME NEW i \in Invoices PROVE inv'[i].out = Open(i)'
    BY DEF AsOpen
  <2>1. Settled(i)' = Settled(i) + c[i]
    <3>1. Takes(i, p) = Claimed(R, i) /\ Takes(i, p)' = Claimed(more, i)
      BY <1>1, <1>5, <1>6 DEF Takes
    <3>2. \A q \in Payments \ {p} : Takes(i, q)' = Takes(i, q)
      BY <1>5, <1>6 DEF Takes
    <3>3. Settled(i) \in Int
      BY PartsAreInts DEF Core
    <3>4. Claimed(R, i) \in Int /\ Claimed(more, i) = Claimed(R, i) + c[i] /\ c[i] \in Int
      BY <1>3
    <3>5. Takes(i, p)' \in Int
      BY <3>1, <3>4
    <3>6. Settled(i)' = Settled(i) + Takes(i, p)' - Takes(i, p)
      BY <3>2, <3>5, SettledChange DEF Core
    <3> HIDE DEF c, R, more
    <3> QED BY <3>1, <3>4, <3>6
  <2>2. Credited(i)' = Credited(i)
    BY <1>4, CreditedSame DEF Invoiced
  <2>3. inv[i].out = Open(i) /\ Due(i) \in Int /\ Credited(i) \in Int /\ Settled(i) \in Int
    BY DueIsInt, PartsAreInts DEF Core, AsOpen
  <2>4. Invoiced(i)' <=> Invoiced(i)
    BY <1>4 DEF Invoiced
  <2>5. Open(i) = IF ~Invoiced(i) \/ Against[i] # None THEN 0 ELSE Due(i) + Credited(i) - Settled(i)
    BY DEF Open
  <2>6. Open(i)' = IF ~Invoiced(i) \/ Against[i] # None THEN 0 ELSE Due(i) + Credited(i) - (Settled(i) + c[i])
    BY <2>1, <2>2, <2>4 DEF Open
  <2>7. c[i] \in Nat /\ (~Invoiced(i) \/ Against[i] # None => c[i] = 0) /\ inv'[i].out = inv[i].out - c[i]
    BY <1>2, <1>3, <1>4
  <2> HIDE DEF c
  <2> QED BY <2>3, <2>5, <2>6, <2>7
<1> QED BY <1>8, <1>9, <1>10, <1>11, <1>12 DEF Core

LEMMA SubmitInvoiceKeeps ==
  ASSUME Core, NEW i \in Invoices, SubmitsInvoice(i)
  PROVE  Core'
<1>1. /\ inv[i].docstatus = "Draft" /\ ~Invoiced(i) /\ pay' = pay /\ refs' = refs
      /\ Against[i] # None => Invoiced(Against[i])
  BY DEF SubmitsInvoice, Invoiced
<1>2. /\ inv'[i].docstatus = "Submitted"
      /\ inv'[i].out = IF Against[i] = None THEN Due(i) ELSE 0
      /\ \A j \in Invoices \ {i} :
           /\ inv'[j].docstatus = inv[j].docstatus
           /\ inv'[j].out = IF j = Against[i] THEN inv[j].out + Due(i) ELSE inv[j].out
  BY DEF SubmitsInvoice
<1>3. \A j \in Invoices : Invoiced(j)' <=> j = i \/ Invoiced(j)
  BY <1>2 DEF Invoiced
<1>4. Live' = Live
  BY <1>1 DEF Live
<1>5. /\ \A v \in Invoices \cup Payments : v # i => gl'[v] = gl[v]
      /\ gl'[i].posted - gl'[i].reversed = Due(i) /\ gl'[i].reversed = 0
  <2>1. gl[i].posted = 0 /\ gl[i].reversed = 0 /\ gl[i] \in [posted : Int, reversed : Int]
    BY <1>1 DEF Core, Entered, Typed
  <2>2. gl' = [gl EXCEPT ![i].posted = @ + Due(i)] /\ i \in DOMAIN gl /\ Due(i) \in Int
    BY DueIsInt DEF SubmitsInvoice, Core, Typed
  <2> QED BY <2>1, <2>2
<1>6. Typed'
  <2>1. inv' \in [Invoices -> [docstatus : Stages, out : Int]]
    <3>1. ASSUME NEW j \in Invoices PROVE inv'[j] \in [docstatus : Stages, out : Int]
      <4>1. CASE j = i
        <5>1. inv'[j] = [docstatus |-> "Submitted", out |-> IF Against[i] = None THEN Due(i) ELSE 0]
          BY <4>1 DEF SubmitsInvoice
        <5> QED BY <5>1, DueIsInt DEF Stages
      <4>2. CASE j # i /\ j = Against[i]
        <5>1. inv'[j] = [docstatus |-> inv[j].docstatus, out |-> inv[j].out + Due(i)]
          BY <4>2 DEF SubmitsInvoice
        <5>2. inv[j].docstatus \in Stages /\ inv[j].out + Due(i) \in Int
          BY DueIsInt, StoredRows DEF Core
        <5> QED BY <5>1, <5>2
      <4>3. CASE j # i /\ j # Against[i]
        BY <4>3 DEF SubmitsInvoice, Core, Typed
      <4> QED BY <4>1, <4>2, <4>3
    <3>2. inv' = [j \in Invoices |-> inv'[j]]
      BY DEF SubmitsInvoice
    <3> QED BY <3>1, <3>2
  <2>2. gl' \in [Invoices \cup Payments -> [posted : Int, reversed : Int]]
    <3>1. gl[i].posted + Due(i) \in Int
      <4>1. gl[i] \in [posted : Int, reversed : Int] /\ Due(i) \in Int
        BY DueIsInt DEF Core, Typed
      <4> QED BY <4>1
    <3> QED BY <3>1 DEF Core, Typed, SubmitsInvoice
  <2> QED BY <1>1, <2>1, <2>2 DEF Core, Typed
<1>7. Allocated'
  BY <1>1 DEF Core, Allocated
<1>8. Backed'
  <2>1. ASSUME NEW q \in Live, NEW k \in DOMAIN refs[q]
        PROVE  inv'[refs[q][k].invoice].docstatus = "Submitted" /\ Against[refs[q][k].invoice] = None
    <3>1. refs[q][k].invoice \in Invoices
      BY RowsArePositive DEF Core, Live
    <3> QED BY <1>2, <3>1 DEF Core, Backed, Invoiced
  <2>2. \A j \in Invoices : Against[j] # None /\ Invoiced(j)' => Invoiced(Against[j])'
    BY <1>1, <1>3, OriginalOf DEF Core, Backed
  <2> QED BY <1>1, <1>4, <2>1, <2>2 DEF Backed, Invoiced
<1>9. Entered'
  <2>1. \A q \in Payments : gl'[q] = gl[q]
    BY <1>5, PartyAssumption
  <2>2. \A j \in Invoices : /\ gl'[j].posted - gl'[j].reversed = IF Invoiced(j)' THEN Due(j) ELSE 0
                            /\ inv'[j].docstatus = "Draft" => gl'[j].posted = 0 /\ gl'[j].reversed = 0
                            /\ Invoiced(j)' => gl'[j].reversed = 0
    BY <1>2, <1>3, <1>5 DEF Core, Entered
  <2>3. \A q \in Payments :
          /\ gl'[q].posted - gl'[q].reversed = IF q \in Live' THEN Value(q) ELSE 0
          /\ pay'[q].docstatus \in {"Absent", "Draft"} => gl'[q].posted = 0 /\ gl'[q].reversed = 0
          /\ q \in Live' => gl'[q].reversed = 0
    BY <1>1, <1>4, <2>1 DEF Core, Entered
  <2> QED BY <2>2, <2>3 DEF Entered, Live
<1>10. AsOpen'
  <2> SUFFICES ASSUME NEW j \in Invoices PROVE inv'[j].out = Open(j)'
    BY DEF AsOpen
  <2>1. Settled(j)' = Settled(j)
    BY <1>1, <1>4, SettledSame DEF Takes
  <2>2. PICK d \in Int : d = IF Against[i] = j THEN Due(i) ELSE 0
    BY DueIsInt
  <2>3. Credited(j)' = Credited(j) + d
    <3>1. Returned(j, i) = 0 /\ Returned(j, i)' = d
      BY <1>1, <1>3, <2>2 DEF Returned
    <3>2. \A r \in Invoices \ {i} : Returned(j, r)' = Returned(j, r)
      BY <1>3 DEF Returned
    <3>3. Credited(j) \in Int
      BY PartsAreInts DEF Core
    <3> QED BY <3>1, <3>2, <3>3, CreditedChange DEF Core
  <2>4. inv[j].out = Open(j) /\ Due(j) \in Int /\ Credited(j) \in Int /\ Settled(j) \in Int
    BY DueIsInt, PartsAreInts DEF Core, AsOpen
  <2>5. Open(j) = IF ~Invoiced(j) \/ Against[j] # None THEN 0 ELSE Due(j) + Credited(j) - Settled(j)
    BY DEF Open
  <2>6. Open(j)' = IF ~(j = i \/ Invoiced(j)) \/ Against[j] # None THEN 0
                   ELSE Due(j) + (Credited(j) + d) - Settled(j)
    BY <1>3, <2>1, <2>3 DEF Open
  <2>7. CASE j = i
    <3>1. Settled(j) = 0 /\ Credited(j) = 0 /\ d = 0
      BY <1>1, <2>2, <2>7, NothingElsewhere, OriginalOf DEF Core
    <3> QED BY <1>2, <2>4, <2>6, <2>7, <3>1
  <2>8. CASE j # i
    <3>1. inv'[j].out = inv[j].out + d
      <4>1. inv[j].out \in Int
        BY StoredRows DEF Core
      <4> QED BY <1>2, <2>2, <2>8, <4>1
    <3>2. Against[i] = j => Invoiced(j) /\ Against[j] = None
      BY <1>1, OriginalOf, PartyAssumption
    <3> QED BY <2>2, <2>4, <2>5, <2>6, <2>8, <3>1, <3>2
  <2> QED BY <2>7, <2>8
<1> QED BY <1>6, <1>7, <1>8, <1>9, <1>10 DEF Core

LEMMA CancelInvoiceKeeps ==
  ASSUME PlainReturns, Core, NEW i \in Invoices, CancelsInvoice(i)
  PROVE  Core'
<1>1. Invoiced(i) /\ Untouched(i, inv[i].out) /\ pay' = pay /\ refs' = refs
  BY DEF CancelsInvoice
<1>2. /\ inv'[i].docstatus = "Cancelled" /\ inv'[i].out = 0
      /\ \A j \in Invoices \ {i} :
           /\ inv'[j].docstatus = inv[j].docstatus
           /\ inv'[j].out = IF j = Against[i] THEN inv[j].out - Gross[i] ELSE inv[j].out
  BY DEF CancelsInvoice
<1>3. \A j \in Invoices : Invoiced(j)' <=> j # i /\ Invoiced(j)
  BY <1>2 DEF Invoiced
<1>4. Live' = Live
  BY <1>1 DEF Live
<1>5. /\ \A p \in Live : i \notin Referenced(refs[p])
      /\ \A r \in Invoices : Against[r] = i => ~Invoiced(r)
  BY <1>1, FullMeansUntouched DEF Core
<1>6. /\ \A v \in Invoices \cup Payments : v # i => gl'[v] = gl[v]
      /\ gl'[i].posted - gl'[i].reversed = 0
  <2>1. gl[i].reversed = 0 /\ gl[i].posted \in Int /\ gl[i] \in [posted : Int, reversed : Int]
    BY <1>1 DEF Core, Entered, Typed
  <2>2. gl' = [gl EXCEPT ![i].reversed = @ + gl[i].posted] /\ i \in DOMAIN gl
    BY DEF CancelsInvoice, Core, Typed
  <2> QED BY <2>1, <2>2
<1>7. Typed'
  <2>1. inv' \in [Invoices -> [docstatus : Stages, out : Int]]
    <3>1. ASSUME NEW j \in Invoices PROVE inv'[j] \in [docstatus : Stages, out : Int]
      <4>1. CASE j = i
        <5>1. inv'[j] = [docstatus |-> "Cancelled", out |-> 0]
          BY <4>1 DEF CancelsInvoice
        <5> QED BY <5>1, DueIsInt DEF Stages
      <4>2. CASE j # i /\ j = Against[i]
        <5>1. inv'[j] = [docstatus |-> inv[j].docstatus, out |-> inv[j].out - Gross[i]]
          BY <4>2 DEF CancelsInvoice
        <5>2. inv[j].docstatus \in Stages /\ inv[j].out - Gross[i] \in Int
          BY DueAssumption, StoredRows DEF Core
        <5> QED BY <5>1, <5>2
      <4>3. CASE j # i /\ j # Against[i]
        BY <4>3 DEF CancelsInvoice, Core, Typed
      <4> QED BY <4>1, <4>2, <4>3
    <3>2. inv' = [j \in Invoices |-> inv'[j]]
      BY DEF CancelsInvoice
    <3> QED BY <3>1, <3>2
  <2>2. gl' \in [Invoices \cup Payments -> [posted : Int, reversed : Int]]
    <3>1. gl \in [Invoices \cup Payments -> [posted : Int, reversed : Int]]
      BY DEF Core, Typed
    <3>2. PICK n : n = gl[i].reversed + gl[i].posted
      OBVIOUS
    <3>3. gl[i].reversed \in Int /\ gl[i].posted \in Int
      BY <3>1
    <3>4. n \in Int
      BY <3>2, <3>3
    <3>5. gl' = [gl EXCEPT ![i].reversed = n]
      BY <3>2 DEF CancelsInvoice
    <3> QED BY <3>1, <3>4, <3>5
  <2> QED BY <1>1, <2>1, <2>2 DEF Core, Typed
<1>8. Allocated'
  BY <1>1 DEF Core, Allocated
<1>9. Backed'
  <2>1. ASSUME NEW q \in Live, NEW k \in DOMAIN refs[q]
        PROVE  inv'[refs[q][k].invoice].docstatus = "Submitted" /\ Against[refs[q][k].invoice] = None
    <3>1. refs[q][k].invoice \in Invoices /\ refs[q][k].invoice # i
      BY <1>5, RowsArePositive DEF Core, Live, Referenced
    <3> QED BY <1>2, <3>1 DEF Core, Backed, Invoiced
  <2>2. \A j \in Invoices : Against[j] # None /\ Invoiced(j)' => Invoiced(Against[j])'
    BY <1>3, <1>5, OriginalOf DEF Core, Backed
  <2> QED BY <1>1, <1>4, <2>1, <2>2 DEF Backed, Invoiced
<1>10. Entered'
  <2>1. \A q \in Payments : gl'[q] = gl[q]
    BY <1>6, PartyAssumption
  <2>2. \A j \in Invoices : /\ gl'[j].posted - gl'[j].reversed = IF Invoiced(j)' THEN Due(j) ELSE 0
                            /\ inv'[j].docstatus = "Draft" => gl'[j].posted = 0 /\ gl'[j].reversed = 0
                            /\ Invoiced(j)' => gl'[j].reversed = 0
    BY <1>2, <1>3, <1>6 DEF Core, Entered
  <2>3. \A q \in Payments :
          /\ gl'[q].posted - gl'[q].reversed = IF q \in Live' THEN Value(q) ELSE 0
          /\ pay'[q].docstatus \in {"Absent", "Draft"} => gl'[q].posted = 0 /\ gl'[q].reversed = 0
          /\ q \in Live' => gl'[q].reversed = 0
    BY <1>1, <1>4, <2>1 DEF Core, Entered
  <2> QED BY <2>2, <2>3 DEF Entered, Live
<1>11. AsOpen'
  <2> SUFFICES ASSUME NEW j \in Invoices PROVE inv'[j].out = Open(j)'
    BY DEF AsOpen
  <2>1. Settled(j)' = Settled(j)
    BY <1>1, <1>4, SettledSame DEF Takes
  <2>2. PICK d \in Int : d = IF Against[i] = j THEN Due(i) ELSE 0
    BY DueIsInt
  <2>3. Credited(j)' = Credited(j) - d
    <3>1. Returned(j, i) = d /\ Returned(j, i)' = 0
      BY <1>1, <1>3, <2>2 DEF Returned
    <3>2. \A r \in Invoices \ {i} : Returned(j, r)' = Returned(j, r)
      BY <1>3 DEF Returned
    <3>3. Credited(j) \in Int
      BY PartsAreInts DEF Core
    <3> QED BY <3>1, <3>2, <3>3, CreditedChange DEF Core
  <2>4. inv[j].out = Open(j) /\ Due(j) \in Int /\ Credited(j) \in Int /\ Settled(j) \in Int
    BY DueIsInt, PartsAreInts DEF Core, AsOpen
  <2>5. Open(j) = IF ~Invoiced(j) \/ Against[j] # None THEN 0 ELSE Due(j) + Credited(j) - Settled(j)
    BY DEF Open
  <2>6. Open(j)' = IF ~(j # i /\ Invoiced(j)) \/ Against[j] # None THEN 0
                   ELSE Due(j) + (Credited(j) - d) - Settled(j)
    BY <1>3, <2>1, <2>3 DEF Open
  <2>7. CASE j = i
    BY <1>2, <2>6, <2>7
  <2>8. CASE j # i
    <3>1. inv'[j].out = inv[j].out - d
      <4>1. inv[j].out \in Int
        BY StoredRows DEF Core
      <4>2. Against[i] = j => Due(i) = Gross[i]
        BY PartyAssumption, DueAssumption DEF PlainReturns, Due
      <4> QED BY <1>2, <2>2, <2>8, <4>1, <4>2
    <3>2. Against[i] = j => Invoiced(j) /\ Against[j] = None
      BY <1>1, OriginalOf, PartyAssumption DEF Core, Backed
    <3> QED BY <2>2, <2>4, <2>5, <2>6, <2>8, <3>1, <3>2
  <2> QED BY <2>7, <2>8
<1> QED BY <1>7, <1>8, <1>9, <1>10, <1>11 DEF Core

LEMMA CreatePaymentKeeps ==
  ASSUME Core, NEW p \in Payments, CreatePayment(p)
  PROVE  Core'
<1>1. PICK rows \in Asked[p] :
        /\ Total(rows) <= Paid[p] /\ refs' = [refs EXCEPT ![p] = rows]
        /\ pay' = [pay EXCEPT ![p] = [docstatus |-> "Draft", free |-> Unallocated(p, rows)]]
  BY DEF CreatePayment
<1>2. pay[p].docstatus = "Absent" /\ inv' = inv /\ gl' = gl
  BY DEF CreatePayment
<1>3. rows \in Seq([invoice : Invoices, amount : Nat \ {0}]) /\ Total(rows) \in Nat
  <2>1. rows \in Seq([invoice : Invoices, amount : Nat \ {0}])
    BY AskedAssumption
  <2>2. rows \in Rows
    <3>1. PICK A, B : A = [invoice : Invoices, amount : Nat \ {0}] /\ B = [invoice : Invoices, amount : Nat]
      OBVIOUS
    <3>2. A \subseteq B /\ rows \in Seq(A)
      BY <2>1, <3>1
    <3>3. rows \in Seq(B)
      BY <3>2, SeqMonotonic
    <3> QED BY <3>1, <3>3 DEF Rows
  <2> QED BY <2>1, <2>2, ClaimFacts
<1>4. \A q \in Payments : /\ q # p => pay'[q] = pay[q] /\ refs'[q] = refs[q]
                          /\ pay'[p].docstatus = "Draft" /\ pay'[p].free = Unallocated(p, rows)
                          /\ refs'[p] = rows
  BY <1>1 DEF Core, Typed
<1>5. p \notin Live /\ Live' = Live
  BY <1>2, <1>4 DEF Live
<1>6. Unallocated(p, rows) \in Int /\ Unallocated(p, rows) = Paid[p] - Total(rows) - Deducted[p]
      /\ (Deducted[p] = 0 => Unallocated(p, rows) >= 0)
  BY <1>1, <1>3, PaidAssumption DEF Unallocated
<1>7. Typed'
  <2>1. pay' \in [Payments -> [docstatus : Stages \cup {"Absent"}, free : Int]]
    BY <1>1, <1>6 DEF Core, Typed, Stages
  <2>2. \A q \in Payments : Deducted[q] = 0 => pay'[q].free >= 0
    BY <1>4, <1>6 DEF Core, Typed
  <2>3. refs' \in [Payments -> Seq([invoice : Invoices, amount : Nat \ {0}])]
    BY <1>1, <1>3 DEF Core, Typed
  <2> QED BY <1>2, <2>1, <2>2, <2>3 DEF Core, Typed
<1>8. Allocated'
  BY <1>1, <1>4, <1>6 DEF Core, Allocated
<1>9. Backed'
  <2>1. \A q \in Live : refs'[q] = refs[q]
    BY <1>4, <1>5 DEF Live
  <2> QED BY <1>2, <1>5, <2>1 DEF Core, Backed, Invoiced
<1>10. Entered'
  BY <1>2, <1>4, <1>5 DEF Core, Entered, Invoiced
<1>11. AsOpen'
  <2> SUFFICES ASSUME NEW i \in Invoices PROVE inv'[i].out = Open(i)'
    BY DEF AsOpen
  <2>1. Settled(i)' = Settled(i)
    <3>1. \A q \in Payments : Takes(i, q)' = Takes(i, q)
      BY <1>4, <1>5 DEF Takes
    <3> QED BY <3>1, SettledSame
  <2>2. Credited(i)' = Credited(i)
    BY <1>2, CreditedSame DEF Invoiced
  <2> QED BY <1>2, <2>1, <2>2 DEF Core, AsOpen, Open, Invoiced
<1> QED BY <1>7, <1>8, <1>9, <1>10, <1>11 DEF Core

-----------------------------------------------------------------------------
(* The party ledger *)

\* What invoices claim less what payments settle: matching moves neither.
LEMMA PartyLedgerAgreesWithBooks ==
  ASSUME PlainReceipts, Core
  PROVE  PartyLedgerAgrees
<1> DEFINE I == Invoices
           P == Payments
           entered == [i \in I |-> IF Invoiced(i) THEN Due(i) ELSE 0]
           value == [p \in P |-> IF p \in Live THEN Value(p) ELSE 0]
           free == [p \in P |-> IF p \in Live THEN pay[p].free ELSE 0]
           total == [p \in P |-> IF p \in Live THEN Total(refs[p]) ELSE 0]
           out == [i \in I |-> inv[i].out]
           own == [i \in I |-> IF Invoiced(i) /\ Against[i] = None THEN Due(i) ELSE 0]
           returned == [r \in I |-> IF Invoiced(r) /\ Against[r] # None THEN Due(r) ELSE 0]
           credited == [i \in I |-> Credited(i)]
           settled == [i \in I |-> Settled(i)]
           minus == [i \in I |-> -Settled(i)]
           change == [i \in I |-> credited[i] + minus[i]]
<1>1. IsFiniteSet(I) /\ IsFiniteSet(P)
  BY PartyAssumption
<1>2. \A i \in I : /\ Due(i) \in Int /\ entered[i] \in Int /\ own[i] \in Int /\ returned[i] \in Int
                   /\ credited[i] \in Int /\ settled[i] \in Int /\ minus[i] = -settled[i] /\ minus[i] \in Int
                   /\ change[i] \in Int /\ out[i] \in Int
  BY DueIsInt, PartsAreInts, StoredRows DEF Core
<1>3. \A p \in P : /\ value[p] \in Int /\ free[p] \in Int /\ total[p] \in Int
                   /\ value[p] = free[p] + total[p]
  <2> SUFFICES ASSUME NEW p \in P
               PROVE  /\ value[p] \in Int /\ free[p] \in Int /\ total[p] \in Int
                      /\ value[p] = free[p] + total[p]
    OBVIOUS
  <2>1. Total(refs[p]) \in Int /\ pay[p].free \in Int /\ Paid[p] \in Int /\ Deducted[p] \in Int
    BY RefsAreRows, ClaimFacts, StoredRows, PaidAssumption DEF Core
  <2>2. Value(p) = Paid[p] - Deducted[p]
    BY PaidAssumption, <2>1 DEF PlainReceipts, Value
  <2>3. p \in Live => pay[p].free = Paid[p] - Total(refs[p]) - Deducted[p]
    BY DEF Core, Allocated, Live
  <2> QED BY <2>1, <2>2, <2>3
<1>4. \A i \in I : entered[i] = own[i] + returned[i]
  BY <1>2
<1>5. \A i \in I : out[i] = own[i] + change[i]
  <2> SUFFICES ASSUME NEW i \in I PROVE out[i] = own[i] + change[i]
    OBVIOUS
  <2>1. out[i] = Open(i)
    BY DEF Core, AsOpen
  <2>2. ~Invoiced(i) \/ Against[i] # None => Settled(i) = 0 /\ Credited(i) = 0
    BY NothingElsewhere DEF Core
  <2>3. Due(i) \in Int /\ Credited(i) \in Int /\ Settled(i) \in Int
    BY <1>2
  <2>4. /\ own[i] = IF Invoiced(i) /\ Against[i] = None THEN Due(i) ELSE 0
        /\ change[i] = Credited(i) + (-Settled(i))
    OBVIOUS
  <2>5. Open(i) = IF ~Invoiced(i) \/ Against[i] # None THEN 0 ELSE Due(i) + Credited(i) - Settled(i)
    BY DEF Open
  <2> HIDE DEF own, change, out
  <2>6. CASE Invoiced(i) /\ Against[i] = None
    BY <2>1, <2>3, <2>4, <2>5, <2>6
  <2>7. CASE ~Invoiced(i) \/ Against[i] # None
    BY <2>1, <2>2, <2>4, <2>5, <2>7
  <2> QED BY <2>6, <2>7
<1>6. SumFunctionOnSet(credited, I) = SumFunctionOnSet(returned, I)
  <2> DEFINE f == [i \in I |-> [r \in I |-> Returned(i, r)]]
             col == [r \in I |-> SumFunctionOnSet([i \in I |-> f[i][r]], I)]
  <2>1. \A i \in I : \A r \in I : f[i][r] \in Int
    BY PartsAreInts DEF Core
  <2>2. credited = [i \in I |-> SumFunctionOnSet(f[i], I)]
    BY DEF Credited
  <2>3. SumFunctionOnSet([i \in I |-> SumFunctionOnSet(f[i], I)], I) = SumFunctionOnSet(col, I)
    <3> HIDE DEF f, I
    <3> QED BY <1>1, <2>1, SumSwap
  <2>4. \A r \in I : col[r] = returned[r]
    <3> SUFFICES ASSUME NEW r \in I PROVE col[r] = returned[r]
      OBVIOUS
    <3> DEFINE g == [i \in I |-> f[i][r]]
    <3>1. \A i \in I : g[i] = IF Against[r] = i /\ Invoiced(r) THEN Due(r) ELSE 0
      BY DEF Returned
    <3>2. \A i \in I : g[i] \in Int
      BY <2>1
    <3>3. CASE Against[r] = None
      <4>1. \A i \in I : g[i] = 0
        BY <3>1, <3>3, PartyAssumption
      <4>2. SumFunctionOnSet(g, I) = 0
        <5> HIDE DEF g, I
        <5> QED BY <1>1, <4>1, SumOfZeros
      <4> QED BY <3>3, <4>2
    <3>4. CASE Against[r] # None
      <4>1. PICK x \in I : x = Against[r]
        BY <3>4, OriginalOf
      <4>2. \A i \in I \ {x} : g[i] = 0
        BY <3>1, <4>1
      <4>3. SumFunctionOnSet(g, I) = g[x]
        <5> HIDE DEF g, I
        <5> QED BY <1>1, <3>2, <4>2, SumOfOne
      <4> QED BY <3>1, <3>4, <4>1, <4>3
    <3> QED BY <3>3, <3>4
  <2>5. SumFunctionOnSet(col, I) = SumFunctionOnSet(returned, I)
    <3> HIDE DEF col, returned, I
    <3> QED BY <1>1, <2>4, SumOfSame
  <2> HIDE DEF f, col, credited, returned
  <2> QED BY <2>2, <2>3, <2>5
<1>7. SumFunctionOnSet(settled, I) = SumFunctionOnSet(total, P)
  <2> DEFINE f == [i \in I |-> [p \in P |-> Takes(i, p)]]
             col == [p \in P |-> SumFunctionOnSet([i \in I |-> f[i][p]], I)]
  <2>1. \A i \in I : \A p \in P : f[i][p] \in Int
    BY PartsAreInts DEF Core
  <2>2. settled = [i \in I |-> SumFunctionOnSet(f[i], P)]
    BY DEF Settled
  <2>3. SumFunctionOnSet([i \in I |-> SumFunctionOnSet(f[i], P)], I) = SumFunctionOnSet(col, P)
    <3> HIDE DEF f, I, P
    <3> QED BY <1>1, <2>1, SumSwap
  <2>4. \A p \in P : col[p] = total[p]
    <3> SUFFICES ASSUME NEW p \in P PROVE col[p] = total[p]
      OBVIOUS
    <3> DEFINE g == [i \in I |-> f[i][p]]
    <3>1. CASE p \in Live
      <4>1. g = [i \in I |-> Claimed(refs[p], i)]
        BY <3>1 DEF Takes
      <4>2. SumFunctionOnSet([i \in I |-> Claimed(refs[p], i)], I) = Total(refs[p])
        BY RefsAreRows, ClaimsAddUp DEF Core
      <4> HIDE DEF g
      <4>3. SumFunctionOnSet(g, I) = Total(refs[p])
        BY <4>1, <4>2
      <4> QED BY <3>1, <4>3 DEF g
    <3>2. CASE p \notin Live
      <4>1. \A i \in I : g[i] = 0
        BY <3>2 DEF Takes
      <4>2. SumFunctionOnSet(g, I) = 0
        <5> HIDE DEF g, I
        <5> QED BY <1>1, <4>1, SumOfZeros
      <4> QED BY <3>2, <4>2
    <3> QED BY <3>1, <3>2
  <2>5. SumFunctionOnSet(col, P) = SumFunctionOnSet(total, P)
    <3> HIDE DEF col, total, P
    <3> QED BY <1>1, <2>4, SumOfSame
  <2> HIDE DEF f, col, settled, total
  <2> QED BY <2>2, <2>3, <2>5
<1> DEFINE rows == [v \in I \cup P |-> gl[v].posted - gl[v].reversed]
<1>8. (\A i \in I : rows[i] = entered[i]) /\ (\A p \in P : rows[p] = value[p])
  BY DEF Core, Entered
<1>9. minus = [i \in I |-> -settled[i]]
  OBVIOUS
<1>10. SumFunctionOnSet([p \in P |-> pay[p].free], Live) = SumFunctionOnSet(free, P)
  <2> DEFINE f == [p \in P |-> pay[p].free]
  <2>1. Live \in SUBSET P /\ (\A p \in Live : f[p] \in Int)
    BY StoredRows DEF Live, Core
  <2>2. free = [p \in P |-> IF p \in Live THEN f[p] ELSE 0]
    OBVIOUS
  <2>3. SumFunctionOnSet(f, Live) = SumFunctionOnSet([p \in P |-> IF p \in Live THEN f[p] ELSE 0], P)
    <3> HIDE DEF f, P
    <3> QED BY <1>1, <2>1, SumOfChosen
  <2> HIDE DEF free
  <2> QED BY <2>2, <2>3
<1>11. SumFunctionOnSet(rows, I) - SumFunctionOnSet(rows, P)
       = SumFunctionOnSet(out, I) - SumFunctionOnSet(free, P)
  <2> HIDE DEF I, P, rows, entered, value, free, total, out, own, returned, credited, settled, minus, change
  <2>1. SumFunctionOnSet(rows, I) = SumFunctionOnSet(entered, I)
    BY <1>1, <1>8, SumOfSame
  <2>2. SumFunctionOnSet(rows, P) = SumFunctionOnSet(value, P)
    BY <1>1, <1>8, SumOfSame
  <2>3. SumFunctionOnSet(entered, I) = SumFunctionOnSet(own, I) + SumFunctionOnSet(returned, I)
    BY <1>1, <1>2, <1>4, SumOfTwo
  <2>4. SumFunctionOnSet(out, I) = SumFunctionOnSet(own, I) + SumFunctionOnSet(change, I)
    BY <1>1, <1>2, <1>5, SumOfTwo
  <2>5. SumFunctionOnSet(change, I) = SumFunctionOnSet(credited, I) + SumFunctionOnSet(minus, I)
    BY <1>1, <1>2, SumOfTwo DEF change
  <2>6. SumFunctionOnSet(minus, I) = -SumFunctionOnSet(settled, I)
    BY <1>1, <1>2, <1>9, SumOfNegated
  <2>7. SumFunctionOnSet(value, P) = SumFunctionOnSet(free, P) + SumFunctionOnSet(total, P)
    BY <1>1, <1>3, SumOfTwo
  <2>8. /\ SumFunctionOnSet(own, I) \in Int /\ SumFunctionOnSet(returned, I) \in Int
        /\ SumFunctionOnSet(settled, I) \in Int
    BY <1>1, <1>2, SumIsInt
  <2>9. SumFunctionOnSet(free, P) \in Int /\ SumFunctionOnSet(total, P) \in Int
    BY <1>1, <1>3, SumIsInt
  <2> QED BY <1>6, <1>7, <2>1, <2>2, <2>3, <2>4, <2>5, <2>6, <2>7, <2>8, <2>9
<1>12. PartyLedgerAgrees <=> SumFunctionOnSet(rows, I) - SumFunctionOnSet(rows, P)
                             = SumFunctionOnSet(out, I) - SumFunctionOnSet([p \in P |-> pay[p].free], Live)
  BY DEF PartyLedgerAgrees
<1> HIDE DEF rows, out, free
<1> QED BY <1>10, <1>11, <1>12

-----------------------------------------------------------------------------
(* The invariant *)

LEMMA StartsSound == Init => Core /\ Current
<1> SUFFICES ASSUME Init PROVE Core /\ Current
  OBVIOUS
<1>1. /\ \A i \in Invoices : inv[i].docstatus = "Draft" /\ inv[i].out = 0 /\ ~Invoiced(i)
      /\ \A p \in Payments : pay[p].docstatus = "Absent" /\ pay[p].free = 0 /\ refs[p] = <<>>
      /\ \A v \in Invoices \cup Payments : gl[v].posted = 0 /\ gl[v].reversed = 0
      /\ Live = {}
  BY DEF Init, Live, Invoiced
<1>2. Typed
  BY <1>1 DEF Init, Typed, Stages
<1>3. Allocated /\ Backed
  BY <1>1 DEF Allocated, Backed
<1>4. Entered
  BY <1>1 DEF Entered
<1>5. AsOpen
  BY <1>1 DEF AsOpen, Open
<1>6. Current
  BY DEF Init, Current
<1> QED BY <1>2, <1>3, <1>4, <1>5, <1>6 DEF Core

\* Nothing stored changes when a request loads.
LEMMA LoadKeeps ==
  ASSUME Core, UNCHANGED <<inv, pay, refs, gl>>
  PROVE  Core'
<1>1. inv' = inv /\ pay' = pay /\ refs' = refs /\ gl' = gl
  OBVIOUS
<1>2. Live' = Live /\ \A i : Invoiced(i)' <=> Invoiced(i)
  BY <1>1 DEF Live, Invoiced
<1>3. Typed' /\ Allocated' /\ Backed' /\ Entered'
  <2>1. Typed'
    BY <1>1 DEF Core, Typed
  <2>2. Allocated'
    BY <1>1 DEF Core, Allocated
  <2>3. Backed'
    BY <1>1, <1>2 DEF Core, Backed
  <2>4. Entered'
    BY <1>1, <1>2 DEF Core, Entered
  <2> QED BY <2>1, <2>2, <2>3, <2>4
<1>4. AsOpen'
  <2> SUFFICES ASSUME NEW i \in Invoices PROVE inv'[i].out = Open(i)'
    BY DEF AsOpen
  <2>1. Settled(i)' = Settled(i) /\ Credited(i)' = Credited(i)
    BY <1>1, <1>2, SettledSame, CreditedSame DEF Takes
  <2> QED BY <1>1, <1>2, <2>1 DEF Core, AsOpen, Open
<1> QED BY <1>3, <1>4 DEF Core

\* A request is served alone: when it has been, none is in flight.
LEMMA DoneIsCurrent ==
  ASSUME OneAtATime, Current, NEW w \in Workers, work' = [work EXCEPT ![w] = Idle]
  PROVE  Current'
<1>1. Workers = {w}
  BY DEF OneAtATime
<1>2. work'[w] = Idle /\ DOMAIN work' = Workers
  BY DEF Current
<1> QED BY <1>1, <1>2 DEF Current

\* What a request loads is what is stored, and it holds what was checked.
LEMMA LoadIsCurrent ==
  ASSUME Current, OneAtATime, NEW w \in Workers, NEW op, NEW is, NEW p, NEW rows, Load(w, op, is, p, rows),
         Fresh([op |-> op, rows |-> rows, p |-> p, inv |-> [i \in is |-> inv[i]],
                pay |-> IF p = None THEN None ELSE pay[p]])
  PROVE  Current'
<1> DEFINE r == [op |-> op, rows |-> rows, p |-> p, inv |-> [i \in is |-> inv[i]],
                 pay |-> IF p = None THEN None ELSE pay[p]]
<1>1. work' = [work EXCEPT ![w] = r] /\ inv' = inv /\ pay' = pay /\ refs' = refs
  BY DEF Load
<1>2. work'[w] = r /\ DOMAIN work' = Workers /\ Workers = {w}
  BY <1>1 DEF Current, OneAtATime
<1>3. Fresh(r)
  OBVIOUS
<1>4. PICK x : x = r
  OBVIOUS
<1> HIDE DEF r
<1>5. Fresh(x)'
  <2>0. Fresh(x)
    BY <1>3, <1>4
  <2>1. CASE x.op = "submit payment" /\ OnPayment(x) /\ Submitting(x)
    BY <1>1, <2>1 DEF Fresh, OnPayment, Submitting
  <2>2. CASE x.op = "cancel payment" /\ OnPayment(x) /\ pay[x.p].docstatus = "Submitted"
    BY <1>1, <2>2 DEF Fresh, OnPayment
  <2>3. CASE x.op = "reconcile" /\ \E i \in Invoices, amount \in Amounts : Reconciling(x, i, amount)
    BY <1>1, <2>3 DEF Fresh, Reconciling, Invoiced
  <2>4. CASE /\ x.op = "submit invoice"
             /\ \E i \in Invoices : /\ OnInvoice(x, i) /\ inv[i].docstatus = "Draft"
                                    /\ \A o \in Original(i) : Invoiced(o)
    <3>1. PICK i \in Invoices : /\ OnInvoice(x, i) /\ inv[i].docstatus = "Draft"
                                /\ \A o \in Original(i) : Invoiced(o)
      BY <2>4
    <3>2. OnInvoice(x, i)' /\ inv'[i].docstatus = "Draft" /\ \A o \in Original(i) : Invoiced(o)'
      BY <1>1, <3>1 DEF OnInvoice, Invoiced
    <3> QED BY <2>4, <3>2 DEF Fresh
  <2>5. CASE /\ x.op = "cancel invoice"
             /\ \E i \in Invoices : OnInvoice(x, i) /\ Invoiced(i) /\ Untouched(i, inv[i].out)
    BY <1>1, <2>5 DEF Fresh, OnInvoice, Invoiced
  <2> QED BY <2>0, <2>1, <2>2, <2>3, <2>4, <2>5 DEF Fresh
<1>6. work'[w] = x
  BY <1>2, <1>4
<1> QED BY <1>2, <1>5, <1>6 DEF Current

LEMMA StepKeepsCore ==
  ASSUME OneAtATime, PlainReturns, Core, Current, Next
  PROVE  Core' /\ Current'
<1>1. ASSUME NEW p \in Payments, CreatePayment(p) PROVE Core' /\ Current'
  <2>1. Core'
    BY <1>1, CreatePaymentKeeps
  <2>2. /\ pay[p].docstatus = "Absent" /\ inv' = inv /\ work' = work
        /\ \A q \in Payments \ {p} : pay'[q] = pay[q] /\ refs'[q] = refs[q]
    BY <1>1 DEF CreatePayment, Core, Typed
  <2>3. ASSUME NEW w \in Workers, work[w] # Idle PROVE Fresh(work[w])'
    <3>1. PICK r : r = work[w] /\ r = work'[w]
      BY <2>2
    <3>2. Fresh(r)
      BY <2>3, <3>1 DEF Current
    <3>3. CASE r.op = "submit payment" /\ OnPayment(r) /\ Submitting(r)
      <4>1. r.p # p /\ r.p \in Payments
        BY <2>2, <3>3 DEF OnPayment, Submitting
      <4>2. pay'[r.p] = pay[r.p] /\ refs'[r.p] = refs[r.p]
        BY <2>2, <4>1
      <4>3. OnPayment(r)' /\ Submitting(r)'
        BY <2>2, <3>3, <4>2 DEF OnPayment, Submitting
      <4> QED BY <3>1, <3>3, <4>3 DEF Fresh
    <3>4. CASE r.op = "cancel payment" /\ OnPayment(r) /\ pay[r.p].docstatus = "Submitted"
      <4>1. r.p # p /\ r.p \in Payments
        BY <2>2, <3>4 DEF OnPayment
      <4>2. pay'[r.p] = pay[r.p] /\ refs'[r.p] = refs[r.p]
        BY <2>2, <4>1
      <4>3. OnPayment(r)'
        BY <2>2, <3>4, <4>2 DEF OnPayment
      <4> QED BY <3>1, <3>4, <4>2, <4>3 DEF Fresh
    <3>5. CASE r.op = "reconcile" /\ \E i \in Invoices, amount \in Amounts : Reconciling(r, i, amount)
      <4>1. PICK i \in Invoices, amount \in Amounts : Reconciling(r, i, amount)
        BY <3>5
      <4>2. r.p # p /\ r.p \in Payments
        BY <2>2, <4>1 DEF Reconciling
      <4>3. pay'[r.p] = pay[r.p]
        BY <2>2, <4>2
      <4>4. Reconciling(r, i, amount)'
        BY <2>2, <4>1, <4>3 DEF Reconciling, Invoiced
      <4> QED BY <3>1, <3>5, <4>4 DEF Fresh
    <3>6. CASE /\ r.op = "submit invoice"
               /\ \E i \in Invoices : /\ OnInvoice(r, i) /\ inv[i].docstatus = "Draft"
                                      /\ \A o \in Original(i) : Invoiced(o)
      BY <2>2, <3>1, <3>6 DEF Fresh, OnInvoice, Invoiced
    <3>7. CASE /\ r.op = "cancel invoice"
               /\ \E i \in Invoices : OnInvoice(r, i) /\ Invoiced(i) /\ Untouched(i, inv[i].out)
      BY <2>2, <3>1, <3>7 DEF Fresh, OnInvoice, Invoiced
    <3> QED BY <3>2, <3>3, <3>4, <3>5, <3>6, <3>7 DEF Fresh
  <2> QED BY <2>1, <2>2, <2>3 DEF Current
<1>2. ASSUME NEW w \in Workers, NEW p \in Payments, CheckSubmitPayment(w, p) PROVE Core' /\ Current'
  <2>1. Load(w, "submit payment", Referenced(refs[p]), p, refs[p]) /\ p # None
    BY <1>2, PartyAssumption DEF CheckSubmitPayment
  <2>2. Fresh([op |-> "submit payment", rows |-> refs[p], p |-> p,
               inv |-> [i \in Referenced(refs[p]) |-> inv[i]],
               pay |-> IF p = None THEN None ELSE pay[p]])
    BY <1>2, <2>1 DEF Fresh, OnPayment, Submitting, CheckSubmitPayment
  <2> QED BY <2>1, <2>2, LoadIsCurrent, LoadKeeps DEF Load
<1>3. ASSUME NEW w \in Workers, NEW p \in Payments, CheckCancelPayment(w, p) PROVE Core' /\ Current'
  <2>1. Load(w, "cancel payment", Referenced(refs[p]), p, refs[p]) /\ p # None
    BY <1>3, PartyAssumption DEF CheckCancelPayment
  <2>2. Fresh([op |-> "cancel payment", rows |-> refs[p], p |-> p,
               inv |-> [i \in Referenced(refs[p]) |-> inv[i]],
               pay |-> IF p = None THEN None ELSE pay[p]])
    BY <1>3, <2>1 DEF Fresh, OnPayment, CheckCancelPayment
  <2> QED BY <2>1, <2>2, LoadIsCurrent, LoadKeeps DEF Load
<1>4. ASSUME NEW w \in Workers, NEW p \in Payments, NEW i \in Invoices, NEW a \in Amounts,
             CheckReconcile(w, p, i, a)
      PROVE  Core' /\ Current'
  <2>1. Load(w, "reconcile", {i}, p, <<[invoice |-> i, amount |-> a]>>) /\ p # None
    BY <1>4, PartyAssumption DEF CheckReconcile
  <2>2. PICK r : r = [op |-> "reconcile", rows |-> <<[invoice |-> i, amount |-> a]>>, p |-> p,
                      inv |-> [j \in {i} |-> inv[j]],
                      pay |-> IF p = None THEN None ELSE pay[p]]
    OBVIOUS
  <2>3. Reconciling(r, i, a)
    BY <1>4, <2>1, <2>2 DEF Reconciling, Invoiced, CheckReconcile
  <2>4. Fresh(r)
    BY <2>2, <2>3 DEF Fresh
  <2> QED BY <2>1, <2>2, <2>4, LoadIsCurrent, LoadKeeps DEF Load
<1>5. ASSUME NEW w \in Workers, NEW i \in Invoices, CheckSubmitInvoice(w, i) PROVE Core' /\ Current'
  <2>1. Load(w, "submit invoice", {i} \cup Original(i), None, <<[invoice |-> i, amount |-> 0]>>)
    BY <1>5 DEF CheckSubmitInvoice
  <2>2. PICK r : r = [op |-> "submit invoice", rows |-> <<[invoice |-> i, amount |-> 0]>>, p |-> None,
                      inv |-> [j \in {i} \cup Original(i) |-> inv[j]],
                      pay |-> IF None = None THEN None ELSE pay[None]]
    OBVIOUS
  <2>3. OnInvoice(r, i) /\ inv[i].docstatus = "Draft" /\ \A o \in Original(i) : Invoiced(o)
    BY <1>5, <2>2 DEF OnInvoice, Invoiced, CheckSubmitInvoice
  <2>4. Fresh(r)
    BY <2>2, <2>3 DEF Fresh
  <2> QED BY <2>1, <2>2, <2>4, LoadIsCurrent, LoadKeeps DEF Load
<1>6. ASSUME NEW w \in Workers, NEW i \in Invoices, CheckCancelInvoice(w, i) PROVE Core' /\ Current'
  <2>1. Load(w, "cancel invoice", {i} \cup Original(i), None, <<[invoice |-> i, amount |-> 0]>>)
    BY <1>6 DEF CheckCancelInvoice
  <2>2. PICK r : r = [op |-> "cancel invoice", rows |-> <<[invoice |-> i, amount |-> 0]>>, p |-> None,
                      inv |-> [j \in {i} \cup Original(i) |-> inv[j]],
                      pay |-> IF None = None THEN None ELSE pay[None]]
    OBVIOUS
  <2>3. OnInvoice(r, i) /\ Invoiced(i) /\ Untouched(i, inv[i].out)
    BY <1>6, <2>2 DEF OnInvoice, Invoiced, CheckCancelInvoice
  <2>4. Fresh(r)
    BY <2>2, <2>3 DEF Fresh
  <2> QED BY <2>1, <2>2, <2>4, LoadIsCurrent, LoadKeeps DEF Load
<1>7. ASSUME NEW w \in Workers,
             \/ WriteSubmitPayment(w) \/ WriteCancelPayment(w) \/ WriteReconcile(w)
             \/ WriteSubmitInvoice(w) \/ WriteCancelInvoice(w)
      PROVE  Core' /\ Current'
  <2>1. /\ \/ \E p \in Payments : SubmitsPayment(p)
           \/ \E p \in Payments : CancelsPayment(p)
           \/ \E p \in Payments, i \in Invoices, amount \in Amounts : Reconciles(p, i, amount)
           \/ \E i \in Invoices : SubmitsInvoice(i)
           \/ \E i \in Invoices : CancelsInvoice(i)
        /\ work' = [work EXCEPT ![w] = Idle]
    BY <1>7, SubmitPaymentDoes, CancelPaymentDoes, ReconcileDoes, SubmitInvoiceDoes,
       CancelInvoiceDoes DEF Core
  <2>2. Core'
    BY <2>1, SubmitPaymentKeeps, CancelPaymentKeeps, ReconcileKeeps, SubmitInvoiceKeeps,
       CancelInvoiceKeeps
  <2> QED BY <2>1, <2>2, DoneIsCurrent
<1>8. ASSUME NEW w \in Workers, GiveUp(w) PROVE Core' /\ Current'
  BY <1>8, LoadKeeps, DoneIsCurrent DEF GiveUp, Done
<1> QED BY <1>1, <1>2, <1>3, <1>4, <1>5, <1>6, <1>7, <1>8 DEF Next

LEMMA StutterKeepsCore == Core /\ Current /\ UNCHANGED vars => Core' /\ Current'
<1> SUFFICES ASSUME Core, Current, UNCHANGED vars PROVE Core' /\ Current'
  OBVIOUS
<1>1. inv' = inv /\ pay' = pay /\ refs' = refs /\ gl' = gl /\ work' = work
  BY DEF vars
<1>2. ASSUME NEW w \in Workers, work[w] # Idle PROVE Fresh(work[w])'
  <2>1. Fresh(work[w])
    BY <1>2 DEF Current
  <2> QED BY <1>1, <2>1, ZenonT(60) DEF Fresh, OnPayment, Submitting, Reconciling, OnInvoice, Invoiced
<1>3. Current'
  BY <1>1, <1>2 DEF Current
<1> QED BY <1>1, <1>3, LoadKeeps

LEMMA KeptThroughout ==
  ASSUME OneAtATime, PlainReturns
  PROVE  Spec => [](Core /\ Current)
<1>1. Core /\ Current /\ [Next]_vars => (Core /\ Current)'
  BY StepKeepsCore, StutterKeepsCore
<1> QED BY <1>1, StartsSound, PTL DEF Spec

\* What the agreement of stored balances rests on: requests served one at a time,
\* returns without withholding of their own, receipts without deductions.  Then
\* every outstanding amount is what the submitted returns and payments leave of its
\* invoice, and the ledger balance of the party is its open invoices less its
\* unallocated payments.
THEOREM BalancesAgree ==
  ASSUME OneAtATime, PlainReturns, PlainReceipts
  PROVE  Spec => []BalancesAddUp
<1>1. Core /\ Current => BalancesAddUp
  <2> SUFFICES ASSUME Core, Current PROVE BalancesAddUp
    OBVIOUS
  <2>1. OutstandingIsLeft /\ PartyLedgerAgrees
    BY OutstandingIsOpen, PartyLedgerAgreesWithBooks DEF Core
  <2>2. ASSUME NEW w \in Workers, work[w] # Idle
        PROVE  Referenced(work[w].rows) \subseteq DOMAIN work[w].inv
    <3>1. PICK r : r = work[w]
      OBVIOUS
    <3>2. Fresh(r)
      BY <2>2, <3>1 DEF Current
    <3>3. ASSUME NEW i, NEW a, r.rows = <<[invoice |-> i, amount |-> a]>> PROVE Referenced(r.rows) = {i}
      BY <3>3 DEF Referenced
    <3>4. CASE OnPayment(r)
      BY <3>1, <3>4 DEF OnPayment
    <3>5. ASSUME NEW i \in Invoices, NEW a \in Amounts, Reconciling(r, i, a)
          PROVE  Referenced(r.rows) \subseteq DOMAIN r.inv
      <4>1. r.rows = <<[invoice |-> i, amount |-> a]>> /\ DOMAIN r.inv = {i}
        BY <3>5 DEF Reconciling
      <4> QED BY <3>3, <4>1
    <3>6. ASSUME NEW i \in Invoices, OnInvoice(r, i)
          PROVE  Referenced(r.rows) \subseteq DOMAIN r.inv
      <4>1. r.rows = <<[invoice |-> i, amount |-> 0]>> /\ i \in DOMAIN r.inv
        BY <3>6 DEF OnInvoice
      <4> QED BY <3>3, <4>1
    <3> QED BY <3>1, <3>2, <3>4, <3>5, <3>6 DEF Fresh
  <2> QED BY <2>1, <2>2 DEF BalancesAddUp, TypeOK, Core, Typed
<1> QED BY <1>1, KeptThroughout, PTL

-----------------------------------------------------------------------------
(* Every step is one of the books, or none *)

Stage(q) == IF pay[q].docstatus = "Absent" THEN "Draft" ELSE pay[q].docstatus
invoice == [i \in Invoices |-> inv[i].docstatus]
payment == [q \in Payments |-> Stage(q)]
matched == [q \in Payments |-> [i \in Invoices |-> IF q \in Live THEN Claimed(refs[q], i) ELSE 0]]

LEMMA BooksAre ==
  /\ Books!vars = <<invoice, payment, matched>>
  /\ \A i : Books!Issue(i) <=>
       /\ invoice[i] = "Draft"
       /\ Against[i] # None => invoice[Against[i]] = "Submitted"
       /\ invoice' = [invoice EXCEPT ![i] = "Submitted"]
       /\ payment' = payment /\ matched' = matched
  /\ \A i : Books!Withdraw(i) <=>
       /\ invoice[i] = "Submitted"
       /\ Books!Settled(i) = 0 /\ Books!Returns(i) = {}
       /\ invoice' = [invoice EXCEPT ![i] = "Cancelled"]
       /\ payment' = payment /\ matched' = matched
  /\ \A p, m : Books!Settle(p, m) <=>
       /\ payment[p] = "Draft"
       /\ \A i \in Invoices : m[i] > 0 => invoice[i] = "Submitted" /\ m[i] <= Books!Left(i)
       /\ SumFunctionOnSet(m, Invoices) <= [q \in Payments |-> Value(q)][p]
       /\ payment' = [payment EXCEPT ![p] = "Submitted"]
       /\ matched' = [matched EXCEPT ![p] = m]
       /\ invoice' = invoice
  /\ \A p, i, a : Books!Match(p, i, a) <=>
       /\ payment[p] = "Submitted" /\ invoice[i] = "Submitted"
       /\ a <= Books!Left(i)
       /\ SumFunctionOnSet(matched[p], Invoices) + a <= [q \in Payments |-> Value(q)][p]
       /\ matched' = [matched EXCEPT ![p][i] = @ + a]
       /\ invoice' = invoice /\ payment' = payment
  /\ \A p : Books!Release(p) <=>
       /\ payment[p] = "Submitted"
       /\ payment' = [payment EXCEPT ![p] = "Cancelled"]
       /\ matched' = [matched EXCEPT ![p] = [i \in Invoices |-> 0]]
       /\ invoice' = invoice
BY BooksSum DEF Books!vars, Books!Issue, Books!Withdraw, Books!Settle, Books!Match, Books!Release,
   Books!Used, invoice, payment, matched, Stage

\* What is settled of each invoice, when the rows of one payment change.
LEMMA MatchedChanges ==
  ASSUME NEW p \in Payments, NEW m,
         \A q \in Payments \ {p} : refs'[q] = refs[q] /\ (q \in Live' <=> q \in Live),
         \A i \in Invoices : (IF p \in Live' THEN Claimed(refs'[p], i) ELSE 0) = m[i],
         m = [i \in Invoices |-> m[i]]
  PROVE  matched' = [matched EXCEPT ![p] = m]
<1>1. PICK old : old = matched
  OBVIOUS
<1>2. PICK new : new = matched'
  OBVIOUS
<1>3. /\ old = [q \in Payments |-> old[q]] /\ new = [q \in Payments |-> new[q]]
      /\ \A q \in Payments \ {p} : new[q] = old[q]
      /\ new[p] = m
  BY <1>1, <1>2 DEF matched
<1>4. new = [old EXCEPT ![p] = m]
  BY <1>3
<1> QED BY <1>1, <1>2, <1>4

LEMMA StagesKept ==
  ASSUME \A i \in Invoices : inv'[i].docstatus = inv[i].docstatus
  PROVE  invoice' = invoice
BY DEF invoice

LEMMA StageChanges ==
  ASSUME NEW p \in Payments, NEW s, s # "Absent", pay'[p].docstatus = s,
         \A q \in Payments \ {p} : pay'[q] = pay[q]
  PROVE  payment' = [payment EXCEPT ![p] = s]
<1>1. PICK old : old = payment
  OBVIOUS
<1>2. PICK new : new = payment'
  OBVIOUS
<1>3. /\ old = [q \in Payments |-> old[q]] /\ new = [q \in Payments |-> new[q]]
      /\ \A q \in Payments \ {p} : new[q] = old[q]
      /\ new[p] = s
  BY <1>1, <1>2 DEF payment, Stage
<1>4. new = [old EXCEPT ![p] = s]
  BY <1>3
<1> QED BY <1>1, <1>2, <1>4

LEMMA InvoiceStageChanges ==
  ASSUME NEW i \in Invoices, NEW s, inv'[i].docstatus = s,
         \A j \in Invoices \ {i} : inv'[j].docstatus = inv[j].docstatus
  PROVE  invoice' = [invoice EXCEPT ![i] = s]
<1>1. PICK old : old = invoice
  OBVIOUS
<1>2. PICK new : new = invoice'
  OBVIOUS
<1>3. /\ old = [j \in Invoices |-> old[j]] /\ new = [j \in Invoices |-> new[j]]
      /\ \A j \in Invoices \ {i} : new[j] = old[j]
      /\ new[i] = s
  BY <1>1, <1>2 DEF invoice
<1>4. new = [old EXCEPT ![i] = s]
  BY <1>3
<1> QED BY <1>1, <1>2, <1>4

LEMMA LoadingIsNoStep ==
  ASSUME UNCHANGED <<inv, pay, refs>>
  PROVE  invoice' = invoice /\ payment' = payment /\ matched' = matched
<1>1. inv' = inv /\ pay' = pay /\ refs' = refs /\ Live' = Live
  BY DEF Live
<1> QED BY <1>1 DEF invoice, payment, matched, Stage

LEMMA CreatingIsNoStep ==
  ASSUME Core, NEW p \in Payments, CreatePayment(p)
  PROVE  invoice' = invoice /\ payment' = payment /\ matched' = matched
<1>1. /\ pay[p].docstatus = "Absent" /\ inv' = inv /\ pay'[p].docstatus = "Draft"
      /\ \A q \in Payments \ {p} : pay'[q] = pay[q] /\ refs'[q] = refs[q]
  BY DEF CreatePayment, Core, Typed
<1>2. Live' = Live /\ p \notin Live
  BY <1>1 DEF Live
<1>3. \A q \in Payments : Stage(q)' = Stage(q)
  BY <1>1 DEF Stage
<1> QED BY <1>1, <1>2, <1>3 DEF invoice, payment, matched

\* Rows that name an invoice once claim of it what its row says, and that fits.
LEMMA SubmittingSettles ==
  ASSUME DistinctRows, Core, NEW p \in Payments, SubmitsPayment(p)
  PROVE  Books!Settle(p, matched'[p])
<1> DEFINE R == refs[p]
           m == [i \in Invoices |-> Claimed(R, i)]
<1>1. /\ pay[p].docstatus = "Draft" /\ refs' = refs /\ R \in Rows /\ R \in Asked[p]
      /\ \A k \in DOMAIN R : R[k].amount <= inv[R[k].invoice].out
  BY RefsAreRows DEF Core, SubmitsPayment, Allocated, Fits
<1>2. \A q \in Payments : /\ q # p => pay'[q] = pay[q]
                          /\ pay'[p].docstatus = "Submitted"
  BY DEF SubmitsPayment, Core, Typed
<1>3. \A q \in Payments \ {p} : refs'[q] = refs[q] /\ (q \in Live' <=> q \in Live)
  BY <1>1, <1>2 DEF Live
<1>4. p \in Live' /\ refs'[p] = R
  BY <1>1, <1>2 DEF Live
<1>5. matched' = [matched EXCEPT ![p] = m] /\ matched'[p] = m
  <2>1. PICK c : c = m
    OBVIOUS
  <2>2. c = [i \in Invoices |-> c[i]] /\ \A i \in Invoices : (IF p \in Live' THEN Claimed(refs'[p], i) ELSE 0) = c[i]
    BY <1>4, <2>1
  <2>3. matched' = [matched EXCEPT ![p] = c]
    BY <1>3, <2>2, MatchedChanges
  <2>4. p \in DOMAIN matched
    BY DEF matched
  <2> HIDE DEF m
  <2> QED BY <2>1, <2>3, <2>4
<1>6. payment[p] = "Draft" /\ payment' = [payment EXCEPT ![p] = "Submitted"]
  BY <1>1, <1>2, StageChanges DEF payment, Stage
<1>7. invoice' = invoice
  BY StagesKept DEF SubmitsPayment
<1>8. ASSUME NEW i \in Invoices, m[i] > 0
      PROVE  invoice[i] = "Submitted" /\ m[i] <= Books!Left(i)
  <2>1. PICK k \in DOMAIN R : R[k].invoice = i
    BY <1>8, Unnamed DEF Core
  <2>2. m[i] = R[k].amount
    BY <1>1, <2>1, ClaimOfDistinct DEF DistinctRows
  <2>3. R[k].amount \in Nat \ {0} /\ R[k].amount <= inv[i].out
    BY <1>1, <2>1, RowsArePositive DEF Core
  <2>4. Invoiced(i)
    BY <2>3, FittingIsOpen DEF Core
  <2>5. Books!Left(i) = inv[i].out
    BY LeftIsOpen DEF Core, AsOpen
  <2> QED BY <2>2, <2>3, <2>4, <2>5 DEF Invoiced, invoice
<1>9. SumFunctionOnSet(m, Invoices) <= [q \in Payments |-> Value(q)][p]
  <2>1. SumFunctionOnSet(m, Invoices) = Total(R)
    BY <1>1, ClaimsAddUp
  <2>2. Total(R) <= Value(p)
    <3>1. Allocated' /\ p \in Payments
      BY SubmitPaymentKeeps DEF Core
    <3> QED BY <1>2, <1>4, <3>1 DEF Allocated
  <2> HIDE DEF m, R
  <2> QED BY <2>1, <2>2
<1>10. PICK c : c = m
  OBVIOUS
<1> HIDE DEF m
<1>11. Books!Settle(p, c) /\ matched'[p] = c
  BY <1>5, <1>6, <1>7, <1>8, <1>9, <1>10, BooksAre
<1> QED BY <1>11 DEF Books!Settle

LEMMA CancellingReleases ==
  ASSUME Core, NEW p \in Payments, CancelsPayment(p)
  PROVE  Books!Release(p)
<1>1. pay[p].docstatus = "Submitted" /\ refs' = refs
  BY DEF CancelsPayment
<1>2. \A q \in Payments : /\ q # p => pay'[q] = pay[q]
                          /\ pay'[p].docstatus = "Cancelled"
  BY DEF CancelsPayment, Core, Typed
<1>3. /\ \A q \in Payments \ {p} : refs'[q] = refs[q] /\ (q \in Live' <=> q \in Live)
      /\ p \notin Live'
  BY <1>1, <1>2 DEF Live
<1>4. matched' = [matched EXCEPT ![p] = [i \in Invoices |-> 0]]
  <2>1. PICK c : c = [i \in Invoices |-> 0]
    OBVIOUS
  <2>2. c = [i \in Invoices |-> c[i]] /\ \A i \in Invoices : (IF p \in Live' THEN Claimed(refs'[p], i) ELSE 0) = c[i]
    BY <1>3, <2>1
  <2>3. matched' = [matched EXCEPT ![p] = c]
    BY <1>3, <2>2, MatchedChanges
  <2> QED BY <2>1, <2>3
<1>5. payment[p] = "Submitted" /\ payment' = [payment EXCEPT ![p] = "Cancelled"]
  BY <1>1, <1>2, StageChanges DEF payment, Stage
<1>6. invoice' = invoice
  BY StagesKept DEF CancelsPayment
<1> QED BY <1>4, <1>5, <1>6, BooksAre

LEMMA ReconcilingMatches ==
  ASSUME Core, NEW p \in Payments, NEW i \in Invoices, NEW amount \in Amounts, Reconciles(p, i, amount)
  PROVE  /\ matched'[p][i] - matched[p][i] = amount
         /\ matched'[p][i] > matched[p][i]
         /\ Books!Match(p, i, amount)
<1> DEFINE R == refs[p]
           more == R \o <<[invoice |-> i, amount |-> amount]>>
<1>1. /\ pay[p].docstatus = "Submitted" /\ p \in Live /\ amount \in Nat \ {0}
      /\ amount <= pay[p].free /\ amount <= inv[i].out /\ Invoiced(i)
  BY PaidAssumption DEF Reconciles, Live
<1>2. /\ R \in Rows /\ Total(R) \in Nat
      /\ \A j \in Invoices : /\ Claimed(R, j) \in Nat
                             /\ Claimed(more, j) = Claimed(R, j) + (IF j = i THEN amount ELSE 0)
  <2>1. R \in Rows /\ amount \in Nat
    BY <1>1, RefsAreRows DEF Core
  <2>2. Total(R) \in Nat /\ \A j \in Invoices : Claimed(R, j) \in Nat
    BY <2>1, ClaimFacts
  <2> HIDE DEF R
  <2> QED BY <2>1, <2>2, ClaimsOfMore
<1>3. \A q \in Payments : /\ q # p => pay'[q] = pay[q] /\ refs'[q] = refs[q]
                          /\ pay'[p].docstatus = "Submitted" /\ refs'[p] = more
  BY DEF Reconciles, Core, Typed
<1>4. /\ \A q \in Payments \ {p} : refs'[q] = refs[q] /\ (q \in Live' <=> q \in Live)
      /\ p \in Live'
  BY <1>3 DEF Live
<1>5. \A j \in Invoices : matched[p][j] = Claimed(R, j) /\ matched'[p][j] = Claimed(more, j)
  BY <1>1, <1>3, <1>4 DEF matched
<1>6. matched' = [matched EXCEPT ![p][i] = @ + amount]
  <2>1. PICK c : c = [j \in Invoices |-> Claimed(more, j)]
    OBVIOUS
  <2>2. c = [j \in Invoices |-> c[j]] /\ \A j \in Invoices : (IF p \in Live' THEN Claimed(refs'[p], j) ELSE 0) = c[j]
    BY <1>3, <1>4, <2>1
  <2>3. matched' = [matched EXCEPT ![p] = c]
    BY <1>4, <2>2, MatchedChanges
  <2>4. c = [matched[p] EXCEPT ![i] = @ + amount]
    <3>1. matched[p] = [j \in Invoices |-> Claimed(R, j)]
      BY <1>1 DEF matched
    <3>2. \A j \in Invoices : c[j] = IF j = i THEN Claimed(R, j) + amount ELSE Claimed(R, j)
      BY <1>2, <2>1
    <3> HIDE DEF R, more
    <3> QED BY <2>2, <3>1, <3>2
  <2> QED BY <2>3, <2>4
<1>7. payment[p] = "Submitted" /\ payment' = payment
  <2>1. \A q \in Payments : Stage(q)' = Stage(q)
    BY <1>1, <1>3 DEF Stage
  <2> QED BY <1>1, <2>1 DEF payment, Stage
<1>8. invoice[i] = "Submitted" /\ invoice' = invoice
  BY <1>1, StagesKept DEF Reconciles, Invoiced, invoice
<1>9. amount <= Books!Left(i)
  BY <1>1, LeftIsOpen DEF Core, AsOpen
<1>10. SumFunctionOnSet(matched[p], Invoices) + amount <= [q \in Payments |-> Value(q)][p]
  <2>1. matched[p] = [j \in Invoices |-> Claimed(R, j)]
    BY <1>1 DEF matched
  <2>2. SumFunctionOnSet([j \in Invoices |-> Claimed(R, j)], Invoices) = Total(R)
    BY <1>2, ClaimsAddUp
  <2>3. /\ pay[p].free = Paid[p] - Total(R) - Deducted[p] /\ Paid[p] - Deducted[p] <= Value(p)
        /\ Paid[p] \in Int /\ Deducted[p] \in Int /\ Value(p) \in Int
    BY <1>1, PaidAssumption DEF Core, Allocated, Value
  <2> HIDE DEF R, more
  <2> QED BY <1>1, <1>2, <2>1, <2>2, <2>3
<1>11. matched'[p][i] - matched[p][i] = amount /\ matched'[p][i] > matched[p][i]
  <2> HIDE DEF R, more
  <2>1. Claimed(R, i) \in Nat /\ Claimed(more, i) = Claimed(R, i) + amount
    BY <1>2
  <2> QED BY <1>1, <1>5, <2>1
<1> HIDE DEF R, more
<1> QED BY <1>6, <1>7, <1>8, <1>9, <1>10, <1>11, BooksAre

LEMMA SubmittingIssues ==
  ASSUME Core, NEW i \in Invoices, SubmitsInvoice(i)
  PROVE  Books!Issue(i)
<1>1. /\ inv[i].docstatus = "Draft" /\ pay' = pay /\ refs' = refs
      /\ Against[i] # None => Invoiced(Against[i])
      /\ inv'[i].docstatus = "Submitted"
      /\ \A j \in Invoices \ {i} : inv'[j].docstatus = inv[j].docstatus
  BY DEF SubmitsInvoice
<1>2. invoice[i] = "Draft" /\ (Against[i] # None => invoice[Against[i]] = "Submitted")
  BY <1>1, OriginalOf DEF invoice, Invoiced
<1>3. invoice' = [invoice EXCEPT ![i] = "Submitted"]
  BY <1>1, InvoiceStageChanges
<1>4. payment' = payment /\ matched' = matched
  BY <1>1 DEF payment, matched, Stage, Live
<1> QED BY <1>2, <1>3, <1>4, BooksAre

LEMMA CancellingWithdraws ==
  ASSUME PlainReturns, Core, NEW i \in Invoices, CancelsInvoice(i)
  PROVE  Books!Withdraw(i)
<1>1. /\ Invoiced(i) /\ Untouched(i, inv[i].out) /\ pay' = pay /\ refs' = refs
      /\ inv'[i].docstatus = "Cancelled"
      /\ \A j \in Invoices \ {i} : inv'[j].docstatus = inv[j].docstatus
  BY DEF CancelsInvoice
<1>2. invoice[i] = "Submitted"
  BY <1>1 DEF invoice, Invoiced
<1>3. invoice' = [invoice EXCEPT ![i] = "Cancelled"]
  BY <1>1, InvoiceStageChanges
<1>4. payment' = payment /\ matched' = matched
  BY <1>1 DEF payment, matched, Stage, Live
<1>5. Settled(i) = 0 /\ \A r \in Invoices : Against[r] = i => ~Invoiced(r)
  BY <1>1, FullMeansUntouched DEF Core
<1>6. Books!Settled(i) = 0
  BY <1>5, BooksSettled DEF Core
<1>7. Books!Returns(i) = {}
  BY <1>5 DEF Books!Returns, Invoiced
<1> QED BY <1>2, <1>3, <1>4, <1>6, <1>7, BooksAre

\* What the agreement of outstanding amounts is for: with requests served one at a
\* time, returns without withholding of their own and no invoice named twice in an
\* entry, every step on the stored balances is one that open-item bookkeeping allows.
\* No invoice is settled beyond what is left of it, no payment used twice, and no
\* settled or credited invoice cancelled.
THEOREM KeepsTheBooks ==
  ASSUME OneAtATime, PlainReturns, DistinctRows
  PROVE  Spec => ImplementsBooks
<1>1. Init => Books!Init
  BY DEF Init, Books!Init, Live
<1>2. Core /\ Current /\ [Next]_vars => [Books!Next]_(Books!vars)
  <2> SUFFICES ASSUME Core, Current, [Next]_vars PROVE [Books!Next]_(Books!vars)
    OBVIOUS
  <2>1. Books!vars = <<invoice, payment, matched>>
    BY BooksAre
  <2>2. ASSUME invoice' = invoice /\ payment' = payment /\ matched' = matched
        PROVE  UNCHANGED Books!vars
    BY <2>2 DEF Books!vars, invoice, payment, matched, Stage
  <2>3. CASE UNCHANGED vars
    BY <2>2, <2>3, LoadingIsNoStep DEF vars
  <2>4. ASSUME NEW p \in Payments, CreatePayment(p) PROVE UNCHANGED Books!vars
    BY <2>2, <2>4, CreatingIsNoStep
  <2>5. ASSUME UNCHANGED <<inv, pay, refs, gl>> PROVE UNCHANGED Books!vars
    BY <2>2, <2>5, LoadingIsNoStep
  <2>6. ASSUME NEW p \in Payments, SubmitsPayment(p) PROVE Books!Next
    <3>1. Books!Settle(p, matched'[p])
      BY <2>6, SubmittingSettles
    <3> QED BY <3>1 DEF Books!Next, Books!Settle, matched
  <2>7. ASSUME NEW p \in Payments, CancelsPayment(p) PROVE Books!Next
    BY <2>7, CancellingReleases DEF Books!Next
  <2>8. ASSUME NEW p \in Payments, NEW i \in Invoices, NEW a \in Amounts, Reconciles(p, i, a)
        PROVE  Books!Next
    <3>1. /\ matched'[p][i] - matched[p][i] = a /\ matched'[p][i] > matched[p][i]
          /\ Books!Match(p, i, a)
      BY <2>8, ReconcilingMatches
    <3>2. Books!Match(p, i, matched'[p][i] - matched[p][i])
      BY <3>1 DEF Books!Match
    <3> QED BY <3>1, <3>2 DEF Books!Next, matched
  <2>9. ASSUME NEW i \in Invoices, SubmitsInvoice(i) PROVE Books!Next
    BY <2>9, SubmittingIssues DEF Books!Next
  <2>10. ASSUME NEW i \in Invoices, CancelsInvoice(i) PROVE Books!Next
    BY <2>10, CancellingWithdraws DEF Books!Next
  <2>11. ASSUME NEW w \in Workers,
                \/ WriteSubmitPayment(w) \/ WriteCancelPayment(w) \/ WriteReconcile(w)
                \/ WriteSubmitInvoice(w) \/ WriteCancelInvoice(w)
         PROVE  Books!Next
    BY <2>6, <2>7, <2>8, <2>9, <2>10, <2>11, SubmitPaymentDoes, CancelPaymentDoes, ReconcileDoes,
       SubmitInvoiceDoes, CancelInvoiceDoes DEF Core
  <2>12. ASSUME NEW w \in Workers,
                \/ \E p \in Payments : CheckSubmitPayment(w, p) \/ CheckCancelPayment(w, p)
                \/ \E p \in Payments, i \in Invoices, a \in Amounts : CheckReconcile(w, p, i, a)
                \/ \E i \in Invoices : CheckSubmitInvoice(w, i) \/ CheckCancelInvoice(w, i)
                \/ GiveUp(w)
         PROVE  UNCHANGED <<inv, pay, refs, gl>>
    BY <2>12 DEF CheckSubmitPayment, CheckCancelPayment, CheckReconcile, CheckSubmitInvoice,
         CheckCancelInvoice, GiveUp, Load
  <2> QED BY <2>3, <2>4, <2>5, <2>11, <2>12 DEF Next
<1> QED BY <1>1, <1>2, KeptThroughout, PTL DEF Spec, ImplementsBooks, Books!Spec

-----------------------------------------------------------------------------
(* Bank reconciliation: the two sides of a match agree, for any statement, *)
(* any vouchers and any dates, whichever screen a match is made, undone or *)
(* cancelled from, and wherever a request that makes the voucher of a line *)
(* is cut short.                                                           *)

(* The inductive invariant.  BankFollowsStatement does not say why marking *)
(* the line of a request is sound: its line is still free, its voucher has *)
(* the amount of the line and nobody else names it, because every other    *)
(* handler refuses the line and the voucher of the request.                *)

Making ==
  making # Nobody =>
    /\ line[making.line].status = "Unreconciled"
    /\ voucher[making.voucher].amount = AmountOf[making.line]
    /\ \A l \in Lines : line[l].voucher # making.voucher
    /\ making.stage = "drafted" => voucher[making.voucher].docstatus = "Draft"
    /\ making.stage # "drafted" => voucher[making.voucher].docstatus = "Submitted"
    /\ making.stage = "cleared" => voucher[making.voucher].cleared = DateOf[making.line]

\* drafts and absent vouchers are not cleared yet
DraftsUncleared ==
  \A v \in Vouchers :
    voucher[v].docstatus \in {"Absent", "Draft"} => voucher[v].cleared = NoDate

\* the types of BTypeOK
LineRow == [status : Statuses, voucher : Vouchers \cup {NoVoucher}, made : BOOLEAN]
VoucherRow == [docstatus : {"Absent", "Draft", "Submitted", "Cancelled"},
               amount : Int, cleared : Dates \cup {NoDate}]
Requests == [line : Lines, voucher : Vouchers, stage : {"drafted", "submitted", "cleared"}]
            \cup {Nobody}

BankInv == BankFollowsStatement /\ Making /\ DraftsUncleared

LEMMA ImportLineKeeps ==
  ASSUME NEW l \in Lines, BankInv, ImportLine(l)
  PROVE  BankInv'
<1> USE DEF ImportLine, Free
<1>1. BTypeOK'
  BY DEF BankInv, BankFollowsStatement, BTypeOK, Statuses, Reconciled
<1>2. MatchIsMutual'
  BY <1>1 DEF BankInv, BankFollowsStatement, MatchIsMutual, BTypeOK
<1>3. ClearedIsOnStatement'
  BY DEF BankInv, BankFollowsStatement, ClearedIsOnStatement, BTypeOK, Reconciled
<1>4. Making'
  BY <1>1, BankAssumption DEF BankInv, Making, BTypeOK
<1>5. DraftsUncleared'
  BY DEF BankInv, DraftsUncleared
<1> QED BY <1>1, <1>2, <1>3, <1>4, <1>5 DEF BankInv, BankFollowsStatement

LEMMA DeleteLineKeeps ==
  ASSUME NEW l \in Lines, BankInv, DeleteLine(l)
  PROVE  BankInv'
<1> USE DEF DeleteLine
<1>1. BTypeOK'
  BY DEF BankInv, BankFollowsStatement, BTypeOK, Statuses, Reconciled
<1>2. MatchIsMutual'
  BY DEF BankInv, BankFollowsStatement, MatchIsMutual, Reconciled
<1>3. ClearedIsOnStatement'
  BY DEF BankInv, BankFollowsStatement, ClearedIsOnStatement
<1>4. Making'
  BY DEF BankInv, Making
<1>5. DraftsUncleared'
  BY DEF BankInv, DraftsUncleared
<1> QED BY <1>1, <1>2, <1>3, <1>4, <1>5 DEF BankInv, BankFollowsStatement

LEMMA UnreconcileKeeps ==
  ASSUME NEW l \in Lines, BankInv, Unreconcile(l)
  PROVE  BankInv'
<1> USE DEF Unreconcile, Unmatched, Free
<1>1. BTypeOK'
  <2>1. line' \in [Lines -> LineRow]
    BY DEF BankInv, BankFollowsStatement, BTypeOK, LineRow, Statuses
  <2>2. voucher' \in [Vouchers -> VoucherRow]
    BY DEF BankInv, BankFollowsStatement, BTypeOK, VoucherRow
  <2>3. \A i \in Lines : Reconciled(i)' <=> line'[i].voucher # NoVoucher
    BY DEF BankInv, BankFollowsStatement, BTypeOK, Reconciled
  <2>4. making' \in Requests
    BY DEF BankInv, BankFollowsStatement, BTypeOK, Requests
  <2>5. byHand' \in SUBSET Vouchers /\ adrift' \in SUBSET Vouchers
    BY DEF BankInv, BankFollowsStatement, BTypeOK
  <2> QED BY <2>1, <2>2, <2>3, <2>4, <2>5 DEF BTypeOK, LineRow, VoucherRow, Requests
<1>2. MatchIsMutual'
  BY <1>1 DEF BankInv, BankFollowsStatement, MatchIsMutual, BTypeOK
<1>3. ClearedIsOnStatement'
  BY DEF BankInv, BankFollowsStatement, ClearedIsOnStatement, BTypeOK
<1>4. Making'
  BY <1>1, BankAssumption DEF BankInv, Making, BTypeOK
<1>5. DraftsUncleared'
  BY DEF BankInv, DraftsUncleared
<1> QED BY <1>1, <1>2, <1>3, <1>4, <1>5 DEF BankInv, BankFollowsStatement

LEMMA DraftType ==
  ASSUME NEW a \in Int, NEW r, r = [Blank EXCEPT !.docstatus = "Draft", !.amount = a]
  PROVE  r \in VoucherRow /\ r.docstatus = "Draft" /\ r.cleared = NoDate
BY DEF Blank, VoucherRow

LEMMA EnterVoucherKeeps ==
  ASSUME NEW v \in Vouchers, BankInv, EnterVoucher(v)
  PROVE  BankInv'
<1>a. PICK k \in Lines :
        voucher' = [voucher EXCEPT ![v] = [Blank EXCEPT !.docstatus = "Draft", !.amount = AmountOf[k]]]
  BY DEF EnterVoucher
<1>b. AmountOf[k] \in Int
  BY BankAssumption
<1>0. PICK r \in VoucherRow :
        voucher' = [voucher EXCEPT ![v] = r] /\ r.docstatus = "Draft" /\ r.cleared = NoDate
  BY <1>a, <1>b, DraftType
<1>c. voucher[v] = Blank /\ UNCHANGED <<line, making, byHand, adrift>>
  BY DEF EnterVoucher
<1> USE <1>c
<1>d. /\ voucher'[v].docstatus = "Draft" /\ voucher'[v].cleared = NoDate
      /\ \A w \in Vouchers : w # v => voucher'[w] = voucher[w]
      /\ voucher[v].docstatus = "Absent" /\ voucher[v].cleared = NoDate
  BY <1>0 DEF BankInv, BankFollowsStatement, BTypeOK, Blank
<1>1. BTypeOK'
  <2>1. line' \in [Lines -> LineRow]
    BY <1>0 DEF BankInv, BankFollowsStatement, BTypeOK, LineRow, Statuses
  <2>2. voucher' \in [Vouchers -> VoucherRow]
    BY <1>0 DEF BankInv, BankFollowsStatement, BTypeOK, VoucherRow
  <2>3. \A i \in Lines : Reconciled(i)' <=> line'[i].voucher # NoVoucher
    BY <1>0 DEF BankInv, BankFollowsStatement, BTypeOK, Reconciled
  <2>4. making' \in Requests
    BY <1>0 DEF BankInv, BankFollowsStatement, BTypeOK, Requests
  <2>5. byHand' \in SUBSET Vouchers /\ adrift' \in SUBSET Vouchers
    BY <1>0 DEF BankInv, BankFollowsStatement, BTypeOK
  <2> QED BY <2>1, <2>2, <2>3, <2>4, <2>5 DEF BTypeOK, LineRow, VoucherRow, Requests
<1>2. MatchIsMutual'
  BY <1>d DEF BankInv, BankFollowsStatement, BTypeOK, MatchIsMutual, Reconciled
<1>3. ClearedIsOnStatement'
  BY <1>d DEF BankInv, BankFollowsStatement, BTypeOK, ClearedIsOnStatement
<1>4. Making'
  BY <1>d DEF BankInv, BankFollowsStatement, BTypeOK, Making
<1>5. DraftsUncleared'
  BY <1>d DEF BankInv, BankFollowsStatement, BTypeOK, DraftsUncleared
<1> QED BY <1>1, <1>2, <1>3, <1>4, <1>5 DEF BankInv, BankFollowsStatement

LEMMA SubmitVoucherKeeps ==
  ASSUME NEW v \in Vouchers, BankInv, SubmitVoucher(v)
  PROVE  BankInv'
<1> USE DEF SubmitVoucher
<1>1. BTypeOK'
  <2>1. line' \in [Lines -> LineRow]
    BY BankAssumption DEF BankInv, BankFollowsStatement, BTypeOK, LineRow, Statuses
  <2>2. voucher' \in [Vouchers -> VoucherRow]
    BY BankAssumption DEF BankInv, BankFollowsStatement, BTypeOK, VoucherRow
  <2>3. \A i \in Lines : Reconciled(i)' <=> line'[i].voucher # NoVoucher
    BY BankAssumption DEF BankInv, BankFollowsStatement, BTypeOK, Reconciled
  <2>4. making' \in Requests
    BY BankAssumption DEF BankInv, BankFollowsStatement, BTypeOK, Requests
  <2>5. byHand' \in SUBSET Vouchers /\ adrift' \in SUBSET Vouchers
    BY BankAssumption DEF BankInv, BankFollowsStatement, BTypeOK
  <2> QED BY <2>1, <2>2, <2>3, <2>4, <2>5 DEF BTypeOK, LineRow, VoucherRow, Requests
<1>2. MatchIsMutual'
  BY DEF BankInv, BankFollowsStatement, MatchIsMutual, Reconciled
<1>3. ClearedIsOnStatement'
  BY DEF BankInv, BankFollowsStatement, ClearedIsOnStatement, DraftsUncleared
<1>4. Making'
  BY DEF BankInv, Making
<1>5. DraftsUncleared'
  BY DEF BankInv, DraftsUncleared
<1> QED BY <1>1, <1>2, <1>3, <1>4, <1>5 DEF BankInv, BankFollowsStatement

LEMMA EnterClearanceKeeps ==
  ASSUME NEW v \in Vouchers, BankInv, EnterClearance(v)
  PROVE  BankInv'
<1> USE DEF EnterClearance
<1>1. BTypeOK'
  <2>1. line' \in [Lines -> LineRow]
    BY DEF BankInv, BankFollowsStatement, BTypeOK, LineRow, Statuses
  <2>2. voucher' \in [Vouchers -> VoucherRow]
    BY DEF BankInv, BankFollowsStatement, BTypeOK, VoucherRow
  <2>3. \A i \in Lines : Reconciled(i)' <=> line'[i].voucher # NoVoucher
    BY DEF BankInv, BankFollowsStatement, BTypeOK, Reconciled
  <2>4. making' \in Requests
    BY DEF BankInv, BankFollowsStatement, BTypeOK, Requests
  <2>5. byHand' \in SUBSET Vouchers /\ adrift' \in SUBSET Vouchers
    BY DEF BankInv, BankFollowsStatement, BTypeOK
  <2> QED BY <2>1, <2>2, <2>3, <2>4, <2>5 DEF BTypeOK, LineRow, VoucherRow, Requests
<1>2. MatchIsMutual'
  BY DEF BankInv, BankFollowsStatement, MatchIsMutual, Reconciled
<1>3. ClearedIsOnStatement'
  BY DEF BankInv, BankFollowsStatement, ClearedIsOnStatement
<1>4. Making'
  BY DEF BankInv, Making
<1>5. DraftsUncleared'
  BY DEF BankInv, DraftsUncleared
<1> QED BY <1>1, <1>2, <1>3, <1>4, <1>5 DEF BankInv, BankFollowsStatement

LEMMA CancelVoucherKeeps ==
  ASSUME NEW v \in Vouchers, BankInv, CancelVoucher(v)
  PROVE  BankInv'
<1> USE DEF CancelVoucher, Released, Free
<1>1. BTypeOK'
  <2>1. line' \in [Lines -> LineRow]
    BY DEF BankInv, BankFollowsStatement, BTypeOK, LineRow, Statuses
  <2>2. voucher' \in [Vouchers -> VoucherRow]
    BY DEF BankInv, BankFollowsStatement, BTypeOK, VoucherRow
  <2>3. \A i \in Lines : Reconciled(i)' <=> line'[i].voucher # NoVoucher
    BY DEF BankInv, BankFollowsStatement, BTypeOK, Reconciled
  <2>4. making' \in Requests
    BY DEF BankInv, BankFollowsStatement, BTypeOK, Requests
  <2>5. byHand' \in SUBSET Vouchers /\ adrift' \in SUBSET Vouchers
    BY DEF BankInv, BankFollowsStatement, BTypeOK
  <2> QED BY <2>1, <2>2, <2>3, <2>4, <2>5 DEF BTypeOK, LineRow, VoucherRow, Requests
<1>2. MatchIsMutual'
  BY <1>1 DEF BankInv, BankFollowsStatement, MatchIsMutual, BTypeOK
<1>3. ClearedIsOnStatement'
  BY DEF BankInv, BankFollowsStatement, ClearedIsOnStatement, BTypeOK
<1>4. Making'
  BY <1>1, BankAssumption DEF BankInv, Making, BTypeOK
<1>5. DraftsUncleared'
  BY DEF BankInv, DraftsUncleared
<1> QED BY <1>1, <1>2, <1>3, <1>4, <1>5 DEF BankInv, BankFollowsStatement

LEMMA ReconcileLineKeeps ==
  ASSUME NEW l \in Lines, NEW v \in Vouchers, BankInv, Reconcile(l, v)
  PROVE  BankInv'
<1> USE DEF Reconcile, Marked, Uncleared
<1>1. BTypeOK'
  <2>1. line' \in [Lines -> LineRow]
    BY BankAssumption DEF BankInv, BankFollowsStatement, BTypeOK, LineRow, Statuses
  <2>2. voucher' \in [Vouchers -> VoucherRow]
    BY BankAssumption, ZenonT(60) DEF BankInv, BankFollowsStatement, BTypeOK, VoucherRow
  <2>3. \A i \in Lines : Reconciled(i)' <=> line'[i].voucher # NoVoucher
    BY BankAssumption DEF BankInv, BankFollowsStatement, BTypeOK, Reconciled
  <2>4. making' \in Requests
    BY BankAssumption DEF BankInv, BankFollowsStatement, BTypeOK, Requests
  <2>5. byHand' \in SUBSET Vouchers /\ adrift' \in SUBSET Vouchers
    BY BankAssumption DEF BankInv, BankFollowsStatement, BTypeOK
  <2> QED BY <2>1, <2>2, <2>3, <2>4, <2>5 DEF BTypeOK, LineRow, VoucherRow, Requests
<1>2. MatchIsMutual'
  BY <1>1, BankAssumption DEF BankInv, BankFollowsStatement, MatchIsMutual, BTypeOK
<1>3. ClearedIsOnStatement'
  BY BankAssumption DEF BankInv, BankFollowsStatement, ClearedIsOnStatement, BTypeOK, Reconciled
<1>4. Making'
  BY DEF BankInv, Making
<1>5. DraftsUncleared'
  BY DEF BankInv, DraftsUncleared
<1> QED BY <1>1, <1>2, <1>3, <1>4, <1>5 DEF BankInv, BankFollowsStatement

LEMMA BeginMakingKeeps ==
  ASSUME NEW l \in Lines, NEW v \in Vouchers, BankInv, BeginMaking(l, v)
  PROVE  BankInv'
<1> USE DEF BeginMaking, Blank, Nobody
<1>1. BTypeOK'
  <2>1. line' \in [Lines -> LineRow]
    BY BankAssumption DEF BankInv, BankFollowsStatement, BTypeOK, LineRow, Statuses
  <2>2. voucher' \in [Vouchers -> VoucherRow]
    BY BankAssumption DEF BankInv, BankFollowsStatement, BTypeOK, VoucherRow
  <2>3. \A i \in Lines : Reconciled(i)' <=> line'[i].voucher # NoVoucher
    BY BankAssumption DEF BankInv, BankFollowsStatement, BTypeOK, Reconciled
  <2>4. making' \in Requests
    BY BankAssumption DEF BankInv, BankFollowsStatement, BTypeOK, Requests
  <2>5. byHand' \in SUBSET Vouchers /\ adrift' \in SUBSET Vouchers
    BY BankAssumption DEF BankInv, BankFollowsStatement, BTypeOK
  <2> QED BY <2>1, <2>2, <2>3, <2>4, <2>5 DEF BTypeOK, LineRow, VoucherRow, Requests
<1>2. MatchIsMutual'
  BY DEF BankInv, BankFollowsStatement, MatchIsMutual, Reconciled
<1>3. ClearedIsOnStatement'
  BY BankAssumption DEF BankInv, BankFollowsStatement, ClearedIsOnStatement
<1>4. Making'
  BY BankAssumption DEF BankInv, BankFollowsStatement, MatchIsMutual, Making, BTypeOK
<1>5. DraftsUncleared'
  BY DEF BankInv, DraftsUncleared
<1> QED BY <1>1, <1>2, <1>3, <1>4, <1>5 DEF BankInv, BankFollowsStatement

LEMMA SubmitMadeKeeps ==
  ASSUME BankInv, SubmitMade
  PROVE  BankInv'
<1> USE DEF SubmitMade, Nobody
<1>0. /\ making \in [line : Lines, voucher : Vouchers, stage : {"drafted", "submitted", "cleared"}]
      /\ making # Nobody
  BY DEF BankInv, BankFollowsStatement, BTypeOK
<1>1. BTypeOK'
  <2>1. line' \in [Lines -> LineRow]
    BY <1>0, BankAssumption DEF BankInv, BankFollowsStatement, BTypeOK, LineRow, Statuses
  <2>2. voucher' \in [Vouchers -> VoucherRow]
    BY <1>0, BankAssumption DEF BankInv, BankFollowsStatement, BTypeOK, VoucherRow
  <2>3. \A i \in Lines : Reconciled(i)' <=> line'[i].voucher # NoVoucher
    BY <1>0, BankAssumption DEF BankInv, BankFollowsStatement, BTypeOK, Reconciled
  <2>4. making' \in Requests
    BY <1>0, BankAssumption DEF BankInv, BankFollowsStatement, BTypeOK, Requests
  <2>5. byHand' \in SUBSET Vouchers /\ adrift' \in SUBSET Vouchers
    BY <1>0, BankAssumption DEF BankInv, BankFollowsStatement, BTypeOK
  <2> QED BY <2>1, <2>2, <2>3, <2>4, <2>5 DEF BTypeOK, LineRow, VoucherRow, Requests
<1>2. MatchIsMutual'
  BY DEF BankInv, BankFollowsStatement, MatchIsMutual, Reconciled
<1>3. ClearedIsOnStatement'
  BY DEF BankInv, BankFollowsStatement, ClearedIsOnStatement
<1>4. Making'
  BY <1>1 DEF BankInv, Making, BTypeOK
<1>5. DraftsUncleared'
  BY DEF BankInv, DraftsUncleared
<1> QED BY <1>1, <1>2, <1>3, <1>4, <1>5 DEF BankInv, BankFollowsStatement

LEMMA ClearMadeKeeps ==
  ASSUME BankInv, ClearMade
  PROVE  BankInv'
<1> USE DEF ClearMade, Nobody
<1>0. /\ making \in [line : Lines, voucher : Vouchers, stage : {"drafted", "submitted", "cleared"}]
      /\ making # Nobody
  BY DEF BankInv, BankFollowsStatement, BTypeOK
<1>1. BTypeOK'
  <2>1. line' \in [Lines -> LineRow]
    BY BankAssumption DEF BankInv, BankFollowsStatement, BTypeOK, LineRow, Statuses
  <2>2. voucher' \in [Vouchers -> VoucherRow]
    BY BankAssumption DEF BankInv, BankFollowsStatement, BTypeOK, VoucherRow
  <2>3. \A i \in Lines : Reconciled(i)' <=> line'[i].voucher # NoVoucher
    BY BankAssumption DEF BankInv, BankFollowsStatement, BTypeOK, Reconciled
  <2>4. making' \in Requests
    BY BankAssumption DEF BankInv, BankFollowsStatement, BTypeOK, Requests
  <2>5. byHand' \in SUBSET Vouchers /\ adrift' \in SUBSET Vouchers
    BY BankAssumption DEF BankInv, BankFollowsStatement, BTypeOK
  <2> QED BY <2>1, <2>2, <2>3, <2>4, <2>5 DEF BTypeOK, LineRow, VoucherRow, Requests
<1>2. MatchIsMutual'
  BY DEF BankInv, BankFollowsStatement, MatchIsMutual, Making, Reconciled
<1>3. ClearedIsOnStatement'
  BY DEF BankInv, BankFollowsStatement, ClearedIsOnStatement
<1>4. Making'
  BY <1>1 DEF BankInv, Making, BTypeOK
<1>5. DraftsUncleared'
  BY DEF BankInv, DraftsUncleared, Making
<1> QED BY <1>1, <1>2, <1>3, <1>4, <1>5 DEF BankInv, BankFollowsStatement

LEMMA MarkLineKeeps ==
  ASSUME BankInv, MarkLine
  PROVE  BankInv'
<1> USE DEF MarkLine, Marked, Nobody
<1>0. /\ making \in [line : Lines, voucher : Vouchers, stage : {"drafted", "submitted", "cleared"}]
      /\ making # Nobody
  BY DEF BankInv, BankFollowsStatement, BTypeOK
<1>1. BTypeOK'
  <2>1. line' \in [Lines -> LineRow]
    BY BankAssumption DEF BankInv, BankFollowsStatement, BTypeOK, LineRow, Statuses
  <2>2. voucher' \in [Vouchers -> VoucherRow]
    BY BankAssumption DEF BankInv, BankFollowsStatement, BTypeOK, VoucherRow
  <2>3. \A i \in Lines : Reconciled(i)' <=> line'[i].voucher # NoVoucher
    BY BankAssumption DEF BankInv, BankFollowsStatement, BTypeOK, Reconciled
  <2>4. making' \in Requests
    BY BankAssumption DEF BankInv, BankFollowsStatement, BTypeOK, Requests
  <2>5. byHand' \in SUBSET Vouchers /\ adrift' \in SUBSET Vouchers
    BY BankAssumption DEF BankInv, BankFollowsStatement, BTypeOK
  <2> QED BY <2>1, <2>2, <2>3, <2>4, <2>5 DEF BTypeOK, LineRow, VoucherRow, Requests
<1>2. MatchIsMutual'
  BY BankAssumption DEF BankInv, BankFollowsStatement, MatchIsMutual, Making, Reconciled
<1>3. ClearedIsOnStatement'
  BY DEF BankInv, BankFollowsStatement, ClearedIsOnStatement, Making, BTypeOK, Reconciled
<1>4. Making'
  BY DEF Making
<1>5. DraftsUncleared'
  BY DEF BankInv, DraftsUncleared
<1> QED BY <1>1, <1>2, <1>3, <1>4, <1>5 DEF BankInv, BankFollowsStatement

LEMMA CutShortKeeps ==
  ASSUME BankInv, CutShort
  PROVE  BankInv'
<1> USE DEF CutShort, Nobody
<1>1. BTypeOK'
  BY DEF BankInv, BankFollowsStatement, BTypeOK, Reconciled
<1>2. MatchIsMutual'
  BY DEF BankInv, BankFollowsStatement, MatchIsMutual, Reconciled
<1>3. ClearedIsOnStatement'
  BY DEF BankInv, BankFollowsStatement, ClearedIsOnStatement
<1>4. Making'
  BY DEF Making
<1>5. DraftsUncleared'
  BY DEF BankInv, DraftsUncleared
<1> QED BY <1>1, <1>2, <1>3, <1>4, <1>5 DEF BankInv, BankFollowsStatement

-----------------------------------------------------------------------------
LEMMA BankInvInit == BInit => BankInv
<1> SUFFICES ASSUME BInit PROVE BankInv
  OBVIOUS
<1> USE DEF BInit, Blank
<1>1. \A l \in Lines : line[l] = [status |-> "Absent", voucher |-> NoVoucher, made |-> FALSE]
  BY DEF Free
<1>2. \A v \in Vouchers : voucher[v].docstatus = "Absent" /\ voucher[v].cleared = NoDate
  OBVIOUS
<1>3. BTypeOK
  <2>1. line \in [Lines -> [status : Statuses, voucher : Vouchers \cup {NoVoucher}, made : BOOLEAN]]
    BY DEF Free, Statuses
  <2>2. voucher \in [Vouchers -> [docstatus : {"Absent", "Draft", "Submitted", "Cancelled"},
                                 amount : Int, cleared : Dates \cup {NoDate}]]
    OBVIOUS
  <2>3. \A l \in Lines : Reconciled(l) <=> line[l].voucher # NoVoucher
    BY <1>1 DEF Reconciled
  <2> QED BY <2>1, <2>3 DEF BTypeOK
<1>4. MatchIsMutual /\ ClearedIsOnStatement
  BY <1>1 DEF MatchIsMutual, ClearedIsOnStatement, Reconciled
<1>5. Making /\ DraftsUncleared
  BY DEF Making, DraftsUncleared
<1> QED BY <1>3, <1>4, <1>5 DEF BankInv, BankFollowsStatement

LEMMA BankInvNext == BankInv /\ [BNext]_bvars => BankInv'
<1> SUFFICES ASSUME BankInv, [BNext]_bvars PROVE BankInv'
  OBVIOUS
<1>1. ASSUME NEW l \in Lines, ImportLine(l) \/ DeleteLine(l) \/ Unreconcile(l)
      PROVE  BankInv'
  BY <1>1, ImportLineKeeps, DeleteLineKeeps, UnreconcileKeeps
<1>2. ASSUME NEW v \in Vouchers,
             EnterVoucher(v) \/ SubmitVoucher(v) \/ EnterClearance(v) \/ CancelVoucher(v)
      PROVE  BankInv'
  BY <1>2, EnterVoucherKeeps, SubmitVoucherKeeps, EnterClearanceKeeps, CancelVoucherKeeps
<1>3. ASSUME NEW l \in Lines, NEW v \in Vouchers, Reconcile(l, v) \/ BeginMaking(l, v)
      PROVE  BankInv'
  BY <1>3, ReconcileLineKeeps, BeginMakingKeeps
<1>4. CASE SubmitMade \/ ClearMade \/ MarkLine \/ CutShort
  BY <1>4, SubmitMadeKeeps, ClearMadeKeeps, MarkLineKeeps, CutShortKeeps
<1>5. CASE UNCHANGED bvars
  BY <1>5 DEF bvars, BankInv, BankFollowsStatement, BTypeOK, MatchIsMutual, ClearedIsOnStatement,
       Making, DraftsUncleared, Reconciled
<1> QED BY <1>1, <1>2, <1>3, <1>4, <1>5 DEF BNext

\* Whatever screens are used, a reconciled line and its submitted voucher name
\* each other, and every cleared voucher is on the statement or accounted for
\* (bank_reconciliation_tool.py).
THEOREM MatchesAgree == BSpec => []BankFollowsStatement
<1>1. BInit => BankInv
  BY BankInvInit
<1>2. BankInv /\ [BNext]_bvars => BankInv'
  BY BankInvNext
<1>3. BankInv => BankFollowsStatement
  BY DEF BankInv
<1> QED BY <1>1, <1>2, <1>3, PTL DEF BSpec
=============================================================================
