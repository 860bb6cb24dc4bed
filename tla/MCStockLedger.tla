---------------------------- MODULE MCStockLedger ----------------------------
(* Small instances of StockLedger: which vouchers the requests work on. *)
EXTENDS StockLedger, TLC

In(b, q, w) == [kind |-> "in", bin |-> b, qty |-> q, worth |-> w, carried |-> FALSE]
Carried(b, q) == [kind |-> "in", bin |-> b, qty |-> q, worth |-> 0, carried |-> TRUE]
Out(b, q) == [kind |-> "out", bin |-> b, qty |-> q, rate |-> NoRate]
OutAt(b, q, r) == [kind |-> "out", bin |-> b, qty |-> q, rate |-> r]
Counted(b, q, r) == [kind |-> "count", bin |-> b, qty |-> q, rate |-> r]

\* receipts at several rates, a return at an old rate, a count
Receipt1 == << <<In(1, 2, 7)>> >>
Receipt2 == << <<In(2, 1, 5), In(1, 2, 12)>> >>
ReturnOut == << <<OutAt(1, 1, 3)>> >>
CountOne == << <<Counted(1, 1, 4)>> >>
Delivery == << <<Out(2, 1), Out(1, 2)>> >>

\* stock entries that post twice: a transfer each way
Transfer12 == << <<Out(1, 1)>>, <<Carried(2, 1)>> >>
Transfer21 == << <<Out(2, 1)>>, <<Carried(1, 1)>> >>

MCDrafts == {Receipt1, Receipt2, ReturnOut, CountOne, Transfer12, Transfer21}
TransferDrafts == {Receipt2, Transfer12, Transfer21}
UnpricedDrafts == {Receipt1, << <<Counted(1, 1, NoRate)>> >>}

MCAllDrafts == MCDrafts \cup {Delivery}

Symmetric == Permutations(Txns) \cup Permutations(Vouchers)
=============================================================================
