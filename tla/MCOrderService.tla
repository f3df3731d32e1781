--------------------------- MODULE MCOrderService ----------------------------
(***************************************************************************)
(* Small instances of OrderService for TLC.                                *)
(***************************************************************************)
EXTENDS StockAccounting, TLC

CONSTANTS ca, cb, cc, oa, ob, oc, ua, ma, ka, kb, kc, pa

OneSKU == {1}
TwoSKUs == {1, 2}
OneProduct == [s \in SKUs |-> pa]
OneMerchant == [p \in Products |-> ma]

Line(s, q) == [sku |-> s, qty |-> q]

SingleLine == {<<Line(1, 1)>>}
Ascending == {<<Line(1, 1), Line(2, 1)>>}
BothOrders == {<<Line(1, 1), Line(2, 1)>>, <<Line(2, 1), Line(1, 1)>>}
\* A SKU named twice, and a quantity a checkout refuses.
OddBaskets == {<<Line(1, 1)>>, <<Line(1, 1), Line(1, 1)>>, <<Line(1, 1), Line(1, 0)>>}

Stock(n) == [s \in SKUs |-> n]
StockOf2 == Stock(2)

\* "Leave the stock", and none.
StockEntries == {-1, 0}

\* Clients, orders and keys are interchangeable: no property and no action
\* tells one from another.
Symmetry == Permutations(Clients) \cup Permutations(OrderIds) \cup Permutations(Keys)

=============================================================================
