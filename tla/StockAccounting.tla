--------------------------- MODULE StockAccounting ---------------------------
(***************************************************************************)
(* The stock columns of a SKU against the orders that account for them.    *)
(***************************************************************************)
EXTENDS OrderProperties, FiniteSetsExt

\* The units of SKU s in the committed inventory locks with the given status.
Units(s, status) ==
  LET lines == UNION {{o} \X DOMAIN locks[o] : o \in OrderIds}
      counted == {l \in lines : locks[l[1]][l[2]].sku = s /\ locks[l[1]][l[2]].status = status}
  IN  MapThenSumSet(LAMBDA l : locks[l[1]][l[2]].qty, counted)

\* locked_stock is what the unpaid orders hold, and stock is what was there
\* less what was paid for and not refunded: every lock, payment, cancellation
\* and refund is counted once, and nothing else is.
Conservation ==
  \A s \in SKUs :
    /\ skuRow[s].locked = Units(s, "locked")
    /\ skuRow[s].stock = InitialStock[s] - Units(s, "confirmed")

\* No more units are promised to orders, paid or unpaid, than there ever were:
\* concurrent checkouts do not oversell.
NoOverselling ==
  \A s \in SKUs : Units(s, "locked") + Units(s, "confirmed") <= InitialStock[s]

\* Neither stock column is ever negative.
NoNegativeStock == \A s \in SKUs : skuRow[s].stock >= 0 /\ skuRow[s].locked >= 0

\* A checkout that is answered while an order of its user and key exists is
\* answered with that order.
RepeatedCreateReturnsOrder ==
  [][\A c \in Clients :
       /\ pc[c] \notin Answers /\ pc'[c] \in Answers
       /\ req[c].op = "CreateOrder"
       /\ OrdersWithKey(req[c].actor, req[c].key) # {}
       => pc'[c] = "ok"]_vars

=============================================================================
