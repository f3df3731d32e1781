--------------------------- MODULE OrderInvariant ----------------------------
(***************************************************************************)
(* The inductive invariant behind the properties of OrderService: what a   *)
(* handler knows at each of its statements, about its own request and      *)
(* about the rows it holds.                                                *)
(***************************************************************************)
EXTENDS OrderProperties

\* The handler is on its way to insert an order.
Placing(c) ==
  \/ pc[c] \in {"check", "reserve", "insert"}
  \/ pc[c] = "commit" /\ req[c].op = "CreateOrder"

\* The handler has compared the status of its order under the row lock.
Moving(c) ==
  \/ pc[c] \in {"side", "save"}
  \/ pc[c] = "commit" /\ req[c].op \in StatusOps

\* Each statement belongs to the handlers that have it.
RightStatement(c) ==
  /\ pc[c] \in {"check", "reserve", "insert"} => req[c].op = "CreateOrder"
  /\ pc[c] \in {"lock", "reread"} => req[c].op \in StatusOps
  /\ pc[c] \in {"side", "save"} => req[c].op \in InventoryOps
  /\ pc[c] \in {"commit", "after"} => req[c].op \in StatusOps \cup {"CreateOrder"}
  /\ pc[c] = "update" => req[c].op = "MerchantUpdateSKU"
  /\ pc[c] = "after" => pending[c] # <<>>

\* A request names what its handler needs.
RightRequest(c) ==
  /\ req[c].op = "CreateOrder" =>
       /\ req[c].order \in OrderIds
       /\ req[c].actor \in Users
       /\ req[c].key \in Keys
       /\ req[c].items \in Baskets
  /\ req[c].op \in StatusOps => req[c].order \in OrderIds
  /\ req[c].op = "MerchantUpdateSKU" => req[c].items # <<>>

\* The lines a handler has to work on are lines of its item list, or of the
\* locks of its order.
RightLines(c) ==
  /\ pc[c] \in {"check", "reserve"} => todo[c] \subseteq DOMAIN req[c].items
  /\ pc[c] \in {"side", "save"} => todo[c] \subseteq DOMAIN locks[req[c].order]

\* A checkout works on an order id without an order.  A change of status that
\* waits for its order has found it; one that went on holds the row, in the
\* status the handler read before.  The transition it is about to make is legal.
RightOrder(c) ==
  /\ Placing(c) => orders[req[c].order].status = "NONE"
  /\ pc[c] \in {"side", "save", "commit"} => orderHolder[req[c].order] = c
  /\ pc[c] = "lock" \/ Moving(c) => CanTransition(req[c].from, ToStatus(req[c].op))
  /\ pc[c] = "lock" => orders[req[c].order].status # "NONE"
  /\ Moving(c) => orders[req[c].order].status = req[c].from

Right(c) == RightStatement(c) /\ RightRequest(c) /\ RightLines(c) /\ RightOrder(c)

\* No two checkouts work on the same order id.
DistinctIds ==
  \A c, d \in Clients : Placing(c) /\ Placing(d) /\ req[c].order = req[d].order => c = d

Consistent == TypeOK /\ (\A c \in Clients : Right(c)) /\ DistinctIds

=============================================================================
