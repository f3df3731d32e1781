---------------------------- MODULE OrderService -----------------------------
(***************************************************************************)
(* The order handlers of application/service_order.go and                  *)
(* application/service_merchant.go, down to their SQL statements.          *)
(*                                                                         *)
(* A client is one handler in flight.  Its control state pc says which     *)
(* statement it runs next, so the statements of two handlers interleave in *)
(* every order the row locks of OrderStore allow.  A handler ends in an    *)
(* answer, "ok" or the kind of error it returns.                           *)
(*                                                                         *)
(*  CreateOrder:  check ... check, reserve ... reserve, insert, commit,    *)
(*                after ... after                                          *)
(*  the others:   lock, (side, save) ... (side, save), commit,             *)
(*                after ... after;  reread when the transaction failed     *)
(*                                                                         *)
(* Checkouts name their items; the checkout of a cart is another           *)
(* component.  The look at a line goes to the database, while the deployed *)
(* program, which requires Redis, looks into the caches first and may see  *)
(* an older row: what is sold is decided by the conditional UPDATE.        *)
(***************************************************************************)
EXTENDS OrderStatus, OrderStore

CONSTANTS
  Users,          \* consumers
  Merchants,
  MerchantOf,     \* the merchant of a product
  Keys,           \* idempotency keys
  Baskets,        \* the item lists a checkout may name
  InitialStock,   \* product_skus.stock at the start
  StockInputs,    \* the stock a merchant may enter; a negative one means "leave it"
  Ops,            \* the handlers that are called
  MaxFaults       \* bounds the crashes, failed statements and lost COMMIT answers

Handlers == StatusOps \cup {"CreateOrder", "MerchantUpdateSKU", "MerchantSetProductStatus"}

Item == [sku : SKUs, qty : Int]

ASSUME ServiceAssumption ==
  /\ MerchantOf \in [Products -> Merchants]
  /\ Baskets \subseteq Seq(Item) \ {<<>>}
  /\ InitialStock \in [SKUs -> Nat]
  /\ StockInputs \subseteq Int
  /\ Ops \subseteq Handlers
  /\ MaxFaults \in Nat
  /\ None \notin Users \cup Merchants \cup Keys \cup OrderIds

VARIABLES
  pc,             \* the next statement of a client, or its answer
  req,            \* what the client asked for
  todo,           \* the lines of the order it has still to work on
  row,            \* the SKU row it read last, or is about to write
  pending,        \* the tables it has still to append to after COMMIT
  faults

client == <<pc, req, todo, row, pending>>
vars == <<store, client, faults>>

Answers == {"ok", "conflict", "not_found", "invalid", "error"}
InTx == {"reserve", "insert", "lock", "side", "save", "commit"}

NoRow == [stock |-> 0, locked |-> 0, active |-> FALSE]
NoReq == [op |-> "none", order |-> None, actor |-> None, key |-> None, items |-> <<>>, from |-> "NONE"]

Init ==
  /\ skuRow = [s \in SKUs |-> [stock |-> InitialStock[s], locked |-> 0, active |-> TRUE]]
  /\ skuDraft = skuRow
  /\ skuHolder = [s \in SKUs |-> None]
  /\ online = Products
  /\ orders = [o \in OrderIds |-> NoOrder]
  /\ orderHolder = [o \in OrderIds |-> None]
  /\ locks = [o \in OrderIds |-> <<>>]
  /\ journal = [t \in Tables |-> [o \in OrderIds |-> <<>>]]
  /\ pc = [c \in Clients |-> "idle"]
  /\ req = [c \in Clients |-> NoReq]
  /\ todo = [c \in Clients |-> {}]
  /\ row = [c \in Clients |-> NoRow]
  /\ pending = [c \in Clients |-> <<>>]
  /\ faults = 0

-----------------------------------------------------------------------------
(* Control *)

Goto(c, where) == pc' = [pc EXCEPT ![c] = where]

\* Leave the lines and the row of the handler behind.
Settle(c) ==
  /\ todo' = [todo EXCEPT ![c] = {}]
  /\ row' = [row EXCEPT ![c] = NoRow]

Answer(c, answer) ==
  /\ Goto(c, answer)
  /\ Settle(c)
  /\ UNCHANGED <<req, pending>>

\* The transaction of c ends without effect; c answers with an error or, in
\* the handlers built on UpdateOrderStatus, looks at the order again.
Abort(c, where) ==
  /\ Rollback(c)
  /\ Goto(c, where)
  /\ Settle(c)
  /\ UNCHANGED <<req, pending>>

AfterFailure(op) ==
  IF op \in {"CreateOrder", "MerchantUpdateSKU"} THEN "error" ELSE "reread"

\* i is the first of the lines in S, in the order of the item list: the order
\* of the inventory locks' ids.
IsFirst(i, S) == i \in S /\ \A j \in S : i <= j

\* Line i is done; the handler goes on with the next one, or to the next stage.
LineDone(c, i, again, done) ==
  /\ todo' = [todo EXCEPT ![c] = @ \ {i}]
  /\ Goto(c, IF todo[c] = {i} THEN done ELSE again)

Return(c) ==
  /\ pc[c] \in Answers
  /\ Goto(c, "idle")
  /\ req' = [req EXCEPT ![c] = NoReq]
  /\ UNCHANGED <<store, todo, row, pending, faults>>

-----------------------------------------------------------------------------
(* CreateOrder *)

SkuMerchant(s) == MerchantOf[ProductOf[s]]

Reserved == {req[d].order : d \in Clients}

\* The handler is called.  An order with the caller's idempotency key is the
\* answer; otherwise the checkout starts.  It will insert the order id o,
\* which no other handler in flight has drawn (OrderIds bounds the orders).
CreateOrder(c, u, k, items) ==
  /\ pc[c] = "idle"
  /\ "CreateOrder" \in Ops
  /\ \/ \E o \in OrdersWithKey(u, k) :
          /\ Goto(c, "ok")
          /\ req' = [req EXCEPT ![c] = [op |-> "CreateOrder", order |-> o, actor |-> u,
                                       key |-> k, items |-> items, from |-> "NONE"]]
          /\ UNCHANGED todo
     \/ \E o \in OrderIds \ Reserved :
          /\ OrdersWithKey(u, k) = {}
          /\ orders[o].status = "NONE"
          /\ Goto(c, "check")
          /\ req' = [req EXCEPT ![c] = [op |-> "CreateOrder", order |-> o, actor |-> u,
                                       key |-> k, items |-> items, from |-> "NONE"]]
          /\ todo' = [todo EXCEPT ![c] = DOMAIN items]
  /\ UNCHANGED <<store, row, pending, faults>>

\* normalizeCheckoutLines looks at one line: it reads the SKU and its product.  No
\* property rests on this look: rows change right after it.
Sellable(s, q) ==
  /\ ProductOf[s] \in online
  /\ skuRow[s].active
  /\ Available(skuRow[s], q)

LineVerdict(items, i) ==
  CASE items[i].qty <= 0 -> "invalid"
    [] items[i].qty > 0 /\ ~Sellable(items[i].sku, items[i].qty) -> "conflict"
    [] OTHER -> IF SkuMerchant(items[i].sku) = SkuMerchant(items[1].sku)
                  THEN "fine" ELSE "invalid"

CheckLine(c) ==
  /\ pc[c] = "check"
  /\ \E i \in todo[c] :
       LET verdict == LineVerdict(req[c].items, i)
       IN  /\ IsFirst(i, todo[c])
           /\ \/ /\ verdict = "fine"
                 /\ IF todo[c] = {i}
                      THEN /\ Goto(c, "reserve")
                           /\ todo' = [todo EXCEPT ![c] = DOMAIN req[c].items]
                      ELSE LineDone(c, i, "check", "check")
                 /\ UNCHANGED <<req, row, pending>>
              \/ verdict # "fine" /\ Answer(c, verdict)
  /\ UNCHANGED <<store, faults>>

\* The conditional UPDATE that locks stock, SKU by SKU in ascending order.  A
\* row that does not satisfy its WHERE clause is not waited for.
ReserveSKU(c) ==
  /\ pc[c] = "reserve"
  /\ \E i \in todo[c] :
       LET items == req[c].items
           s == items[i].sku
           seen == Visible(c, s)
       IN  /\ \A j \in todo[c] : s <= items[j].sku
           /\ \/ /\ ~Available(seen, items[i].qty)
                 /\ Abort(c, "conflict")
              \/ /\ Available(seen, items[i].qty)
                 /\ WriteSKU(c, s, [seen EXCEPT !.locked = @ + items[i].qty])
                 /\ LineDone(c, i, "reserve", "insert")
                 /\ UNCHANGED <<skuRow, online, orders, orderHolder, locks, journal>>
                 /\ UNCHANGED <<req, row, pending>>
  /\ UNCHANGED faults

\* A transaction in flight has inserted an order with the key of client c.
KeyInFlight(c, d) ==
  /\ d # c
  /\ pc[d] = "commit"
  /\ req[d].op = "CreateOrder"
  /\ req[d].actor = req[c].actor
  /\ req[d].key = req[c].key

Distinct(items) == \A i, j \in DOMAIN items : items[i].sku = items[j].sku => i = j

\* Mutant: there is no unique index on the key.
KeyTaken_NoIndex(c) == FALSE

\* uk_user_idempotency_key refuses the key of client c.
KeyTaken(c) == OrdersWithKey(req[c].actor, req[c].key) # {}

\* INSERT INTO orders, order_items and inventory_locks.  The unique index on
\* (user_id, idempotency_key) waits for a transaction that inserted the key,
\* and refuses it once it is committed; the one on (order_id, sku_id) refuses
\* a SKU named twice.
InsertOrder(c) ==
  /\ pc[c] = "insert"
  /\ \A d \in Clients : ~KeyInFlight(c, d)
  /\ \/ /\ KeyTaken(c) \/ ~Distinct(req[c].items)
        /\ Abort(c, "error")
     \/ /\ ~KeyTaken(c)
        /\ Distinct(req[c].items)
        /\ orderHolder' = [orderHolder EXCEPT ![req[c].order] = c]
        /\ Goto(c, "commit")
        /\ UNCHANGED <<skuRow, skuDraft, skuHolder, online, orders, locks, journal>>
        /\ UNCHANGED <<req, todo, row, pending>>
  /\ UNCHANGED faults

\* buildCreatedOrder and buildInventoryLocks.
PlacedOrder(r) ==
  [status |-> "CREATED", stamps |-> {}, user |-> r.actor,
   merchant |-> SkuMerchant(r.items[1].sku), key |-> r.key]

PlacedLocks(items) ==
  [i \in DOMAIN items |-> [sku |-> items[i].sku, qty |-> items[i].qty, status |-> "locked"]]

\* COMMIT of SaveOrderWithInventoryLocks.
PublishOrder(c) ==
  /\ PublishSKUs(c)
  /\ orders' = [orders EXCEPT ![req[c].order] = PlacedOrder(req[c])]
  /\ locks' = [locks EXCEPT ![req[c].order] = PlacedLocks(req[c].items)]
  /\ UNCHANGED journal

-----------------------------------------------------------------------------
(* The handlers built on UpdateOrderStatus *)

Authorized(op, o, actor) ==
  /\ orders[o].status # "NONE"
  /\ actor = IF op \in ConsumerOps THEN orders[o].user ELSE orders[o].merchant

\* What each handler does before its transaction: read the order, check who
\* asks, answer a repeated call, check the transition.  The status read here
\* is the one the transaction will expect.
ChangeStatus(op, c, actor, o) ==
  /\ pc[c] = "idle"
  /\ op \in Ops
  /\ req' = [req EXCEPT ![c] = [op |-> op, order |-> o, actor |-> actor, key |-> None,
                               items |-> <<>>, from |-> orders[o].status]]
  /\ Goto(c, CASE ~Authorized(op, o, actor) -> "not_found"
               [] Authorized(op, o, actor) /\ AlreadyApplied(op, orders[o]) -> "ok"
               [] OTHER -> IF CanTransition(orders[o].status, ToStatus(op))
                             THEN "lock" ELSE "conflict")
  /\ UNCHANGED <<store, todo, row, pending, faults>>

PayOrder(c, u, o) == ChangeStatus("PayOrder", c, u, o)
CancelOrder(c, u, o) == ChangeStatus("CancelOrder", c, u, o)
FinishOrder(c, u, o) == ChangeStatus("FinishOrder", c, u, o)
RequestRefund(c, u, o) == ChangeStatus("RequestRefund", c, u, o)
MerchantShipOrder(c, m, o) == ChangeStatus("MerchantShipOrder", c, m, o)
MerchantApproveRefund(c, m, o) == ChangeStatus("MerchantApproveRefund", c, m, o)

\* The handlers whose transaction also moves stock.
InventoryOps == {"PayOrder", "CancelOrder", "MerchantApproveRefund"}

\* Mutant: the status is not compared again under the row lock.
Stale_Unchecked(c) == FALSE

\* The order is no longer in the status the handler read before its transaction.
Stale(c) == orders[req[c].order].status # req[c].from

\* BEGIN; SELECT ... FOR UPDATE; compare the status; UPDATE orders.
LockOrder(c) ==
  /\ pc[c] = "lock"
  /\ LET o == req[c].order
     IN  /\ Free(orderHolder[o], c)
         /\ \/ /\ Stale(c)
               /\ Abort(c, "reread")
            \/ /\ ~Stale(c)
               /\ orderHolder' = [orderHolder EXCEPT ![o] = c]
               /\ \/ /\ req[c].op \in InventoryOps
                     /\ todo' = [todo EXCEPT ![c] = DOMAIN locks[o]]
                     /\ Goto(c, "side")
                  \/ /\ req[c].op \notin InventoryOps
                     /\ UNCHANGED todo
                     /\ Goto(c, "commit")
               /\ UNCHANGED <<skuRow, skuDraft, skuHolder, online, orders, locks, journal>>
               /\ UNCHANGED <<req, row, pending>>
  /\ UNCHANGED faults

\* The side effect, lock by lock in the order of their ids: first a plain
\* SELECT of the SKU (tx.GetSKU) ...
ReadSKU(c) ==
  /\ pc[c] = "side"
  /\ \E i \in todo[c] :
       /\ IsFirst(i, todo[c])
       /\ row' = [row EXCEPT ![c] = Visible(c, locks[req[c].order][i].sku)]
  /\ Goto(c, "save")
  /\ UNCHANGED <<store, req, todo, pending, faults>>

\* ... the new stock computed from what it read ...
Moved(op, r, lock) ==
  CASE op = "PayOrder" ->
         [r EXCEPT !.stock = @ - lock.qty, !.locked = @ - lock.qty]
    [] op = "CancelOrder" /\ lock.status = "locked" ->
         [r EXCEPT !.locked = @ - lock.qty]
    [] op = "MerchantApproveRefund" /\ lock.status = "confirmed" ->
         [r EXCEPT !.stock = @ + lock.qty]
    [] OTHER -> r

\* Mutant: only the locked stock is checked.
Underflow_StockUnchecked(r) == r.locked < 0

\* Mutant: only the stock is checked.
Underflow_LockedUnchecked(r) == r.stock < 0

\* "inventory underflow detected"
Underflow(r) == r.stock < 0 \/ r.locked < 0

\* ... and the whole row written back (tx.SaveSKU), with the lock's new status.
SaveSKU(c) ==
  /\ pc[c] = "save"
  /\ \E i \in todo[c] :
       LET lock == locks[req[c].order][i]
           moved == Moved(req[c].op, row[c], lock)
       IN  /\ IsFirst(i, todo[c])
           /\ \/ /\ Underflow(moved)
                 /\ Abort(c, "reread")
              \/ /\ ~Underflow(moved)
                 /\ WriteSKU(c, lock.sku, moved)
                 /\ LineDone(c, i, "side", "commit")
                 /\ row' = [row EXCEPT ![c] = NoRow]
                 /\ UNCHANGED <<skuRow, online, orders, orderHolder, locks, journal>>
                 /\ UNCHANGED <<req, pending>>
  /\ UNCHANGED faults

\* Mutant: a cancelled order's lock gets the order's status.
LockStatusAfter_Cancelled(op, status) ==
  CASE op = "PayOrder" -> "confirmed"
    [] op = "CancelOrder" -> "cancelled"
    [] OTHER -> status

\* Mutant: an approved refund leaves the lock confirmed.
LockStatusAfter_RefundKeeps(op, status) ==
  CASE op = "PayOrder" -> "confirmed"
    [] op = "CancelOrder" -> "released"
    [] OTHER -> status

LockStatusAfter(op, status) ==
  CASE op = "PayOrder" -> "confirmed"
    [] op \in {"CancelOrder", "MerchantApproveRefund"} -> "released"
    [] OTHER -> status

\* UPDATE orders: the new status and the timestamp that goes with it.
Advance(order, to) ==
  [order EXCEPT !.status = to, !.stamps = @ \cup ({to} \cap Stamped)]

Relock(held, op) ==
  [i \in DOMAIN held |-> [held[i] EXCEPT !.status = LockStatusAfter(op, @)]]

\* COMMIT of UpdateOrderStatus.  The handlers that move stock wrote their order
\* event and outbox row in the transaction.
PublishStatus(c) ==
  LET o == req[c].order
      op == req[c].op
  IN  /\ PublishSKUs(c)
      /\ orders' = [orders EXCEPT ![o] = Advance(@, ToStatus(op))]
      /\ locks' = [locks EXCEPT ![o] = Relock(@, op)]
      /\ IF op \in InventoryOps
           THEN AppendTo({"order_events", "outbox"}, o, ToStatus(op))
           ELSE UNCHANGED journal

-----------------------------------------------------------------------------
(* COMMIT and what follows it *)

\* Mutant: the handlers that wrote their event in the transaction repeat it.
AppendsAfter_Twice(op) ==
  CASE op = "CreateOrder" -> <<"order_events", "behavior_events", "outbox">>
    [] OTHER -> <<"order_events", "outbox">>

\* The inserts a handler makes one by one after its transaction.
AppendsAfter(op) ==
  CASE op = "CreateOrder" -> <<"order_events", "behavior_events", "outbox">>
    [] op \in InventoryOps -> <<"behavior_events">>
    [] OTHER -> <<"order_events", "outbox">>

EventOf(op) == IF op = "CreateOrder" THEN "CREATED" ELSE ToStatus(op)

Publish(c) == IF req[c].op = "CreateOrder" THEN PublishOrder(c) ELSE PublishStatus(c)

Commit(c) ==
  /\ pc[c] = "commit"
  /\ Publish(c)
  /\ Goto(c, "after")
  /\ pending' = [pending EXCEPT ![c] = AppendsAfter(req[c].op)]
  /\ UNCHANGED <<req, todo, row, faults>>

\* The next autonomous INSERT; its error is ignored.
AppendAfterCommit(c) ==
  /\ pc[c] = "after"
  /\ \/ /\ AppendTo({Head(pending[c])}, req[c].order, EventOf(req[c].op))
        /\ UNCHANGED faults
     \/ /\ faults < MaxFaults
        /\ faults' = faults + 1
        /\ UNCHANGED journal
  /\ pending' = [pending EXCEPT ![c] = Tail(@)]
  /\ Goto(c, IF Len(pending[c]) = 1 THEN "ok" ELSE "after")
  /\ UNCHANGED <<skuRow, skuDraft, skuHolder, online, orders, orderHolder, locks>>
  /\ UNCHANGED <<req, todo, row>>

\* The transaction failed: the handler reads the order again to tell a repeated
\* call from a conflict.
Reread(c) ==
  /\ pc[c] = "reread"
  /\ Goto(c, IF AlreadyApplied(req[c].op, orders[req[c].order]) THEN "ok" ELSE "conflict")
  /\ UNCHANGED <<store, req, todo, row, pending, faults>>

-----------------------------------------------------------------------------
(* The merchant edits the catalog *)

\* MerchantUpdateSKU reads the SKU, overwrites the fields of the input ...
MerchantUpdateSKU(c, s, stock, active) ==
  /\ pc[c] = "idle"
  /\ "MerchantUpdateSKU" \in Ops
  /\ req' = [req EXCEPT ![c] = [NoReq EXCEPT !.op = "MerchantUpdateSKU",
                                            !.items = <<[sku |-> s, qty |-> stock]>>]]
  /\ row' = [row EXCEPT ![c] = [stock  |-> IF stock >= 0 THEN stock ELSE skuRow[s].stock,
                               locked |-> skuRow[s].locked,
                               active |-> active]]
  /\ Goto(c, "update")
  /\ UNCHANGED <<store, todo, pending, faults>>

\* ... and saves the whole row, locked_stock included, outside any transaction.
UpdateSKU(c) ==
  /\ pc[c] = "update"
  /\ LET s == req[c].items[1].sku
     IN  /\ skuHolder[s] = None
         /\ skuRow' = [skuRow EXCEPT ![s] = row[c]]
         /\ skuDraft' = [skuDraft EXCEPT ![s] = row[c]]
  /\ Answer(c, "ok")
  /\ UNCHANGED <<skuHolder, online, orders, orderHolder, locks, journal, faults>>

\* MerchantSetProductStatus: only the status of the product matters here.
MerchantSetProductStatus(p) ==
  /\ "MerchantSetProductStatus" \in Ops
  /\ online' = IF p \in online THEN online \ {p} ELSE online \cup {p}
  /\ UNCHANGED <<skuRow, skuDraft, skuHolder, orders, orderHolder, locks, journal>>
  /\ UNCHANGED <<client, faults>>

-----------------------------------------------------------------------------
(* Failures *)

\* Client c waits for a row, or a key, of client d's transaction.
WaitsFor(c, d) ==
  \/ pc[c] = "lock" /\ orderHolder[req[c].order] = d /\ d # c
  \/ /\ pc[c] = "reserve" /\ d # c
     /\ \E i \in todo[c] :
          LET item == req[c].items[i]
          IN  /\ \A j \in todo[c] : item.sku <= req[c].items[j].sku
              /\ Available(Visible(c, item.sku), item.qty)
              /\ skuHolder[item.sku] = d
  \/ pc[c] = "insert" /\ KeyInFlight(c, d)
  \/ /\ pc[c] = "save" /\ d # c
     /\ \E i \in todo[c] : IsFirst(i, todo[c]) /\ skuHolder[locks[req[c].order][i].sku] = d
  \/ pc[c] = "update" /\ skuHolder[req[c].items[1].sku] = d

\* c is on a cycle of waiting transactions.
OnWaitCycle(c) ==
  \E S \in SUBSET Clients :
     /\ c \in S
     /\ \A d \in S : (\E e \in S : WaitsFor(d, e)) /\ (\E e \in S : WaitsFor(e, d))

\* PostgreSQL's deadlock detector aborts one transaction of a cycle (40P01).
DeadlockVictim(c) ==
  /\ OnWaitCycle(c)
  /\ Abort(c, AfterFailure(req[c].op))
  /\ UNCHANGED faults

\* A statement, or COMMIT, fails: the deferred ROLLBACK runs.
StatementFails(c) ==
  /\ pc[c] \in InTx \cup {"update"}
  /\ faults < MaxFaults
  /\ faults' = faults + 1
  /\ Abort(c, AfterFailure(req[c].op))

\* COMMIT took effect but its answer was lost: the handler sees an error.
CommitAnswerLost(c) ==
  /\ pc[c] = "commit"
  /\ faults < MaxFaults
  /\ faults' = faults + 1
  /\ Publish(c)
  /\ Goto(c, AfterFailure(req[c].op))
  /\ Settle(c)
  /\ UNCHANGED <<req, pending>>

\* The process running the handler dies; the server rolls its transaction back.
Crash(c) ==
  /\ pc[c] \notin Answers \cup {"idle"}
  /\ faults < MaxFaults
  /\ faults' = faults + 1
  /\ Rollback(c)
  /\ Goto(c, "idle")
  /\ Settle(c)
  /\ req' = [req EXCEPT ![c] = NoReq]
  /\ pending' = [pending EXCEPT ![c] = <<>>]

-----------------------------------------------------------------------------

\* A handler of an order is called; it goes on; it fails.
OrderCall(c) ==
  \/ \E u \in Users, k \in Keys, items \in Baskets : CreateOrder(c, u, k, items)
  \/ \E o \in OrderIds :
       \/ \E u \in Users : \/ PayOrder(c, u, o)
                          \/ CancelOrder(c, u, o)
                          \/ FinishOrder(c, u, o)
                          \/ RequestRefund(c, u, o)
       \/ \E m \in Merchants : \/ MerchantShipOrder(c, m, o)
                              \/ MerchantApproveRefund(c, m, o)

OrderStep(c) ==
  \/ CheckLine(c) \/ ReserveSKU(c) \/ InsertOrder(c)
  \/ LockOrder(c) \/ ReadSKU(c) \/ SaveSKU(c)
  \/ Commit(c) \/ AppendAfterCommit(c) \/ Reread(c)
  \/ DeadlockVictim(c) \/ Return(c)

Fault(c) == StatementFails(c) \/ CommitAnswerLost(c) \/ Crash(c)

OrdersNext == \E c \in Clients : OrderCall(c) \/ OrderStep(c) \/ Fault(c)

\* The same beside the edits of the catalog.
Call(c) ==
  \/ OrderCall(c)
  \/ \E s \in SKUs, stock \in StockInputs, active \in BOOLEAN :
       MerchantUpdateSKU(c, s, stock, active)

Step(c) == OrderStep(c) \/ UpdateSKU(c)

Next ==
  \/ \E c \in Clients : Call(c) \/ Step(c) \/ Fault(c)
  \/ \E p \in Products : MerchantSetProductStatus(p)

Spec == Init /\ [][Next]_vars

\* The handlers of orders alone, on a catalog that stays as it is.
OrdersSpec == Init /\ [][OrdersNext]_vars

=============================================================================
