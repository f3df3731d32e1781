----------------------------- MODULE OrderStore ------------------------------
(***************************************************************************)
(* The PostgreSQL rows the order handlers share, and the transactions that *)
(* change them (infrastructure/postgres).  Isolation is READ COMMITTED,    *)
(* the default the repository never changes:                               *)
(*                                                                         *)
(*   - a plain SELECT sees the last committed version of a row, or the     *)
(*     version its own transaction wrote;                                  *)
(*   - an UPDATE, and SELECT ... FOR UPDATE, take the row's lock, wait for *)
(*     its holder, and then work on the newest committed version;          *)
(*   - the locks are held until COMMIT or ROLLBACK.                        *)
(*                                                                         *)
(* A SKU row has a committed version (skuRow) and a newest version         *)
(* (skuDraft); they differ only while a transaction holds the row.  What a *)
(* transaction writes to the order, its inventory locks and the journals   *)
(* is protected by the order's row lock and is published at COMMIT.        *)
(***************************************************************************)
EXTENDS Integers, Sequences

CONSTANTS
  Clients,        \* handlers in flight: HTTP requests, each with its own transaction
  SKUs,           \* product_skus.id
  Products,       \* products.id
  ProductOf,      \* the product of a SKU
  OrderIds,       \* the ids the orders sequence hands out (bounds the orders created)
  None            \* no holder, no value

ASSUME StoreAssumption ==
  /\ SKUs \subseteq Nat
  /\ ProductOf \in [SKUs -> Products]
  /\ None \notin Clients

VARIABLES
  skuRow,         \* product_skus, committed: stock, locked_stock, status = 'active'
  skuDraft,       \* product_skus, newest version
  skuHolder,      \* the transaction holding the row lock of a SKU
  online,         \* products whose status is 'online'
  orders,         \* orders, committed
  orderHolder,    \* the transaction holding the row lock of an order
  locks,          \* inventory_locks of an order, by id
  journal         \* order_events, outbox and behavior_events of an order, by id

store == <<skuRow, skuDraft, skuHolder, online, orders, orderHolder, locks, journal>>

Row == [stock : Int, locked : Int, active : BOOLEAN]

Tables == {"order_events", "outbox", "behavior_events"}

\* The row an order id without an order stands for.
NoOrder == [status |-> "NONE", stamps |-> {}, user |-> None, merchant |-> None, key |-> None]

-----------------------------------------------------------------------------
(* Reading *)

\* A plain SELECT of SKU s by client c: getSKU.
Visible(c, s) == IF skuHolder[s] = c THEN skuDraft[s] ELSE skuRow[s]

Free(holder, c) == holder \in {c, None}

\* stock - locked_stock >= quantity
Available(row, q) == row.stock - row.locked >= q

\* FindOrderByUserAndIdempotency
OrdersWithKey(user, key) ==
  {o \in OrderIds : orders[o].status # "NONE" /\ orders[o].user = user /\ orders[o].key = key}

-----------------------------------------------------------------------------
(* Transactions *)

\* An UPDATE of SKU s by client c's transaction, which holds the row from now on.
WriteSKU(c, s, row) ==
  /\ Free(skuHolder[s], c)
  /\ skuDraft' = [skuDraft EXCEPT ![s] = row]
  /\ skuHolder' = [skuHolder EXCEPT ![s] = c]

ReleaseRows(c) ==
  /\ skuHolder' = [s \in SKUs |-> IF skuHolder[s] = c THEN None ELSE skuHolder[s]]
  /\ orderHolder' = [o \in OrderIds |-> IF orderHolder[o] = c THEN None ELSE orderHolder[o]]

\* Mutant: the deferred ROLLBACK is missing and the rows stay locked.
Rollback_Missing(c) == UNCHANGED store

\* Mutant: the statements before the failure ran outside any transaction.
Rollback_Autocommitted(c) ==
  /\ skuRow' = [s \in SKUs |-> Visible(c, s)]
  /\ ReleaseRows(c)
  /\ UNCHANGED <<skuDraft, online, orders, locks, journal>>

\* ROLLBACK: the drafts of c's transaction disappear and its rows are free.
Rollback(c) ==
  /\ skuDraft' = [s \in SKUs |-> IF skuHolder[s] = c THEN skuRow[s] ELSE skuDraft[s]]
  /\ ReleaseRows(c)
  /\ UNCHANGED <<skuRow, online, orders, locks, journal>>

\* The part of COMMIT that publishes the SKU rows.
PublishSKUs(c) ==
  /\ skuRow' = [s \in SKUs |-> Visible(c, s)]
  /\ ReleaseRows(c)
  /\ UNCHANGED <<skuDraft, online>>

\* An INSERT into each of the given journal tables.
AppendTo(tables, o, event) ==
  journal' = [t \in Tables |->
                IF t \in tables THEN [journal[t] EXCEPT ![o] = Append(@, event)]
                                ELSE journal[t]]

=============================================================================
