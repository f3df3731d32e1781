--------------------------- MODULE OrderProperties ---------------------------
(***************************************************************************)
(* What OrderService is checked for.                                       *)
(***************************************************************************)
EXTENDS OrderService, Functions

-----------------------------------------------------------------------------
(* Types *)

Lock == [sku : SKUs, qty : Int, status : {"locked", "confirmed", "released"}]

Order == [status : OrderStatuses \cup {"NONE"}, stamps : SUBSET Stamped,
          user : Users \cup {None}, merchant : Merchants \cup {None}, key : Keys \cup {None}]

Events == OrderStatuses

Request == [op : StatusOps \cup {"CreateOrder", "MerchantUpdateSKU", "none"},
            order : OrderIds \cup {None}, actor : Users \cup Merchants \cup {None},
            key : Keys \cup {None}, items : Seq(Item), from : OrderStatuses \cup {"NONE"}]

StoreTypeOK ==
  /\ skuRow \in [SKUs -> Row]
  /\ skuDraft \in [SKUs -> Row]
  /\ skuHolder \in [SKUs -> Clients \cup {None}]
  /\ online \subseteq Products
  /\ orders \in [OrderIds -> Order]
  /\ orderHolder \in [OrderIds -> Clients \cup {None}]
  /\ locks \in [OrderIds -> Seq(Lock)]
  /\ journal \in [Tables -> [OrderIds -> Seq(Events)]]

Statement == {"idle", "check", "after", "reread", "update"} \cup InTx \cup Answers

ClientTypeOK ==
  /\ pc \in [Clients -> Statement]
  /\ req \in [Clients -> Request]
  /\ todo \in [Clients -> SUBSET (Nat \ {0})]
  /\ row \in [Clients -> Row]
  /\ pending \in [Clients -> Seq(Tables)]

\* Every variable has its type.
TypeOK == StoreTypeOK /\ ClientTypeOK /\ faults \in 0 .. MaxFaults

-----------------------------------------------------------------------------
(* Safety *)

\* Whatever the handlers do to one SKU at the same time, neither its stock nor
\* its locked stock is ever negative, and no more is locked than is in stock:
\* the bounds the conditional UPDATE and the underflow checks are there for.
StockBounds ==
  \A s \in SKUs : 0 <= skuRow[s].locked /\ skuRow[s].locked <= skuRow[s].stock

\* The inventory locks of an order are in the state its status calls for, all
\* of them: locked while it is unpaid, confirmed from payment on, released
\* once it is cancelled or refunded.  A failure between two SaveSKU calls, or
\* Pay racing Cancel, must not leave them apart.
LocksFollowStatus ==
  \A o \in OrderIds :
    /\ orders[o].status = "CREATED" => Range(locks[o]) # {}
    /\ \A i \in DOMAIN locks[o] :
         locks[o][i].status =
           CASE orders[o].status = "CREATED" -> "locked"
             [] orders[o].status \in {"CANCELLED", "REFUNDED"} -> "released"
             [] OTHER -> "confirmed"

\* The timestamps tell the history of the order: paid_at exactly from payment
\* on, shipped_at only of an order that was paid and not finished without it,
\* cancelled_at and finished_at with those statuses alone.
StampsFollowStatus ==
  \A o \in OrderIds :
    LET order == orders[o]
    IN  /\ "PAID" \in order.stamps
             <=> order.status \in {"PAID", "SHIPPED", "FINISHED", "REFUNDING", "REFUNDED"}
        /\ "SHIPPED" \in order.stamps =>
             order.status \in {"SHIPPED", "FINISHED", "REFUNDING", "REFUNDED"}
        /\ order.status \in {"SHIPPED", "FINISHED"} => "SHIPPED" \in order.stamps
        /\ "CANCELLED" \in order.stamps <=> order.status = "CANCELLED"
        /\ "FINISHED" \in order.stamps <=> order.status = "FINISHED"

\* An "ok" is true: the handler that answers it, first call or repeated call,
\* after a success or after a failed transaction it looked into again, left
\* the order with the timestamp or status it was asked for.
AckedIsApplied ==
  \A c \in Clients :
    pc[c] = "ok" =>
      LET o == req[c].order
      IN  CASE req[c].op = "CreateOrder" ->
                 orders[o].user = req[c].actor /\ orders[o].key = req[c].key
            [] req[c].op \in StatusOps /\ ToStatus(req[c].op) \in Stamped ->
                 ToStatus(req[c].op) \in orders[o].stamps
            [] req[c].op = "RequestRefund" ->
                 orders[o].status \in {"REFUNDING", "REFUNDED"}
            [] req[c].op = "MerchantApproveRefund" ->
                 orders[o].status = "REFUNDED"
            [] OTHER -> TRUE

\* Two checkouts of a user with one idempotency key never both leave an order,
\* although each looks for the other only before its transaction.
OneOrderPerKey ==
  \A u \in Users, k \in Keys : \A o1, o2 \in OrdersWithKey(u, k) : o1 = o2

\* The order events and the outbox never name a change that was rolled back,
\* name no change twice, and always name a committed payment, cancellation or
\* refund.
JournalIsTrue ==
  \A t \in {"order_events", "outbox"}, o \in OrderIds :
    LET log == journal[t][o]
    IN  /\ \A i, j \in DOMAIN log : log[i] = log[j] => i = j
        /\ Range(log) \cap Stamped \subseteq orders[o].stamps
        /\ orders[o].stamps \cap {"PAID", "CANCELLED"} \subseteq Range(log)
        /\ orders[o].status = "REFUNDED" <=> "REFUNDED" \in Range(log)

\* An order's status only ever moves along the state machine, and a status the
\* handler read before its transaction is never overwritten once it is stale.
LegalSteps ==
  [][\A o \in OrderIds :
       orders'[o].status # orders[o].status =>
         \/ orders[o].status = "NONE" /\ orders'[o].status = "CREATED"
         \/ CanTransition(orders[o].status, orders'[o].status)]_vars

-----------------------------------------------------------------------------
(* Refinement *)

\* How often a log names an event.
HowOften(log, event) ==
  LET places == {i \in DOMAIN log : log[i] = event}
  IN  CASE places = {} -> "never"
        [] \E i \in places : places = {i} -> "once"
        [] OTHER -> "again"

\* The records of payments, cancellations and refunds in a journal table.
Records(t) ==
  [o \in OrderIds |-> [e \in {"PAID", "CANCELLED", "REFUNDED"} |-> HowOften(journal[t][o], e)]]

Lifecycle == INSTANCE OrderLifecycle WITH
  status   <- [o \in OrderIds |-> orders[o].status],
  holding  <- [o \in OrderIds |-> {locks[o][i].status : i \in DOMAIN locks[o]}],
  events   <- Records("order_events"),
  outgoing <- Records("outbox")

\* Seen order by order, the statements of all handlers in flight, their
\* rollbacks and their crashes amount to the atomic steps of OrderLifecycle.
ImplementsLifecycle == Lifecycle!Spec

-----------------------------------------------------------------------------
(* Liveness *)

\* The server runs the statements of a handler, its lock queues are fair to
\* those who wait, and its deadlock detector finds every cycle.  Calls and
\* failures are under no obligation.
Fairness ==
  \A c \in Clients :
    /\ WF_vars(CheckLine(c) \/ ReadSKU(c) \/ Commit(c) \/ AppendAfterCommit(c)
                \/ Reread(c) \/ Return(c))
    /\ WF_vars(DeadlockVictim(c))
    /\ SF_vars(ReserveSKU(c) \/ InsertOrder(c) \/ LockOrder(c) \/ SaveSKU(c) \/ UpdateSKU(c))

FairSpec == OrdersSpec /\ Fairness

\* Every call is answered: no handler waits for a row for ever, even when two
\* transactions wait for each other.
EveryCallIsAnswered ==
  \A c \in Clients : pc[c] \notin Answers \cup {"idle"} ~> pc[c] \in Answers \cup {"idle"}

=============================================================================
