----------------------------- MODULE OrderStatus -----------------------------
(***************************************************************************)
(* The order state machine of backend/internal/order/domain and the        *)
(* idempotency guards the application service puts in front of it.         *)
(*                                                                         *)
(* An order row is abstracted to a record with its status and the set of   *)
(* its non-NULL timestamps: "PAID" \in o.stamps stands for paid_at IS NOT  *)
(* NULL, and so on.  The module has no state: it is used by every module   *)
(* that moves an order.                                                    *)
(***************************************************************************)

OrderStatuses ==
  {"CREATED", "PAID", "SHIPPED", "FINISHED", "CANCELLED", "REFUNDING", "REFUNDED"}

\* The timestamps an order row keeps: paid_at, cancelled_at, shipped_at, finished_at.
Stamped == {"PAID", "CANCELLED", "SHIPPED", "FINISHED"}

legalTransitions ==
  { <<"CREATED", "PAID">>,    <<"CREATED", "CANCELLED">>,
    <<"PAID", "SHIPPED">>,    <<"PAID", "REFUNDING">>,
    <<"SHIPPED", "FINISHED">>, <<"SHIPPED", "REFUNDING">>,
    <<"REFUNDING", "REFUNDED">> }

CanTransition(from, to) == <<from, to>> \in legalTransitions

IsTerminal(status) == status \in {"FINISHED", "CANCELLED", "REFUNDED"}

-----------------------------------------------------------------------------
(* The handlers that move an order, with the status each one moves it to.   *)

StatusOps == {"PayOrder", "CancelOrder", "FinishOrder", "RequestRefund",
              "MerchantShipOrder", "MerchantApproveRefund"}

\* The handlers that require the consumer who placed the order; the others
\* require its merchant.
ConsumerOps == {"PayOrder", "CancelOrder", "FinishOrder", "RequestRefund"}

ToStatus(op) ==
  CASE op = "PayOrder"              -> "PAID"
    [] op = "CancelOrder"           -> "CANCELLED"
    [] op = "FinishOrder"           -> "FINISHED"
    [] op = "RequestRefund"         -> "REFUNDING"
    [] op = "MerchantShipOrder"     -> "SHIPPED"
    [] op = "MerchantApproveRefund" -> "REFUNDED"

-----------------------------------------------------------------------------
(* service_order_idempotency.go                                             *)

payAlreadyApplied(o) ==
  \/ "PAID" \in o.stamps
  \/ o.status \in {"PAID", "SHIPPED", "FINISHED", "REFUNDING", "REFUNDED"}

cancelAlreadyApplied(o) == "CANCELLED" \in o.stamps \/ o.status = "CANCELLED"

finishAlreadyApplied(o) == "FINISHED" \in o.stamps \/ o.status = "FINISHED"

refundRequestAlreadyApplied(o) == o.status \in {"REFUNDING", "REFUNDED"}

\* Mutant: every status after payment counts as shipped, as for payment.
shipAlreadyApplied_PostPaid(o) ==
  "SHIPPED" \in o.stamps \/ o.status \in {"SHIPPED", "FINISHED", "REFUNDING", "REFUNDED"}

shipAlreadyApplied(o) ==
  "SHIPPED" \in o.stamps \/ o.status \in {"SHIPPED", "FINISHED"}

refundApprovalAlreadyApplied(o) == o.status = "REFUNDED"

AlreadyApplied(op, o) ==
  \/ op = "PayOrder"              /\ payAlreadyApplied(o)
  \/ op = "CancelOrder"           /\ cancelAlreadyApplied(o)
  \/ op = "FinishOrder"           /\ finishAlreadyApplied(o)
  \/ op = "RequestRefund"         /\ refundRequestAlreadyApplied(o)
  \/ op = "MerchantShipOrder"     /\ shipAlreadyApplied(o)
  \/ op = "MerchantApproveRefund" /\ refundApprovalAlreadyApplied(o)

=============================================================================
