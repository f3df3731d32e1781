----------------------------- MODULE MCOrderViews ------------------------------
(***************************************************************************)
(* The small instances of OrderService, with somebody who looks.           *)
(***************************************************************************)
EXTENDS MCOrderService, OrderViews

=============================================================================
