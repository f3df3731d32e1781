--------------------------- MODULE OrderLifecycle ----------------------------
(***************************************************************************)
(* What the order handlers promise of one order, whoever calls them and in *)
(* whatever order: its status, the state of the stock it holds and the     *)
(* records of its payment, cancellation and refund move together, in one   *)
(* step, along the state machine, and each record is written once.         *)
(*                                                                         *)
(* There are no handlers, transactions or failures here; OrderProperties   *)
(* states that OrderService implements this module.                        *)
(***************************************************************************)
CONSTANT OrderIds

VARIABLES
  status,     \* the order's status, "NONE" before it is placed
  holding,    \* the states of the inventory locks it holds
  events,     \* how often its order events name a payment, cancellation or refund
  outgoing    \* ... and the outbox does

Recorded == {"PAID", "CANCELLED", "REFUNDED"}

vars == <<status, holding, events, outgoing>>

Init ==
  /\ status = [o \in OrderIds |-> "NONE"]
  /\ holding = [o \in OrderIds |-> {}]
  /\ events = [o \in OrderIds |-> [e \in Recorded |-> "never"]]
  /\ outgoing = [o \in OrderIds |-> [e \in Recorded |-> "never"]]

Move(o, from, to) ==
  /\ status[o] = from
  /\ status' = [status EXCEPT ![o] = to]

\* A step that also changes the stock the order holds and leaves its record,
\* the only one: nothing makes it "again".
MoveStock(o, from, to, before, after) ==
  /\ Move(o, from, to)
  /\ holding[o] = {before}
  /\ holding' = [holding EXCEPT ![o] = {after}]
  /\ events[o][to] = "never"
  /\ events' = [events EXCEPT ![o][to] = "once"]
  /\ outgoing[o][to] = "never"
  /\ outgoing' = [outgoing EXCEPT ![o][to] = "once"]

Place(o) ==
  /\ Move(o, "NONE", "CREATED")
  /\ holding' = [holding EXCEPT ![o] = {"locked"}]
  /\ UNCHANGED <<events, outgoing>>

Pay(o) == MoveStock(o, "CREATED", "PAID", "locked", "confirmed")
Cancel(o) == MoveStock(o, "CREATED", "CANCELLED", "locked", "released")
ApproveRefund(o) == MoveStock(o, "REFUNDING", "REFUNDED", "confirmed", "released")

\* Shipping, receipt and a refund request change nothing but the status.
Carry(o) ==
  /\ \/ Move(o, "PAID", "SHIPPED")
     \/ Move(o, "SHIPPED", "FINISHED")
     \/ \E from \in {"PAID", "SHIPPED"} : Move(o, from, "REFUNDING")
  /\ UNCHANGED <<holding, events, outgoing>>

Next == \E o \in OrderIds : Place(o) \/ Pay(o) \/ Cancel(o) \/ ApproveRefund(o) \/ Carry(o)

Spec == Init /\ [][Next]_vars

=============================================================================
