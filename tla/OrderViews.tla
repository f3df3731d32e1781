------------------------------ MODULE OrderViews -------------------------------
(***************************************************************************)
(* Looking at orders while the handlers of OrderService change them.       *)
(*                                                                         *)
(* The view of an order is put together by enrichOrderView from three      *)
(* statements, which no transaction holds together: the row of the order,  *)
(* its events, its inventory locks.  (The fourth, the items, never change  *)
(* and come with the row.)  A statement that fails, or a row that cannot   *)
(* be scanned, is not reported: the view shows what was read so far.       *)
(*                                                                         *)
(* An order of a list is such a look, whose row was read with the rows of  *)
(* the others; so is the answer of a handler, whose row is the one it      *)
(* committed.                                                              *)
(***************************************************************************)
EXTENDS StockAccounting

VARIABLE look     \* the view in the making: what it shows so far

views == <<vars, look>>

\* Mutant: the locks are read before the events.
Reads_LocksFirst == <<"row", "locks", "events">>

\* The statements, in the order of enrichOrderView.
Reads == <<"row", "events", "locks">>

NoLook == [order |-> None, done |-> 0, status |-> "NONE", events |-> {}, locks |-> {}]

ViewInit == Init /\ look = NoLook

\* The rows of the orders a statement selects.
listOrders(column, actor) ==
  {o \in OrderIds : orders[o].status # "NONE" /\ orders[o][column] = actor}

\* The row of an order is there; the rest of its view is still to be read.
Look(o) ==
  /\ look.done \in {0, Len(Reads)}
  /\ look' = [NoLook EXCEPT !.order = o, !.done = 1, !.status = orders[o].status]
  /\ UNCHANGED vars

ListOrders(u) == \E o \in listOrders("user", u) : Look(o)
MerchantListOrders(m) == \E o \in listOrders("merchant", m) : Look(o)

\* The consumer who placed an order and the merchant who sells it may see it.
GetOrder(actor) ==
  \E o \in listOrders("user", actor) \cup listOrders("merchant", actor) : Look(o)

\* The first rows of a result: all of them unless the statement fails.
Rows(whole) ==
  \E n \in 0 .. Len(whole) :
    /\ \/ n = Len(whole) /\ UNCHANGED faults
       \/ n < Len(whole) /\ faults < MaxFaults /\ faults' = faults + 1
    /\ look' = [look EXCEPT !.done = @ + 1,
                            ![Reads[look.done + 1]] = {whole[i] : i \in 1 .. n}]

LockStatuses(o) == [i \in DOMAIN locks[o] |-> locks[o][i].status]

ReadNext ==
  /\ look.done \in 1 .. Len(Reads) - 1
  /\ Rows(IF Reads[look.done + 1] = "events" THEN journal["order_events"][look.order]
                                             ELSE LockStatuses(look.order))
  /\ UNCHANGED <<store, client>>

ViewNext ==
  \/ Next /\ UNCHANGED look
  \/ \E u \in Users : ListOrders(u)
  \/ \E m \in Merchants : MerchantListOrders(m)
  \/ \E actor \in Users \cup Merchants : GetOrder(actor)
  \/ ReadNext

ViewSpec == ViewInit /\ [][ViewNext]_views

-----------------------------------------------------------------------------

\* A view is never behind itself: its locks are in the state its status and
\* every event it shows call for, or in a later one.  (They may be ahead.)
ViewIsNotBehind ==
  LET shown == look.events \cup {look.status}
  IN  look.done = Len(Reads) =>
        /\ shown \ {"CREATED"} # {} => "locked" \notin look.locks
        /\ shown \cap {"CANCELLED", "REFUNDED"} # {} => look.locks \subseteq {"released"}

=============================================================================
