------------------------------ MODULE Storefront ------------------------------
(***************************************************************************)
(* The cart, the notes and the product pages of the shop:                  *)
(* application/service_cart.go, service_catalog.go, the product handlers   *)
(* of service_merchant.go and the checkout of a cart in service_order.go.  *)
(*                                                                         *)
(* One consumer, one product with its SKUs, one note that links it, and a  *)
(* merchant whose session knows its shop.  Every handler reads a row,      *)
(* changes the copy in memory and writes it back by its id, outside of a   *)
(* transaction; requests of the same account run side by side.  A query    *)
(* for a list that fails is answered with less, or with nothing.  What     *)
(* became of the stock and of the order is the subject of OrderService.    *)
(***************************************************************************)
EXTENDS Integers, FiniteSets, Functions

CONSTANTS
  Callers,        \* requests in progress
  SKUs,           \* of the product
  Keys,           \* idempotency keys
  Titles,
  FirstTitle,
  MaxQuantity,    \* bounds the quantity of a request
  MaxCalls,       \* bounds the calls
  MaxFaults       \* bounds the statements and calls that fail

ASSUME StorefrontAssumption ==
  /\ FirstTitle \in Titles
  /\ IsFiniteSet(Callers)
  /\ {MaxQuantity, MaxCalls, MaxFaults} \subseteq Nat

Quantities == 1 .. MaxQuantity
Statuses == {"draft", "online", "offline"}
Events == {"NOTE_VIEW", "PRODUCT_CLICK", "ADD_TO_CART", "ORDER_CREATE"}

VARIABLES
  cart,           \* the consumer's cart_items, by id
  serial,         \* the last id given
  orders,         \* the units of each SKU that an order took, by its key
  views,          \* view_count of the note
  visits,         \* how often it was viewed, by whomever
  product,        \* the product's row
  past,           \* the values it has had: the caches may still have them
  journal,        \* behavior_events with the merchant's id, counted
  call,           \* what a caller's request has to do next
  calls,          \* how many there have been
  faults,
  due,            \* the units of a SKU the consumer put in and did not take out
  done,           \* the deeds of known visitors, which the journal is to tell
  set,            \* what the merchant set last
  upset           \* what was written over with, or deleted by, an old copy

rows == <<cart, serial>>
page == <<views, visits>>
goods == <<product, past, set>>
history == <<due, done, upset>>
vars == <<rows, orders, page, goods, journal, call, calls, faults, history>>

Idle == [step |-> "none"]
Busy(p) == call[p].step # "none"
At(p, step) == call[p].step = step

Nothing == [s \in SKUs |-> 0]

\* The sum of what f counts: f[x] units for each x.
Each(f) == UNION {{x} \X (1 .. f[x]) : x \in DOMAIN f}
Total(f) == Cardinality(Each(f))

Quantity(c, s) == [i \in {j \in DOMAIN c : c[j].sku = s} |-> c[i].quantity]
Units(c, s) == Total(Quantity(c, s))
Selected(c) == {i \in DOMAIN c : c[i].selected}
Picked(c) == [s \in SKUs |-> Units(Restrict(c, Selected(c)), s)]

\* A product is made as a draft; others are on sale from the start.
Init ==
  /\ cart = << >>
  /\ serial = 0
  /\ orders = [k \in Keys |-> Nothing]
  /\ views = 0
  /\ visits = 0
  /\ product \in [title : {FirstTitle}, status : {"draft", "online"}]
  /\ past = {product}
  /\ set = product
  /\ journal = [e \in Events |-> 0]
  /\ call = [p \in Callers |-> Idle]
  /\ calls = 0
  /\ faults = 0
  /\ due = Nothing
  /\ done = [e \in Events |-> 0]
  /\ upset = {}

-----------------------------------------------------------------------------
(* The first step of each handler *)

Begin(p, first) ==
  /\ ~Busy(p)
  /\ calls < MaxCalls /\ calls' = calls + 1
  /\ call' = [call EXCEPT ![p] = first]
  /\ UNCHANGED <<rows, orders, page, goods, journal, due, upset>>

\* The first lines of the cart, up to the id n.
First(n) == Restrict(cart, {i \in DOMAIN cart : i <= n})

\* ListCartItems returns First(n): the whole cart, or as much of it as was read
\* when the query or a row failed, which its caller can not tell from a cart.
ListCartItems(n) ==
  IF DOMAIN cart \subseteq 1 .. n
  THEN UNCHANGED faults
  ELSE faults < MaxFaults /\ faults' = faults + 1

\* GetProduct answers out of a cache.
SeenOnline == \E seen \in past : seen.status = "online"

Lines(s) == {i \in DOMAIN cart : cart[i].sku = s}

\* AddCartItem takes the first line of the SKU that it reads, and adds one if it
\* reads none.
AddCartItem(p, s, q) ==
  /\ SeenOnline
  /\ \E n \in 0 .. serial :
       LET seen == {i \in Lines(s) : i <= n}
       IN  /\ ListCartItems(n)
           /\ \/ /\ seen = {}
                 /\ Begin(p, [step |-> "insert", row |-> [sku |-> s, quantity |-> q, selected |-> TRUE]])
              \/ \E i \in seen :
                   /\ \A j \in seen : i <= j
                   /\ Begin(p, [step |-> "update", does |-> "add", id |-> i, copy |-> cart[i],
                                row |-> [cart[i] EXCEPT !.quantity = @ + q]])
  /\ UNCHANGED done

\* Mutant: a quantity that is left out is written as 0.
UpdateCartItem_TakesZero(p, i, q, selected) ==
  /\ i \in DOMAIN cart
  /\ Begin(p, [step |-> "update", does |-> "set", id |-> i, copy |-> cart[i],
               row |-> [cart[i] EXCEPT !.quantity = q, !.selected = selected]])
  /\ UNCHANGED <<faults, done>>

\* UpdateCartItem sets the quantity, the selection, or both.
UpdateCartItem(p, i, q, selected) ==
  /\ i \in DOMAIN cart
  /\ Begin(p, [step |-> "update", does |-> IF q > 0 THEN "set" ELSE "select",
               id |-> i, copy |-> cart[i],
               row |-> [cart[i] EXCEPT !.quantity = IF q > 0 THEN q ELSE @,
                                       !.selected = selected]])
  /\ UNCHANGED <<faults, done>>

\* GetNote reads the count, for a visitor who is known or not.
GetNote(p, known) ==
  /\ Begin(p, [step |-> "count", copy |-> views, known |-> known])
  /\ UNCHANGED <<faults, done>>

\* GetProduct has nothing to write but the event of a visitor who is known: a
\* click of another changes nothing.
GetProduct(p) ==
  /\ Begin(p, [step |-> "event", event |-> "PRODUCT_CLICK", next |-> Idle])
  /\ done' = [done EXCEPT !["PRODUCT_CLICK"] = @ + 1]
  /\ UNCHANGED faults

\* CreateOrder without items looks for the key; a key in use is answered with
\* its order, and the cart is left as it is.  A lookup that fails finds no order.
CreateOrder(p, k) ==
  /\ \/ orders[k] = Nothing /\ UNCHANGED faults
     \/ orders[k] # Nothing /\ faults < MaxFaults /\ faults' = faults + 1
  /\ Begin(p, [step |-> "pick", key |-> k])
  /\ UNCHANGED done

\* Mutant: the merchant's form puts the product back to a draft.
MerchantUpdateProduct_Redrafts(p, title) ==
  /\ \E seen \in past :
       Begin(p, [step |-> "save", sets |-> "title", copy |-> seen,
                 row |-> [title |-> title, status |-> "draft"]])
  /\ UNCHANGED <<faults, done>>

\* Both handlers of the merchant write the whole row back, and read it through
\* the caches.
MerchantUpdateProduct(p, title) ==
  /\ \E seen \in past :
       Begin(p, [step |-> "save", sets |-> "title", copy |-> seen,
                 row |-> [seen EXCEPT !.title = title]])
  /\ UNCHANGED <<faults, done>>

MerchantSetProductStatus(p, status) ==
  /\ \E seen \in past :
       Begin(p, [step |-> "save", sets |-> "status", copy |-> seen,
                 row |-> [seen EXCEPT !.status = status]])
  /\ UNCHANGED <<faults, done>>

-----------------------------------------------------------------------------
(* The steps that follow *)

\* Caller p goes on with the given step.
Continue(p, next) ==
  /\ call' = [call EXCEPT ![p] = next]
  /\ UNCHANGED <<calls, faults>>

Tell(event, next) == [step |-> "event", event |-> event, next |-> next]

InsertLine(p) ==
  /\ At(p, "insert")
  /\ serial' = serial + 1
  /\ cart' = [i \in DOMAIN cart \cup {serial'} |-> IF i = serial' THEN call[p].row ELSE cart[i]]
  /\ due' = [due EXCEPT ![call[p].row.sku] = @ + call[p].row.quantity]
  /\ done' = [done EXCEPT !["ADD_TO_CART"] = @ + 1]
  /\ Continue(p, Tell("ADD_TO_CART", Idle))
  /\ UNCHANGED <<orders, page, goods, journal, upset>>

\* The units that a change of a line is to bring.
Change(c, row) ==
  CASE c.does = "add" -> c.row.quantity - c.copy.quantity
    [] c.does = "set" -> c.row.quantity - row.quantity
    [] c.does = "select" -> 0

\* UPDATE by the id: every column comes from the copy.  A line that is gone by
\* now is an error, and the request is over.
UpdateLine(p) ==
  /\ At(p, "update")
  /\ LET c == call[p]
     IN  \/ /\ c.id \notin DOMAIN cart
            /\ Continue(p, Idle)
            /\ UNCHANGED <<cart, due, done, upset>>
         \/ /\ c.id \in DOMAIN cart
            /\ cart' = [cart EXCEPT ![c.id] = c.row]
            /\ due' = [due EXCEPT ![c.row.sku] = @ + Change(c, cart[c.id])]
            /\ upset' = IF c.does # "set" /\ cart[c.id].quantity # c.copy.quantity
                        THEN upset \cup {c.row.sku} ELSE upset
            /\ IF c.does = "add"
               THEN /\ done' = [done EXCEPT !["ADD_TO_CART"] = @ + 1]
                    /\ Continue(p, Tell("ADD_TO_CART", Idle))
               ELSE Continue(p, Idle) /\ UNCHANGED done
  /\ UNCHANGED <<serial, orders, page, goods, journal>>

\* DeleteCartItem is one statement.
DeleteCartItem(p, i) ==
  /\ i \in DOMAIN cart
  /\ ~Busy(p)
  /\ calls < MaxCalls /\ calls' = calls + 1
  /\ cart' = Restrict(cart, DOMAIN cart \ {i})
  /\ due' = [due EXCEPT ![cart[i].sku] = @ - cart[i].quantity]
  /\ UNCHANGED <<serial, orders, page, goods, journal, call, faults, done, upset>>

\* Mutant: the note is saved as it was read.
CountView_NotCounted(p) ==
  /\ At(p, "count")
  /\ views' = call[p].copy
  /\ visits' = visits + 1
  /\ upset' = IF views # call[p].copy THEN upset \cup {"note"} ELSE upset
  /\ IF call[p].known
     THEN /\ done' = [done EXCEPT !["NOTE_VIEW"] = @ + 1]
          /\ Continue(p, Tell("NOTE_VIEW", Idle))
     ELSE Continue(p, Idle) /\ UNCHANGED done
  /\ UNCHANGED <<rows, orders, goods, journal, due>>

\* UpdateNote writes the count that was read, and one.  No event tells of a
\* visitor who is not known.
CountView(p) ==
  /\ At(p, "count")
  /\ views' = call[p].copy + 1
  /\ visits' = visits + 1
  /\ upset' = IF views # call[p].copy THEN upset \cup {"note"} ELSE upset
  /\ IF call[p].known
     THEN /\ done' = [done EXCEPT !["NOTE_VIEW"] = @ + 1]
          /\ Continue(p, Tell("NOTE_VIEW", Idle))
     ELSE Continue(p, Idle) /\ UNCHANGED done
  /\ UNCHANGED <<rows, orders, goods, journal, due>>

SaveProduct(p) ==
  /\ At(p, "save")
  /\ product' = call[p].row
  /\ past' = past \cup {product'}
  /\ set' = IF call[p].sets = "title" THEN [set EXCEPT !.title = call[p].row.title]
                                      ELSE [set EXCEPT !.status = call[p].row.status]
  /\ upset' = IF product # call[p].copy THEN upset \cup {"product"} ELSE upset
  /\ Continue(p, Idle)
  /\ UNCHANGED <<rows, orders, page, journal, due, done>>

\* AppendBehaviorEvent; its error is ignored.  A view is told without the merchant,
\* to no funnel, when the note's products can not be read (primaryMerchantID).
AppendEvent(p) ==
  /\ At(p, "event")
  /\ \/ /\ journal' = [journal EXCEPT ![call[p].event] = @ + 1]
        /\ Continue(p, call[p].next)
     \/ /\ faults < MaxFaults /\ faults' = faults + 1
        /\ call' = [call EXCEPT ![p] = call[p].next]
        /\ UNCHANGED <<journal, calls>>
  /\ UNCHANGED <<rows, orders, page, goods, history>>

\* normalizeCheckoutLines takes the lines selected, of those it reads; none, or
\* one that can not be sold, is an error.  A SKU in two of them is one as well: an
\* order has one lock for each (uk_inventory_locks_order_sku).
PickLines(p) ==
  /\ At(p, "pick")
  /\ \/ /\ SeenOnline
        /\ \E n \in 0 .. serial :
             /\ Selected(First(n)) # {}
             /\ \A i, j \in Selected(First(n)) : cart[i].sku = cart[j].sku => i = j
             /\ ListCartItems(n)
             /\ call' = [call EXCEPT ![p] = [step |-> "place", key |-> call[p].key, units |-> Picked(First(n))]]
        /\ UNCHANGED calls
     \/ Continue(p, Idle)
  /\ UNCHANGED <<rows, orders, page, goods, journal, history>>

\* Mutant: the index on the key is missing.
PlaceOrder_SecondOrder(p) ==
  /\ At(p, "place")
  /\ orders' = [orders EXCEPT ![call[p].key] = [s \in SKUs |-> @[s] + call[p].units[s]]]
  /\ done' = [done EXCEPT !["ORDER_CREATE"] = @ + 1]
  /\ Continue(p, Tell("ORDER_CREATE", [step |-> "clear", units |-> call[p].units]))
  /\ UNCHANGED <<rows, page, goods, journal, due, upset>>

\* The order is placed, or refused: there are too few, or the key is taken.
PlaceOrder(p) ==
  /\ At(p, "place")
  /\ \/ /\ orders[call[p].key] = Nothing
        /\ orders' = [orders EXCEPT ![call[p].key] = call[p].units]
        /\ done' = [done EXCEPT !["ORDER_CREATE"] = @ + 1]
        /\ Continue(p, Tell("ORDER_CREATE", [step |-> "clear", units |-> call[p].units]))
     \/ Continue(p, Idle) /\ UNCHANGED <<orders, done>>
  /\ UNCHANGED <<rows, page, goods, journal, due, upset>>

\* Mutant: all lines are deleted.
DeleteSelectedCartItems_All(p) ==
  /\ At(p, "clear")
  /\ cart' = << >>
  /\ upset' = upset \cup {s \in SKUs : Picked(cart)[s] # call[p].units[s]}
  /\ Continue(p, Idle)
  /\ UNCHANGED <<serial, orders, page, goods, journal, due, done>>

\* DELETE of the lines that are selected by now.
DeleteSelectedCartItems(p) ==
  /\ At(p, "clear")
  /\ cart' = Restrict(cart, DOMAIN cart \ Selected(cart))
  /\ upset' = upset \cup {s \in SKUs : Picked(cart)[s] # call[p].units[s]}
  /\ Continue(p, Idle)
  /\ UNCHANGED <<serial, orders, page, goods, journal, due, done>>

-----------------------------------------------------------------------------

\* What DashboardFunnel may show for e: it counts the events that ListBehaviorEvents
\* returns, by their ids: all, or, when the query or a row fails, the first of them.
Funnel(e, failed) == IF failed THEN 0 .. journal[e] ELSE {journal[e]}

\* The units of an order whose request has still to empty the cart.
Owed(p) ==
  CASE At(p, "clear") -> call[p].units
    [] At(p, "event") /\ call[p].next # Idle -> call[p].next.units
    [] OTHER -> Nothing

\* A statement fails, or the process dies: the request goes no further.
Fail(p) ==
  /\ Busy(p)
  /\ faults < MaxFaults /\ faults' = faults + 1
  /\ call' = [call EXCEPT ![p] = Idle]
  /\ upset' = upset \cup {s \in SKUs : Owed(p)[s] > 0}
  /\ UNCHANGED <<rows, orders, page, goods, journal, calls, due, done>>

Next ==
  \E p \in Callers :
    \/ \E s \in SKUs, q \in Quantities : AddCartItem(p, s, q)
    \/ \E i \in DOMAIN cart :
         \/ \E q \in {0} \cup Quantities, b \in BOOLEAN : UpdateCartItem(p, i, q, b)
         \/ DeleteCartItem(p, i)
    \/ \E known \in BOOLEAN : GetNote(p, known)
    \/ GetProduct(p)
    \/ \E k \in Keys : CreateOrder(p, k)
    \/ \E t \in Titles : MerchantUpdateProduct(p, t)
    \/ \E b \in Statuses : MerchantSetProductStatus(p, b)
    \/ InsertLine(p) \/ UpdateLine(p) \/ CountView(p) \/ SaveProduct(p)
    \/ AppendEvent(p) \/ PickLines(p) \/ PlaceOrder(p) \/ DeleteSelectedCartItems(p)
    \/ Fail(p)

Spec == Init /\ [][Next]_vars

=============================================================================
