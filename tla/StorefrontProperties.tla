------------------------- MODULE StorefrontProperties -------------------------
(* What the requests of Storefront do to each other, and what they do not. *)
EXTENDS Storefront

\* The type invariant: what is in the tables and in the calls.
StorefrontTypeOK ==
  LET Row == [sku : SKUs, quantity : Nat \ {0}, selected : BOOLEAN]
      Product == [title : Titles, status : Statuses]
  IN  /\ DOMAIN cart \subseteq 1 .. serial
      /\ \A i \in DOMAIN cart : cart[i] \in Row
      /\ orders \in [Keys -> [SKUs -> Nat]]
      /\ {views, visits} \subseteq Nat
      /\ {product, set} \subseteq Product /\ past \subseteq Product
      /\ {journal, done} \subseteq [Events -> Nat]
      /\ calls \in 0 .. MaxCalls /\ faults \in 0 .. MaxFaults
      /\ due \in [SKUs -> Int]
      /\ upset \subseteq SKUs \cup {"note", "product"}

Ordered(s) == Total([k \in Keys |-> orders[k][s]])
OwedOf(s) == Total([p \in Callers |-> Owed(p)[s]])

\* Every unit the consumer put in is in the cart or in an order, once, but for
\* a SKU whose line was written with an old quantity, selected or changed while
\* a checkout was under way, not read by a checkout that deleted it, or left
\* behind by one that failed after its order (UpdateLine, DeleteSelectedCartItems,
\* Fail).  A SKU gets a second line when two requests find none, or when a read of
\* the cart fails and misses it; by nothing else: it has at most as many lines as
\* there are requests at a time and failures (AddCartItem).
CartIsKept ==
  /\ \A s \in SKUs \ upset : Units(cart, s) + Ordered(s) = due[s] + OwedOf(s)
  /\ \A s \in SKUs : Cardinality(Lines(s)) <= Cardinality(Callers) + faults

\* The count of views never exceeds the views, is never back at nothing, and is
\* exact as long as no two requests read the same count (CountView).
ViewsAreCounted ==
  /\ views <= visits
  /\ visits > 0 => views > 0
  /\ "note" \notin upset => views = visits

\* A product has the title and the status that the merchant set last, unless one
\* of them was written together with an old copy of the other (SaveProduct).
ProductIsAsSet == "product" \notin upset => product = set

\* The merchant's funnel tells each deed of a known visitor once at most, and none
\* of others.  A dashboard that could read all events misses as many deeds as there
\* are requests under way and failures; one that could not may show any less.  An
\* order of the cart is one deed for all repetitions of its checkout, also when
\* they run side by side or miss the order in their lookup (AppendEvent,
\* PlaceOrder, Funnel).
FunnelFollows ==
  LET Under(e) == Cardinality({p \in Callers : At(p, "event") /\ call[p].event = e})
  IN  /\ \A e \in Events, failed \in BOOLEAN : \A n \in Funnel(e, failed) :
           /\ n <= done[e]
           /\ failed \/ done[e] <= n + Under(e) + faults
      /\ done["ORDER_CREATE"] = Cardinality({k \in Keys : orders[k] # Nothing})

=============================================================================
