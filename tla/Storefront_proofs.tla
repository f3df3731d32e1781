---------------------------- MODULE Storefront_proofs ----------------------------
(***************************************************************************)
(* What the requests of Storefront keep, for any number of requests, SKUs, *)
(* keys, calls and failures.                                               *)
(*                                                                         *)
(* A call has a record that tells what it does next: Sound says what is in *)
(* it, and how the row it is about to write goes with the copy it took.    *)
(* On top of it the properties have invariants of their own, ShopInv,      *)
(* FunnelInv and CartInv, which relate what the calls have in hand to what *)
(* is in the tables.                                                       *)
(***************************************************************************)
EXTENDS StorefrontProperties, FiniteSetTheorems, TLAPS

-----------------------------------------------------------------------------
(* Totals *)

LEMMA EachElement ==
  ASSUME NEW f, NEW x, NEW n
  PROVE  <<x, n>> \in Each(f) <=> x \in DOMAIN f /\ n \in 1 .. f[x]
  BY DEF Each

LEMMA EachIsPair ==
  ASSUME NEW f, NEW e \in Each(f)
  PROVE  \E x \in DOMAIN f : \E n \in 1 .. f[x] : e = <<x, n>>
  BY DEF Each

\* What is counted in no place is nothing.
LEMMA TotalOfNothing ==
  ASSUME NEW f, \A x \in DOMAIN f : f[x] = 0
  PROVE  IsFiniteSet(Each(f)) /\ Total(f) = 0
  <1>1. Each(f) = {}
    BY EachIsPair
  <1> QED
    BY <1>1, FS_EmptySet DEF Total

LEMMA TotalOfOne ==
  ASSUME NEW f, NEW x, DOMAIN f = {x}, f[x] \in Nat
  PROVE  IsFiniteSet(Each(f)) /\ Total(f) = f[x]
  <1> DEFINE S == {x}
             T == 1 .. f[x]
  <1>1. Each(f) = S \X T
    BY EachElement, EachIsPair DEF Each
  <1>2. IsFiniteSet(S) /\ Cardinality(S) = 1
    BY FS_Singleton
  <1>3. IsFiniteSet(T) /\ Cardinality(T) = f[x]
    BY FS_Interval
  <1> HIDE DEF S, T
  <1>4. IsFiniteSet(S \X T) /\ Cardinality(S \X T) = Cardinality(S) * Cardinality(T)
    BY <1>2, <1>3, FS_Product
  <1> QED
    BY <1>1, <1>2, <1>3, <1>4 DEF Total

LEMMA TotalOfSame ==
  ASSUME NEW f, NEW g, DOMAIN g = DOMAIN f, \A x \in DOMAIN f : g[x] = f[x]
  PROVE  Each(g) = Each(f) /\ Total(g) = Total(f)
  <1>1. Each(g) = Each(f)
    BY DEF Each
  <1> QED
    BY <1>1 DEF Total

\* A count is the sum of the counts of two parts.
LEMMA TotalOfParts ==
  ASSUME NEW f, NEW g, NEW h, IsFiniteSet(Each(g)), IsFiniteSet(Each(h)),
         DOMAIN f = DOMAIN g \cup DOMAIN h, DOMAIN g \cap DOMAIN h = {},
         \A x \in DOMAIN g : f[x] = g[x], \A x \in DOMAIN h : f[x] = h[x]
  PROVE  IsFiniteSet(Each(f)) /\ Total(f) = Total(g) + Total(h)
  <1>1. Each(f) = Each(g) \cup Each(h)
    <2>1. \A e \in Each(f) : e \in Each(g) \cup Each(h)
      BY EachElement, EachIsPair
    <2>2. \A e \in Each(g) \cup Each(h) : e \in Each(f)
      BY EachElement, EachIsPair
    <2> QED
      BY <2>1, <2>2
  <1>2. Each(g) \cap Each(h) = {}
    <2>1. ASSUME NEW e \in Each(g), e \in Each(h) PROVE FALSE
      <3>1. PICK x \in DOMAIN g : \E n \in 1 .. g[x] : e = <<x, n>>
        BY EachIsPair
      <3>2. PICK y \in DOMAIN h : \E n \in 1 .. h[y] : e = <<y, n>>
        BY <2>1, EachIsPair
      <3>3. x = y
        BY <3>1, <3>2
      <3> QED
        BY <3>3
    <2> QED
      BY <2>1
  <1>3. /\ IsFiniteSet(Each(g) \cup Each(h))
        /\ Cardinality(Each(g) \cup Each(h))
             = Cardinality(Each(g)) + Cardinality(Each(h)) - Cardinality(Each(g) \cap Each(h))
    BY FS_Union
  <1>4. Cardinality(Each(g) \cap Each(h)) = 0
    BY <1>2, FS_EmptySet
  <1>5. Cardinality(Each(g)) \in Nat /\ Cardinality(Each(h)) \in Nat
    BY FS_CardinalityType
  <1> QED
    BY <1>1, <1>3, <1>4, <1>5 DEF Total

LEMMA PartIsFinite ==
  ASSUME NEW f, NEW g, IsFiniteSet(Each(f)), DOMAIN g \subseteq DOMAIN f,
         \A x \in DOMAIN g : g[x] = f[x]
  PROVE  IsFiniteSet(Each(g))
  <1>1. Each(g) \in SUBSET Each(f)
    BY EachElement, EachIsPair
  <1> QED
    BY <1>1, FS_Subset

LEMMA TotalType ==
  ASSUME NEW f, IsFiniteSet(Each(f))
  PROVE  Total(f) \in Nat
  BY FS_CardinalityType DEF Total

LEMMA CountIsFinite ==
  ASSUME NEW f, IsFiniteSet(DOMAIN f), \A x \in DOMAIN f : f[x] \in Nat
  PROVE  IsFiniteSet(Each(f))
  <1> DEFINE part == [x \in DOMAIN f |-> {x} \X (1 .. f[x])]
             parts == {{x} \X (1 .. f[x]) : x \in DOMAIN f}
  <1>1. part \in Surjection(DOMAIN f, parts)
    BY DEF Surjection
  <1>2. IsFiniteSet(parts)
    BY <1>1, FS_Surjection
  <1>3. ASSUME NEW x \in DOMAIN f PROVE IsFiniteSet({x} \X (1 .. f[x]))
    <2> DEFINE S == {x}
               T == 1 .. f[x]
    <2>1. IsFiniteSet(S)
      BY FS_Singleton
    <2>2. f[x] \in Int /\ 1 \in Int
      OBVIOUS
    <2>3. IsFiniteSet(T)
      BY <2>2, FS_Interval
    <2> HIDE DEF S, T
    <2>4. IsFiniteSet(S \X T)
      BY <2>1, <2>3, FS_Product
    <2> QED
      BY <2>4 DEF S, T
  <1>4. \A part_x \in parts : IsFiniteSet(part_x)
    BY <1>3
  <1>5. IsFiniteSet(UNION parts)
    BY <1>2, <1>4, FS_UNION
  <1> QED
    BY <1>5 DEF Each

\* One place more.
LEMMA TotalWithMore ==
  ASSUME NEW f, NEW g, IsFiniteSet(Each(f)), NEW x, x \notin DOMAIN f, DOMAIN g = DOMAIN f \cup {x},
         g[x] \in Nat, \A y \in DOMAIN f : g[y] = f[y]
  PROVE  IsFiniteSet(Each(g)) /\ Total(g) = Total(f) + g[x]
  <1> DEFINE one == [y \in {x} |-> g[y]]
  <1>1. IsFiniteSet(Each(one)) /\ Total(one) = one[x] /\ one[x] = g[x]
    BY TotalOfOne
  <1>2. DOMAIN one = {x}
    OBVIOUS
  <1> HIDE DEF one
  <1>3. DOMAIN g = DOMAIN f \cup DOMAIN one /\ DOMAIN f \cap DOMAIN one = {}
    BY <1>2
  <1>4. \A y \in DOMAIN one : g[y] = one[y]
    BY <1>1, <1>2
  <1>5. IsFiniteSet(Each(g)) /\ Total(g) = Total(f) + Total(one)
    BY <1>1, <1>3, <1>4, TotalOfParts
  <1> QED
    BY <1>1, <1>5

\* Another count in one place.
LEMMA TotalWithChange ==
  ASSUME NEW f, NEW g, IsFiniteSet(Each(f)), NEW x \in DOMAIN f, DOMAIN g = DOMAIN f,
         f[x] \in Nat, g[x] \in Nat, \A y \in DOMAIN f \ {x} : g[y] = f[y]
  PROVE  IsFiniteSet(Each(g)) /\ Total(g) = Total(f) - f[x] + g[x] /\ f[x] <= Total(f)
  <1> DEFINE rest == [y \in DOMAIN f \ {x} |-> f[y]]
  <1>1. DOMAIN rest = DOMAIN f \ {x} /\ \A y \in DOMAIN rest : rest[y] = f[y]
    OBVIOUS
  <1> HIDE DEF rest
  <1>2. IsFiniteSet(Each(rest))
    BY <1>1, PartIsFinite
  <1>3. Total(f) = Total(rest) + f[x]
    BY <1>1, <1>2, TotalWithMore
  <1>4. IsFiniteSet(Each(g)) /\ Total(g) = Total(rest) + g[x]
    BY <1>1, <1>2, TotalWithMore
  <1> QED
    BY <1>2, <1>3, <1>4, TotalType

-----------------------------------------------------------------------------
(* Types *)

Line == [sku : SKUs, quantity : Nat \ {0}, selected : BOOLEAN]
Goods == [title : Titles, status : Statuses]
Clearing(c) == c.step = "clear" /\ c.units \in [SKUs -> Nat]

\* What is in the record of a call, by its next step.  A row goes with the copy
\* it was made of: only the columns the request names differ.
Sound(c) ==
  /\ c.step = "none" => c = Idle
  /\ c.step = "insert" => c.row \in Line
  /\ c.step = "update" =>
       /\ c.does \in {"add", "set", "select"} /\ c.id \in Nat /\ c.copy \in Line /\ c.row \in Line
       /\ c.row.sku = c.copy.sku
       /\ c.does = "select" => c.row.quantity = c.copy.quantity
  /\ c.step = "count" => c.copy \in Nat
  /\ c.step = "event" => c.event \in Events /\ (c.next = Idle \/ Clearing(c.next))
  /\ c.step = "pick" => c.key \in Keys
  /\ c.step = "place" => c.key \in Keys /\ c.units \in [SKUs -> Nat] /\ c.units # Nothing
  /\ c.step = "save" =>
       /\ c.copy \in Goods /\ c.row \in Goods /\ c.sets \in {"title", "status"}
       /\ c.sets = "title" => c.row.status = c.copy.status
       /\ c.sets = "status" => c.row.title = c.copy.title
  /\ c.step = "clear" => Clearing(c)

CartOK == serial \in Nat /\ DOMAIN cart \subseteq 1 .. serial /\ \A i \in DOMAIN cart : cart[i] \in Line

CountsOK ==
  /\ views \in Nat /\ visits \in Nat /\ journal \in [Events -> Nat] /\ done \in [Events -> Nat]
  /\ calls \in 0 .. MaxCalls /\ faults \in 0 .. MaxFaults

GoodsOK == product \in Goods /\ set \in Goods /\ past \subseteq Goods

UnitsOK ==
  orders \in [Keys -> [SKUs -> Nat]] /\ due \in [SKUs -> Int] /\ upset \subseteq SKUs \cup {"note", "product"}

CallsOK == DOMAIN call = Callers /\ \A p \in Callers : Sound(call[p])

Typed == CartOK /\ CountsOK /\ GoodsOK /\ UnitsOK /\ CallsOK

LEMMA TypedTells == Typed => StorefrontTypeOK
  BY DEF Typed, CartOK, CountsOK, GoodsOK, UnitsOK, StorefrontTypeOK, Line, Goods

LEMMA CallGoesOn ==
  ASSUME CallsOK, NEW p \in Callers, NEW next, call' = [call EXCEPT ![p] = next]
  PROVE  /\ DOMAIN call' = Callers /\ call'[p] = next
         /\ \A q \in Callers \ {p} : call'[q] = call[q]
         /\ Sound(next) => CallsOK'
  <1>1. DOMAIN call' = Callers /\ call'[p] = next /\ \A q \in Callers \ {p} : call'[q] = call[q]
    BY DEF CallsOK
  <1>2. Sound(next) => \A q \in Callers : Sound(call'[q])
    BY <1>1 DEF CallsOK
  <1>3. (\A q \in Callers : Sound(call'[q])) => CallsOK'
    BY <1>1 DEF CallsOK, Sound, Clearing, Idle
  <1> QED
    BY <1>1, <1>2, <1>3

LEMMA BeginTypes ==
  ASSUME Typed, NEW p \in Callers, NEW first, Begin(p, first), Sound(first), done' \in [Events -> Nat],
         UNCHANGED faults \/ (faults < MaxFaults /\ faults' = faults + 1)
  PROVE  Typed'
  <1>1. call' = [call EXCEPT ![p] = first] /\ UNCHANGED <<rows, orders, page, goods, journal, due, upset>>
        /\ calls' = calls + 1 /\ calls < MaxCalls
    BY DEF Begin
  <1>2. CallsOK'
    BY <1>1, CallGoesOn DEF Typed
  <1>3. CountsOK'
    BY <1>1, StorefrontAssumption DEF Typed, CountsOK, page
  <1>4. CartOK' /\ GoodsOK' /\ UnitsOK'
    BY <1>1 DEF Typed, CartOK, GoodsOK, UnitsOK, rows, goods
  <1> QED
    BY <1>2, <1>3, <1>4 DEF Typed

\* A read of the cart is of all of it, or it is a failure.
LEMMA CartIsRead ==
  ASSUME NEW n, ListCartItems(n)
  PROVE  \/ DOMAIN cart \subseteq 1 .. n /\ UNCHANGED faults
         \/ faults < MaxFaults /\ faults' = faults + 1
  BY DEF ListCartItems

\* What AddCartItem begins with: a new line, when it reads no line of the SKU, or
\* a change of one that is there.
LEMMA AddBegins ==
  ASSUME Typed, NEW p \in Callers, NEW s \in SKUs, NEW q \in Quantities, AddCartItem(p, s, q)
  PROVE  /\ UNCHANGED done
         /\ UNCHANGED faults \/ (faults < MaxFaults /\ faults' = faults + 1)
         /\ \/ /\ Lines(s) = {} \/ faults' = faults + 1
               /\ Begin(p, [step |-> "insert", row |-> [sku |-> s, quantity |-> q, selected |-> TRUE]])
            \/ \E i \in Lines(s) :
                 Begin(p, [step |-> "update", does |-> "add", id |-> i, copy |-> cart[i],
                           row |-> [cart[i] EXCEPT !.quantity = @ + q]])
  <1> DEFINE row == [sku |-> s, quantity |-> q, selected |-> TRUE]
             insert == [step |-> "insert", row |-> row]
             add(i) == [step |-> "update", does |-> "add", id |-> i, copy |-> cart[i],
                        row |-> [cart[i] EXCEPT !.quantity = @ + q]]
  <1>1. PICK n \in 0 .. serial :
          /\ ListCartItems(n)
          /\ \/ {i \in Lines(s) : i <= n} = {} /\ Begin(p, insert)
             \/ \E i \in {j \in Lines(s) : j <= n} : Begin(p, add(i))
    BY DEF AddCartItem
  <1>2. UNCHANGED done
    BY DEF AddCartItem
  <1> HIDE DEF row, insert, add
  <1>3. \/ DOMAIN cart \subseteq 1 .. n /\ UNCHANGED faults
        \/ faults < MaxFaults /\ faults' = faults + 1
    BY <1>1, CartIsRead
  <1>4. CASE {i \in Lines(s) : i <= n} = {} /\ Begin(p, insert)
    <2>1. DOMAIN cart \subseteq 1 .. n => Lines(s) = {}
      BY <1>4 DEF Lines
    <2>2. Lines(s) = {} \/ faults' = faults + 1
      BY <1>3, <2>1
    <2> QED
      BY <1>2, <1>3, <1>4, <2>2 DEF insert, row
  <1>5. CASE \E i \in {j \in Lines(s) : j <= n} : Begin(p, add(i))
    <2>1. PICK i \in Lines(s) : Begin(p, add(i))
      BY <1>5
    <2> QED
      BY <1>2, <1>3, <2>1 DEF add
  <1> QED
    BY <1>1, <1>4, <1>5

LEMMA CartCallsType ==
  ASSUME Typed, NEW p \in Callers,
         \/ \E s \in SKUs, q \in Quantities : AddCartItem(p, s, q)
         \/ \E i \in DOMAIN cart, q \in {0} \cup Quantities, b \in BOOLEAN : UpdateCartItem(p, i, q, b)
  PROVE  Typed'
  <1>1. \A i \in DOMAIN cart : i \in Nat /\ cart[i] \in Line
    BY DEF Typed, CartOK
  <1>2. done \in [Events -> Nat]
    BY DEF Typed, CountsOK
  <1>3. Quantities \subseteq Nat \ {0}
    BY StorefrontAssumption DEF Quantities
  <1>4. ASSUME NEW s \in SKUs, NEW q \in Quantities, AddCartItem(p, s, q) PROVE Typed'
    <2>1. UNCHANGED done /\ (UNCHANGED faults \/ (faults < MaxFaults /\ faults' = faults + 1))
      BY <1>4, AddBegins
    <2>2. CASE Begin(p, [step |-> "insert", row |-> [sku |-> s, quantity |-> q, selected |-> TRUE]])
      <3> DEFINE first == [step |-> "insert", row |-> [sku |-> s, quantity |-> q, selected |-> TRUE]]
      <3>1. first.row \in Line
        BY <1>3 DEF Line
      <3>2. Sound(first)
        BY <3>1 DEF Sound
      <3> QED
        BY <1>2, <2>1, <2>2, <3>2, BeginTypes
    <2>3. ASSUME NEW i \in Lines(s),
                 Begin(p, [step |-> "update", does |-> "add", id |-> i, copy |-> cart[i],
                           row |-> [cart[i] EXCEPT !.quantity = @ + q]])
          PROVE  Typed'
      <3> DEFINE row == [cart[i] EXCEPT !.quantity = @ + q]
                 first == [step |-> "update", does |-> "add", id |-> i, copy |-> cart[i], row |-> row]
      <3>1. cart[i] \in Line /\ i \in Nat
        BY <1>1 DEF Lines
      <3>2. row \in Line /\ row.sku = cart[i].sku
        BY <1>3, <3>1 DEF Line
      <3>3. Begin(p, first)
        BY <2>3
      <3> HIDE DEF row
      <3>4. Sound(first)
        BY <3>1, <3>2 DEF Sound
      <3> QED
        BY <1>2, <2>1, <3>3, <3>4, BeginTypes
    <2> QED
      BY <1>4, <2>2, <2>3, AddBegins
  <1>5. ASSUME NEW i \in DOMAIN cart, NEW q \in {0} \cup Quantities, NEW b \in BOOLEAN, UpdateCartItem(p, i, q, b)
        PROVE  Typed'
    <2> DEFINE row == [cart[i] EXCEPT !.quantity = IF q > 0 THEN q ELSE @, !.selected = b]
               first == [step |-> "update", does |-> IF q > 0 THEN "set" ELSE "select",
                         id |-> i, copy |-> cart[i], row |-> row]
    <2>1. cart[i] \in Line /\ i \in Nat /\ q \in Nat
      BY <1>1, <1>3
    <2>2. /\ row.sku = cart[i].sku /\ row.selected = b
          /\ row.quantity = IF q > 0 THEN q ELSE cart[i].quantity
      BY <2>1 DEF Line
    <2>3. row \in Line
      <3> DEFINE half == [cart[i] EXCEPT !.quantity = IF q > 0 THEN q ELSE @]
      <3>1. half \in Line
        BY <2>1 DEF Line
      <3>2. row = [half EXCEPT !.selected = b]
        BY <2>1 DEF Line
      <3> HIDE DEF half, row
      <3> QED
        BY <3>1, <3>2 DEF Line
    <2>4. Begin(p, first) /\ UNCHANGED <<faults, done>>
      BY <1>5 DEF UpdateCartItem
    <2> HIDE DEF row
    <2>5. Sound(first)
      BY <2>1, <2>2, <2>3 DEF Sound
    <2> QED
      BY <1>2, <2>4, <2>5, BeginTypes
  <1> QED
    BY <1>4, <1>5

LEMMA OtherCallsType ==
  ASSUME Typed, NEW p \in Callers,
         \/ (\E known \in BOOLEAN : GetNote(p, known)) \/ GetProduct(p)
         \/ \E k \in Keys : CreateOrder(p, k)
         \/ \E t \in Titles : MerchantUpdateProduct(p, t)
         \/ \E b \in Statuses : MerchantSetProductStatus(p, b)
  PROVE  Typed'
  <1>1. done \in [Events -> Nat] /\ "PRODUCT_CLICK" \in Events
    BY DEF Typed, CountsOK, Events
  <1>2. ASSUME NEW known \in BOOLEAN, GetNote(p, known) PROVE Typed'
    <2> DEFINE first == [step |-> "count", copy |-> views, known |-> known]
    <2>1. Begin(p, first) /\ done' = done /\ UNCHANGED faults
      BY <1>2 DEF GetNote
    <2>2. Sound(first)
      BY DEF Sound, Typed, CountsOK
    <2> QED
      BY <1>1, <2>1, <2>2, BeginTypes
  <1>3. CASE GetProduct(p)
    <2> DEFINE first == [step |-> "event", event |-> "PRODUCT_CLICK", next |-> Idle]
    <2>1. Begin(p, first) /\ done' = [done EXCEPT !["PRODUCT_CLICK"] = @ + 1] /\ UNCHANGED faults
      BY <1>3 DEF GetProduct
    <2>2. Sound(first)
      BY <1>1 DEF Sound
    <2>3. done' \in [Events -> Nat]
      BY <1>1, <2>1
    <2> QED
      BY <2>1, <2>2, <2>3, BeginTypes
  <1>4. ASSUME NEW k \in Keys, CreateOrder(p, k) PROVE Typed'
    <2> DEFINE first == [step |-> "pick", key |-> k]
    <2>1. Begin(p, first) /\ done' = done /\ (UNCHANGED faults \/ (faults < MaxFaults /\ faults' = faults + 1))
      BY <1>4 DEF CreateOrder
    <2>2. Sound(first)
      BY DEF Sound
    <2> QED
      BY <1>1, <2>1, <2>2, BeginTypes
  <1>5. ASSUME NEW t \in Titles, MerchantUpdateProduct(p, t) PROVE Typed'
    <2>1. PICK seen \in past :
            Begin(p, [step |-> "save", sets |-> "title", copy |-> seen, row |-> [seen EXCEPT !.title = t]])
      BY <1>5 DEF MerchantUpdateProduct
    <2> DEFINE row == [seen EXCEPT !.title = t]
               first == [step |-> "save", sets |-> "title", copy |-> seen, row |-> row]
    <2>2. seen \in Goods
      BY DEF Typed, GoodsOK
    <2>3. row \in Goods /\ row.status = seen.status
      BY <2>2 DEF Goods
    <2> HIDE DEF row
    <2>4. Sound(first)
      BY <2>2, <2>3 DEF Sound
    <2>5. Begin(p, first) /\ done' = done /\ UNCHANGED faults
      BY <1>5, <2>1 DEF row, MerchantUpdateProduct
    <2> QED
      BY <1>1, <2>4, <2>5, BeginTypes
  <1>6. ASSUME NEW b \in Statuses, MerchantSetProductStatus(p, b) PROVE Typed'
    <2>1. PICK seen \in past :
            Begin(p, [step |-> "save", sets |-> "status", copy |-> seen, row |-> [seen EXCEPT !.status = b]])
      BY <1>6 DEF MerchantSetProductStatus
    <2> DEFINE row == [seen EXCEPT !.status = b]
               first == [step |-> "save", sets |-> "status", copy |-> seen, row |-> row]
    <2>2. seen \in Goods
      BY DEF Typed, GoodsOK
    <2>3. row \in Goods /\ row.title = seen.title
      BY <2>2 DEF Goods
    <2> HIDE DEF row
    <2>4. Sound(first)
      BY <2>2, <2>3 DEF Sound
    <2>5. Begin(p, first) /\ done' = done /\ UNCHANGED faults
      BY <1>6, <2>1 DEF row, MerchantSetProductStatus
    <2> QED
      BY <1>1, <2>4, <2>5, BeginTypes
  <1> QED
    BY <1>2, <1>3, <1>4, <1>5, <1>6

LEMMA InsertType ==
  ASSUME Typed, NEW p \in Callers, InsertLine(p)
  PROVE  Typed'
  <1> DEFINE c == call[p]
             next == [step |-> "event", event |-> "ADD_TO_CART", next |-> Idle]
  <1>1. /\ c.step = "insert" /\ serial' = serial + 1 /\ cart' = [i \in DOMAIN cart \cup {serial'} |-> IF i = serial' THEN c.row ELSE cart[i]]
        /\ due' = [due EXCEPT ![c.row.sku] = @ + c.row.quantity]
        /\ done' = [done EXCEPT !["ADD_TO_CART"] = @ + 1]
        /\ call' = [call EXCEPT ![p] = next] /\ UNCHANGED <<calls, faults>>
        /\ UNCHANGED <<orders, page, goods, journal, upset>>
    BY DEF InsertLine, At, Continue, Tell
  <1>2. c.row \in Line
    BY <1>1 DEF Typed, CallsOK, Sound
  <1>3. "ADD_TO_CART" \in Events
    BY DEF Events
  <1>4. CallsOK'
    <2>1. Sound(next)
      BY <1>3 DEF Sound
    <2> QED
      BY <1>1, <2>1, CallGoesOn DEF Typed
  <1>5. /\ DOMAIN cart' = DOMAIN cart \cup {serial'} /\ cart'[serial'] = c.row
        /\ \A i \in DOMAIN cart : cart'[i] = cart[i]
    <2>1. serial' \notin DOMAIN cart
      BY <1>1 DEF Typed, CartOK
    <2> QED
      BY <1>1, <2>1
  <1>6. CartOK'
    BY <1>1, <1>2, <1>5 DEF Typed, CartOK
  <1>7. CountsOK'
    BY <1>1, <1>3 DEF Typed, CountsOK, page
  <1>8. UnitsOK'
    BY <1>1, <1>2 DEF Typed, UnitsOK, Line
  <1>9. GoodsOK'
    BY <1>1 DEF Typed, GoodsOK, goods
  <1> QED
    BY <1>4, <1>6, <1>7, <1>8, <1>9 DEF Typed

LEMMA UpdateType ==
  ASSUME Typed, NEW p \in Callers, UpdateLine(p)
  PROVE  Typed'
  <1> DEFINE c == call[p]
             tell == [step |-> "event", event |-> "ADD_TO_CART", next |-> Idle]
  <1>1. /\ c.step = "update" /\ UNCHANGED <<calls, faults>>
        /\ UNCHANGED <<serial, orders, page, goods, journal>>
        /\ call' = [call EXCEPT ![p] = Idle] \/ call' = [call EXCEPT ![p] = tell]
    BY DEF UpdateLine, At, Continue, Tell
  <1>2. /\ c.does \in {"add", "set", "select"} /\ c.id \in Nat /\ c.copy \in Line /\ c.row \in Line
    BY <1>1 DEF Typed, CallsOK, Sound
  <1>3. "ADD_TO_CART" \in Events
    BY DEF Events
  <1>4. CallsOK'
    <2>1. Sound(Idle) /\ Sound(tell)
      BY <1>3 DEF Sound, Idle
    <2> QED
      BY <1>1, <2>1, CallGoesOn DEF Typed
  <1>5. GoodsOK'
    BY <1>1 DEF Typed, GoodsOK, goods
  <1>6. CASE UNCHANGED <<cart, due, done, upset>>
    <2>1. CartOK' /\ CountsOK' /\ UnitsOK'
      BY <1>1, <1>6 DEF Typed, CartOK, CountsOK, UnitsOK, page
    <2> QED
      BY <1>4, <1>5, <2>1 DEF Typed
  <1>7. CASE /\ c.id \in DOMAIN cart
             /\ cart' = [cart EXCEPT ![c.id] = c.row]
             /\ due' = [due EXCEPT ![c.row.sku] = @ + Change(c, cart[c.id])]
             /\ upset' = upset \cup {c.row.sku} \/ upset' = upset
             /\ done' = [done EXCEPT !["ADD_TO_CART"] = @ + 1] \/ done' = done
    <2>1. cart[c.id] \in Line
      BY <1>7 DEF Typed, CartOK
    <2>2. Change(c, cart[c.id]) \in Int
      BY <1>2, <2>1 DEF Change, Line
    <2>3. CartOK'
      BY <1>1, <1>2, <1>7 DEF Typed, CartOK
    <2>4. CountsOK'
      BY <1>1, <1>3, <1>7 DEF Typed, CountsOK, page
    <2>5. c.row.sku \in SKUs
      BY <1>2 DEF Line
    <2>6. UnitsOK'
      BY <1>1, <1>7, <2>2, <2>5 DEF Typed, UnitsOK
    <2> QED
      BY <1>4, <1>5, <2>3, <2>4, <2>6 DEF Typed
  <1> QED
    BY <1>6, <1>7 DEF UpdateLine, Continue

LEMMA DeleteType ==
  ASSUME Typed, NEW p \in Callers, NEW i \in DOMAIN cart, DeleteCartItem(p, i)
  PROVE  Typed'
  <1>1. /\ cart' = Restrict(cart, DOMAIN cart \ {i}) /\ calls < MaxCalls /\ calls' = calls + 1
        /\ due' = [due EXCEPT ![cart[i].sku] = @ - cart[i].quantity]
        /\ UNCHANGED <<serial, orders, page, goods, journal, call, faults, done, upset>>
    BY DEF DeleteCartItem
  <1>2. cart[i] \in Line
    BY DEF Typed, CartOK
  <1>3. DOMAIN cart' = DOMAIN cart \ {i} /\ \A j \in DOMAIN cart' : cart'[j] = cart[j]
    BY <1>1 DEF Restrict
  <1>4. CartOK'
    BY <1>1, <1>3 DEF Typed, CartOK
  <1>5. CountsOK'
    BY <1>1, StorefrontAssumption DEF Typed, CountsOK, page
  <1>6. UnitsOK'
    BY <1>1, <1>2 DEF Typed, UnitsOK, Line
  <1>7. GoodsOK' /\ CallsOK'
    BY <1>1 DEF Typed, GoodsOK, CallsOK, Sound, Clearing, Idle, goods
  <1> QED
    BY <1>4, <1>5, <1>6, <1>7 DEF Typed

LEMMA CountType ==
  ASSUME Typed, NEW p \in Callers, CountView(p)
  PROVE  Typed'
  <1> DEFINE next == [step |-> "event", event |-> "NOTE_VIEW", next |-> Idle]
  <1>1. /\ call[p].step = "count" /\ views' = call[p].copy + 1 /\ visits' = visits + 1
        /\ upset' = upset \cup {"note"} \/ upset' = upset
        /\ \/ done' = [done EXCEPT !["NOTE_VIEW"] = @ + 1] /\ call' = [call EXCEPT ![p] = next]
           \/ UNCHANGED done /\ call' = [call EXCEPT ![p] = Idle]
        /\ UNCHANGED <<calls, faults>> /\ UNCHANGED <<rows, orders, goods, journal, due>>
    BY DEF CountView, At, Continue, Tell
  <1>2. call[p].copy \in Nat
    BY <1>1 DEF Typed, CallsOK, Sound
  <1>3. "NOTE_VIEW" \in Events
    BY DEF Events
  <1>4. CallsOK'
    <2>1. Sound(next) /\ Sound(Idle)
      BY <1>3 DEF Sound, Idle
    <2> QED
      BY <1>1, <2>1, CallGoesOn DEF Typed
  <1>5. CountsOK'
    BY <1>1, <1>2, <1>3 DEF Typed, CountsOK
  <1>6. CartOK' /\ GoodsOK' /\ UnitsOK'
    BY <1>1 DEF Typed, CartOK, GoodsOK, UnitsOK, rows, goods
  <1> QED
    BY <1>4, <1>5, <1>6 DEF Typed

LEMMA SaveType ==
  ASSUME Typed, NEW p \in Callers, SaveProduct(p)
  PROVE  Typed'
  <1> DEFINE c == call[p]
  <1>1. /\ c.step = "save" /\ product' = c.row /\ past' = past \cup {product'}
        /\ set' = IF c.sets = "title" THEN [set EXCEPT !.title = c.row.title]
                                      ELSE [set EXCEPT !.status = c.row.status]
        /\ upset' = upset \cup {"product"} \/ upset' = upset
        /\ call' = [call EXCEPT ![p] = Idle] /\ UNCHANGED <<calls, faults>>
        /\ UNCHANGED <<rows, orders, page, journal, due, done>>
    BY DEF SaveProduct, At, Continue
  <1>2. c.row \in Goods
    BY <1>1 DEF Typed, CallsOK, Sound
  <1>3. CallsOK'
    <2>1. Sound(Idle)
      BY DEF Sound, Idle
    <2> QED
      BY <1>1, <2>1, CallGoesOn DEF Typed
  <1>4. GoodsOK'
    <2>1. set \in Goods /\ past \subseteq Goods
      BY DEF Typed, GoodsOK
    <2>2. set' \in Goods
      BY <1>1, <1>2, <2>1 DEF Goods
    <2> QED
      BY <1>1, <1>2, <2>1, <2>2 DEF GoodsOK
  <1>5. CartOK' /\ CountsOK' /\ UnitsOK'
    BY <1>1 DEF Typed, CartOK, CountsOK, UnitsOK, rows, page
  <1> QED
    BY <1>3, <1>4, <1>5 DEF Typed

LEMMA AppendType ==
  ASSUME Typed, NEW p \in Callers, AppendEvent(p)
  PROVE  Typed'
  <1>1. /\ call[p].step = "event" /\ call' = [call EXCEPT ![p] = call[p].next]
        /\ \/ journal' = [journal EXCEPT ![call[p].event] = @ + 1] /\ UNCHANGED faults
           \/ faults < MaxFaults /\ faults' = faults + 1 /\ UNCHANGED journal
        /\ UNCHANGED calls /\ UNCHANGED <<rows, orders, page, goods, history>>
    BY DEF AppendEvent, At, Continue
  <1>2. call[p].event \in Events /\ (call[p].next = Idle \/ Clearing(call[p].next))
    BY <1>1 DEF Typed, CallsOK, Sound
  <1>3. Sound(call[p].next)
    BY <1>2 DEF Sound, Idle, Clearing
  <1>4. CallsOK'
    BY <1>1, <1>3, CallGoesOn DEF Typed
  <1>5. CountsOK'
    BY <1>1, <1>2, StorefrontAssumption DEF Typed, CountsOK, page, history
  <1>6. CartOK' /\ GoodsOK' /\ UnitsOK'
    BY <1>1 DEF Typed, CartOK, GoodsOK, UnitsOK, rows, goods, history
  <1> QED
    BY <1>4, <1>5, <1>6 DEF Typed

\* What is counted by the lines of the cart is finite.
LEMMA CartCountIsFinite ==
  ASSUME CartOK, NEW f, DOMAIN f \subseteq DOMAIN cart, \A i \in DOMAIN f : f[i] \in Nat
  PROVE  IsFiniteSet(Each(f))
  <1>1. DOMAIN f \in SUBSET (1 .. serial)
    BY DEF CartOK
  <1>2. IsFiniteSet(1 .. serial)
    BY FS_Interval DEF CartOK
  <1>3. IsFiniteSet(DOMAIN f)
    BY <1>1, <1>2, FS_Subset
  <1> QED
    BY <1>3, CountIsFinite

\* The units picked of some lines of the cart are not nothing.
LEMMA PickedUnits ==
  ASSUME CartOK, NEW c, DOMAIN c \subseteq DOMAIN cart, \A i \in DOMAIN c : c[i] = cart[i], NEW s \in SKUs
  PROVE  /\ Picked(c)[s] \in Nat
         /\ \A i \in Selected(c) : c[i].sku = s => Picked(c)[s] > 0
  <1> DEFINE part == Restrict(c, Selected(c))
             f == Quantity(part, s)
  <1>1. DOMAIN part = Selected(c) /\ \A i \in Selected(c) : part[i] = c[i]
    BY DEF Restrict
  <1>2. Selected(c) \subseteq DOMAIN c
    BY DEF Selected
  <1>3. /\ DOMAIN f = {i \in Selected(c) : c[i].sku = s}
        /\ \A i \in DOMAIN f : f[i] = c[i].quantity /\ f[i] \in Nat \ {0}
    <2>1. \A i \in DOMAIN c : c[i].quantity \in Nat \ {0}
      BY DEF CartOK, Line
    <2> QED
      BY <1>1, <1>2, <2>1 DEF Quantity
  <1>4. Picked(c)[s] = Total(f)
    BY DEF Picked, Units
  <1>5. IsFiniteSet(Each(f))
    <2>1. DOMAIN f \subseteq DOMAIN cart
      BY <1>2, <1>3
    <2> QED
      BY <1>3, <2>1, CartCountIsFinite
  <1> HIDE DEF f, part
  <1>6. \A i \in DOMAIN f : f[i] <= Total(f)
    BY <1>3, <1>5, TotalWithChange
  <1>7. Total(f) \in Nat
    BY <1>5, TotalType
  <1>8. \A i \in Selected(c) : c[i].sku = s => Total(f) > 0
    BY <1>3, <1>6, <1>7
  <1> QED
    BY <1>4, <1>7, <1>8

\* What is picked of what was read of the cart is an order of something.
LEMMA PickedIsOrder ==
  ASSUME CartOK, NEW n, Selected(First(n)) # {}
  PROVE  Picked(First(n)) \in [SKUs -> Nat] /\ Picked(First(n)) # Nothing
  <1> DEFINE c == First(n)
  <1>1. DOMAIN c \subseteq DOMAIN cart /\ \A i \in DOMAIN c : c[i] = cart[i]
    BY DEF First, Restrict
  <1> HIDE DEF c
  <1>2. Picked(c) = [s \in SKUs |-> Units(Restrict(c, Selected(c)), s)]
    BY DEF Picked
  <1>3. \A s \in SKUs : Picked(c)[s] \in Nat
    BY <1>1, PickedUnits
  <1>4. PICK i \in Selected(c) : TRUE
    BY DEF c
  <1>5. c[i].sku \in SKUs
    BY <1>1 DEF CartOK, Selected, Line
  <1>6. Picked(c)[c[i].sku] > 0
    BY <1>1, <1>4, <1>5, PickedUnits
  <1> QED
    BY <1>2, <1>3, <1>5, <1>6 DEF c, Nothing

LEMMA PickType ==
  ASSUME Typed, NEW p \in Callers, PickLines(p)
  PROVE  Typed'
  <1> DEFINE next(n) == [step |-> "place", key |-> call[p].key, units |-> Picked(First(n))]
  <1>1. /\ call[p].step = "pick" /\ UNCHANGED calls
        /\ UNCHANGED <<rows, orders, page, goods, journal, history>>
        /\ \/ \E n \in 0 .. serial :
                Selected(First(n)) # {} /\ ListCartItems(n) /\ call' = [call EXCEPT ![p] = next(n)]
           \/ UNCHANGED faults /\ call' = [call EXCEPT ![p] = Idle]
    BY DEF PickLines, At, Continue
  <1>2. call[p].key \in Keys
    BY <1>1 DEF Typed, CallsOK, Sound
  <1>3. ASSUME NEW n, Selected(First(n)) # {} PROVE Sound(next(n))
    <2>1. Picked(First(n)) \in [SKUs -> Nat] /\ Picked(First(n)) # Nothing
      BY <1>3, PickedIsOrder DEF Typed
    <2> QED
      BY <1>2, <2>1 DEF Sound
  <1> HIDE DEF next
  <1>4. CallsOK'
    <2>1. Sound(Idle)
      BY DEF Sound, Idle
    <2>2. \E c : Sound(c) /\ call' = [call EXCEPT ![p] = c]
      BY <1>1, <1>3, <2>1
    <2> QED
      BY <2>2, CallGoesOn DEF Typed
  <1>5. UNCHANGED faults \/ (faults < MaxFaults /\ faults' = faults + 1)
    BY <1>1, CartIsRead
  <1>6. CountsOK' /\ CartOK' /\ GoodsOK' /\ UnitsOK'
    BY <1>1, <1>5, StorefrontAssumption DEF Typed, CountsOK, CartOK, GoodsOK, UnitsOK, rows, goods, page, history
  <1> QED
    BY <1>4, <1>6 DEF Typed

LEMMA PlaceType ==
  ASSUME Typed, NEW p \in Callers, PlaceOrder(p)
  PROVE  Typed'
  <1> DEFINE units == call[p].units
             key == call[p].key
             next == [step |-> "event", event |-> "ORDER_CREATE", next |-> [step |-> "clear", units |-> units]]
  <1>1. /\ call[p].step = "place" /\ UNCHANGED <<calls, faults>>
        /\ UNCHANGED <<rows, page, goods, journal, due, upset>>
        /\ \/ /\ orders' = [orders EXCEPT ![key] = units]
              /\ done' = [done EXCEPT !["ORDER_CREATE"] = @ + 1]
              /\ call' = [call EXCEPT ![p] = next]
           \/ call' = [call EXCEPT ![p] = Idle] /\ UNCHANGED <<orders, done>>
    BY DEF PlaceOrder, At, Continue, Tell
  <1>2. key \in Keys /\ units \in [SKUs -> Nat]
    BY <1>1 DEF Typed, CallsOK, Sound
  <1>3. "ORDER_CREATE" \in Events
    BY DEF Events
  <1> HIDE DEF units, key
  <1>4. CallsOK'
    <2>1. Sound(Idle)
      BY DEF Sound, Idle
    <2>2. Sound(next)
      BY <1>2, <1>3 DEF Sound, Clearing
    <2> QED
      BY <1>1, <2>1, <2>2, CallGoesOn DEF Typed
  <1>5. CountsOK'
    BY <1>1, <1>3 DEF Typed, CountsOK, page
  <1>6. UnitsOK'
    BY <1>1, <1>2 DEF Typed, UnitsOK
  <1>7. CartOK' /\ GoodsOK'
    BY <1>1 DEF Typed, CartOK, GoodsOK, rows, goods
  <1> QED
    BY <1>4, <1>5, <1>6, <1>7 DEF Typed

LEMMA ClearType ==
  ASSUME Typed, NEW p \in Callers, DeleteSelectedCartItems(p)
  PROVE  Typed'
  <1>1. /\ cart' = Restrict(cart, DOMAIN cart \ Selected(cart))
        /\ upset' = upset \cup {s \in SKUs : Picked(cart)[s] # call[p].units[s]}
        /\ call' = [call EXCEPT ![p] = Idle] /\ UNCHANGED <<calls, faults>>
        /\ UNCHANGED <<serial, orders, page, goods, journal, due, done>>
    BY DEF DeleteSelectedCartItems, Continue
  <1>2. DOMAIN cart' \subseteq DOMAIN cart /\ \A i \in DOMAIN cart' : cart'[i] = cart[i]
    BY <1>1 DEF Restrict
  <1>3. CallsOK'
    <2>1. Sound(Idle)
      BY DEF Sound, Idle
    <2> QED
      BY <1>1, <2>1, CallGoesOn DEF Typed
  <1>4. CartOK'
    BY <1>1, <1>2 DEF Typed, CartOK
  <1>5. UnitsOK'
    BY <1>1 DEF Typed, UnitsOK
  <1>6. CountsOK' /\ GoodsOK'
    BY <1>1 DEF Typed, CountsOK, GoodsOK, page, goods
  <1> QED
    BY <1>3, <1>4, <1>5, <1>6 DEF Typed

LEMMA FailType ==
  ASSUME Typed, NEW p \in Callers, Fail(p)
  PROVE  Typed'
  <1>1. /\ faults < MaxFaults /\ faults' = faults + 1 /\ call' = [call EXCEPT ![p] = Idle]
        /\ upset' = upset \cup {s \in SKUs : Owed(p)[s] > 0}
        /\ UNCHANGED <<rows, orders, page, goods, journal, calls, due, done>>
    BY DEF Fail
  <1>2. CallsOK'
    <2>1. Sound(Idle)
      BY DEF Sound, Idle
    <2> QED
      BY <1>1, <2>1, CallGoesOn DEF Typed
  <1>3. UnitsOK'
    BY <1>1 DEF Typed, UnitsOK
  <1>4. CountsOK'
    BY <1>1, StorefrontAssumption DEF Typed, CountsOK, page
  <1>5. CartOK' /\ GoodsOK'
    BY <1>1 DEF Typed, CartOK, GoodsOK, rows, goods
  <1> QED
    BY <1>2, <1>3, <1>4, <1>5 DEF Typed

LEMMA TypedStep == Typed /\ [Next]_vars => Typed'
  <1> SUFFICES ASSUME Typed, [Next]_vars PROVE Typed'
    OBVIOUS
  <1>1. CASE UNCHANGED vars
    BY <1>1 DEF Typed, CartOK, CountsOK, GoodsOK, UnitsOK, CallsOK, Sound, Clearing, Idle, vars, rows, goods, page, history
  <1> QED
    BY <1>1, CartCallsType, OtherCallsType, InsertType, UpdateType, DeleteType, CountType, SaveType,
       AppendType, PickType, PlaceType, ClearType, FailType DEF Next

LEMMA TypedInit == Init => Typed
  <1> SUFFICES ASSUME Init PROVE Typed
    OBVIOUS
  <1>1. product \in Goods
    BY StorefrontAssumption DEF Init, Goods, Statuses
  <1>2. CartOK
    BY DEF Init, CartOK
  <1>3. CountsOK
    BY StorefrontAssumption DEF Init, CountsOK
  <1>4. GoodsOK
    BY <1>1 DEF Init, GoodsOK
  <1>5. UnitsOK
    BY DEF Init, UnitsOK, Nothing
  <1>6. CallsOK
    BY DEF Init, CallsOK, Sound, Idle
  <1> QED
    BY <1>2, <1>3, <1>4, <1>5, <1>6 DEF Typed

LEMMA TypedInvariance == Spec => []Typed
  BY TypedInit, TypedStep, PTL DEF Spec

\* Every variable of the shop keeps its type: no line is ever empty, and no id
\* is given twice.
THEOREM StorefrontTypes == Spec => []StorefrontTypeOK
  BY TypedInvariance, TypedTells, PTL


-----------------------------------------------------------------------------
(* The step of a request *)

\* A handler with more to do starts.
Starts(p) ==
  \/ \E s \in SKUs, q \in Quantities : AddCartItem(p, s, q)
  \/ \E i \in DOMAIN cart, q \in {0} \cup Quantities, b \in BOOLEAN : UpdateCartItem(p, i, q, b)
  \/ (\E known \in BOOLEAN : GetNote(p, known)) \/ GetProduct(p)
  \/ \E k \in Keys : CreateOrder(p, k)
  \/ \E t \in Titles : MerchantUpdateProduct(p, t)
  \/ \E b \in Statuses : MerchantSetProductStatus(p, b)

GoesOn(p) ==
  \/ InsertLine(p) \/ UpdateLine(p) \/ CountView(p) \/ SaveProduct(p)
  \/ AppendEvent(p) \/ PickLines(p) \/ PlaceOrder(p) \/ DeleteSelectedCartItems(p)

\* What a handler that starts knows of the tables.
KnowsAtFirst(c) ==
  /\ UNCHANGED faults \/ faults' = faults + 1
  /\ \/ /\ c.step = "insert" /\ UNCHANGED done
        /\ Lines(c.row.sku) = {} \/ faults' = faults + 1
     \/ c.step = "update" /\ c.id \in DOMAIN cart /\ c.row.sku = cart[c.id].sku /\ UNCHANGED done
     \/ c.step = "count" /\ c.copy = views /\ UNCHANGED done
     \/ c.step = "pick" /\ UNCHANGED done
     \/ c.step = "save" /\ UNCHANGED done
     \/ /\ c.step = "event" /\ c.event = "PRODUCT_CLICK" /\ c.next = Idle
        /\ done' = [done EXCEPT !["PRODUCT_CLICK"] = @ + 1]

LEMMA StartsKnowing ==
  ASSUME Typed, NEW p \in Callers, Starts(p)
  PROVE  \E first : Begin(p, first) /\ KnowsAtFirst(first)
  <1>1. ASSUME NEW s \in SKUs, NEW q \in Quantities, AddCartItem(p, s, q)
        PROVE  \E first : Begin(p, first) /\ KnowsAtFirst(first)
    <2> DEFINE insert == [step |-> "insert", row |-> [sku |-> s, quantity |-> q, selected |-> TRUE]]
               add(i) == [step |-> "update", does |-> "add", id |-> i, copy |-> cart[i],
                          row |-> [cart[i] EXCEPT !.quantity = @ + q]]
    <2>1. /\ UNCHANGED done /\ (UNCHANGED faults \/ faults' = faults + 1)
          /\ \/ (Lines(s) = {} \/ faults' = faults + 1) /\ Begin(p, insert)
             \/ \E i \in Lines(s) : Begin(p, add(i))
      BY <1>1, AddBegins
    <2>2. CASE (Lines(s) = {} \/ faults' = faults + 1) /\ Begin(p, insert)
      <3>1. insert.step = "insert" /\ insert.row.sku = s
        OBVIOUS
      <3> HIDE DEF insert
      <3> QED
        BY <2>1, <2>2, <3>1 DEF KnowsAtFirst
    <2>3. ASSUME NEW i \in Lines(s), Begin(p, add(i)) PROVE \E first : Begin(p, first) /\ KnowsAtFirst(first)
      <3> DEFINE first == add(i)
      <3>1. i \in DOMAIN cart /\ cart[i] \in Line
        BY DEF Lines, Typed, CartOK
      <3>2. first.row.sku = cart[i].sku
        BY <3>1 DEF Line
      <3>3. Begin(p, first) /\ first.step = "update" /\ first.id = i
        BY <2>3
      <3> HIDE DEF first
      <3> QED
        BY <2>1, <3>1, <3>2, <3>3 DEF KnowsAtFirst
    <2> QED
      BY <2>1, <2>2, <2>3
  <1>2. ASSUME NEW i \in DOMAIN cart, NEW q \in {0} \cup Quantities, NEW b \in BOOLEAN, UpdateCartItem(p, i, q, b)
        PROVE  \E first : Begin(p, first) /\ KnowsAtFirst(first)
    <2> DEFINE first == [step |-> "update", does |-> IF q > 0 THEN "set" ELSE "select", id |-> i, copy |-> cart[i],
                         row |-> [cart[i] EXCEPT !.quantity = IF q > 0 THEN q ELSE @, !.selected = b]]
    <2>1. cart[i] \in Line
      BY DEF Typed, CartOK
    <2>2. first.row.sku = cart[i].sku
      BY <2>1 DEF Line
    <2>3. Begin(p, first) /\ first.step = "update" /\ first.id = i /\ UNCHANGED <<faults, done>>
      BY <1>2 DEF UpdateCartItem
    <2> HIDE DEF first
    <2> QED
      BY <2>2, <2>3 DEF KnowsAtFirst
  <1>3. ASSUME NEW known \in BOOLEAN, GetNote(p, known) PROVE \E first : Begin(p, first) /\ KnowsAtFirst(first)
    BY <1>3 DEF GetNote, KnowsAtFirst
  <1>4. CASE GetProduct(p)
    BY <1>4 DEF GetProduct, KnowsAtFirst
  <1>5. ASSUME NEW k \in Keys, CreateOrder(p, k) PROVE \E first : Begin(p, first) /\ KnowsAtFirst(first)
    BY <1>5 DEF CreateOrder, KnowsAtFirst
  <1>6. ASSUME NEW t \in Titles, MerchantUpdateProduct(p, t) PROVE \E first : Begin(p, first) /\ KnowsAtFirst(first)
    BY <1>6 DEF MerchantUpdateProduct, KnowsAtFirst
  <1>7. ASSUME NEW b \in Statuses, MerchantSetProductStatus(p, b)
        PROVE  \E first : Begin(p, first) /\ KnowsAtFirst(first)
    BY <1>7 DEF MerchantSetProductStatus, KnowsAtFirst
  <1> QED
    BY <1>1, <1>2, <1>3, <1>4, <1>5, <1>6, <1>7 DEF Starts

LEMMA NextIsOf ==
  ASSUME [Next]_vars
  PROVE  \/ UNCHANGED vars
         \/ \E p \in Callers : Starts(p) \/ GoesOn(p) \/ Fail(p) \/ \E i \in DOMAIN cart : DeleteCartItem(p, i)
  BY DEF Next, Starts, GoesOn

-----------------------------------------------------------------------------
(* Views, and the row of the product *)

CountsSeen == \A p \in Callers : At(p, "count") => call[p].copy <= visits

ShopInv == Typed /\ CountsSeen /\ ViewsAreCounted /\ ProductIsAsSet

\* What no step but CountView and SaveProduct touches.
LEMMA ShopRests ==
  ASSUME ShopInv, Typed', UNCHANGED <<views, visits, product, set>>, upset \subseteq upset',
         \A q \in Callers : call'[q] = call[q] \/ call'[q].step # "count" \/ call'[q].copy = views
  PROVE  ShopInv'
  <1>1. views \in Nat /\ visits \in Nat /\ views <= visits
    BY DEF ShopInv, Typed, CountsOK, ViewsAreCounted
  <1>2. ASSUME NEW q \in Callers, call'[q].step = "count" PROVE call'[q].copy <= visits'
    BY <1>1, <1>2 DEF ShopInv, CountsSeen, At
  <1>3. CountsSeen'
    BY <1>2 DEF CountsSeen, At
  <1>4. ViewsAreCounted' /\ ProductIsAsSet'
    BY DEF ShopInv, ViewsAreCounted, ProductIsAsSet
  <1> QED
    BY <1>3, <1>4 DEF ShopInv

LEMMA ShopStarts ==
  ASSUME ShopInv, Typed', NEW p \in Callers, Starts(p)
  PROVE  ShopInv'
  <1>1. PICK first : Begin(p, first) /\ KnowsAtFirst(first)
    BY StartsKnowing DEF ShopInv
  <1>2. call' = [call EXCEPT ![p] = first] /\ UNCHANGED <<views, visits, product, set, upset>>
    BY <1>1 DEF Begin, goods, page
  <1>3. first.step = "count" => first.copy = views
    BY <1>1 DEF KnowsAtFirst
  <1>4. \A q \in Callers : call'[q] = call[q] \/ call'[q].step # "count" \/ call'[q].copy = views
    BY <1>2, <1>3 DEF ShopInv, Typed, CallsOK
  <1> QED
    BY <1>2, <1>4, ShopRests

LEMMA ShopCounts ==
  ASSUME ShopInv, Typed', NEW p \in Callers, CountView(p)
  PROVE  ShopInv'
  <1>1. /\ call[p].step = "count" /\ views' = call[p].copy + 1 /\ visits' = visits + 1
        /\ upset' = IF views # call[p].copy THEN upset \cup {"note"} ELSE upset
        /\ call' = [call EXCEPT ![p] = Tell("NOTE_VIEW", Idle)] \/ call' = [call EXCEPT ![p] = Idle]
        /\ UNCHANGED <<product, set>>
    BY DEF CountView, At, Continue, goods
  <1>2. /\ call[p].copy \in Nat /\ call[p].copy <= visits /\ visits \in Nat
        /\ views \in Nat
    BY <1>1 DEF ShopInv, Typed, CallsOK, CountsOK, Sound, CountsSeen, At
  <1>3. CountsSeen'
    <2>1. \A q \in Callers \ {p} : call'[q] = call[q]
      BY <1>1 DEF ShopInv, Typed, CallsOK
    <2>2. call'[p].step # "count"
      BY <1>1 DEF ShopInv, Typed, CallsOK, Tell, Idle
    <2>3. ASSUME NEW q \in Callers, call'[q].step = "count" PROVE call'[q].copy <= visits'
      <3>1. q # p /\ call'[q] = call[q]
        BY <2>1, <2>2, <2>3
      <3>2. call[q].copy \in Nat /\ call[q].copy <= visits
        BY <2>3, <3>1 DEF ShopInv, CountsSeen, Typed, CallsOK, Sound, At
      <3> QED
        BY <1>1, <1>2, <3>1, <3>2
    <2> QED
      BY <2>3 DEF CountsSeen, At
  <1>4. ViewsAreCounted'
    <2>1. "note" \notin upset' => "note" \notin upset /\ views = call[p].copy
      BY <1>1
    <2>2. "note" \notin upset' => views = visits
      BY <2>1 DEF ShopInv, ViewsAreCounted
    <2> QED
      BY <1>1, <1>2, <2>1, <2>2 DEF ViewsAreCounted
  <1>5. ProductIsAsSet'
    BY <1>1 DEF ShopInv, ProductIsAsSet
  <1> QED
    BY <1>3, <1>4, <1>5 DEF ShopInv

\* The row that is written has the copy's other column: it is the product's, if
\* the copy is.
LEMMA ShopSaves ==
  ASSUME ShopInv, Typed', NEW p \in Callers, SaveProduct(p)
  PROVE  ShopInv'
  <1> DEFINE c == call[p]
  <1>1. /\ c.step = "save" /\ product' = c.row
        /\ set' = IF c.sets = "title" THEN [set EXCEPT !.title = c.row.title]
                                      ELSE [set EXCEPT !.status = c.row.status]
        /\ upset' = IF product # c.copy THEN upset \cup {"product"} ELSE upset
        /\ call' = [call EXCEPT ![p] = Idle] /\ UNCHANGED <<views, visits>>
    BY DEF SaveProduct, At, Continue, page
  <1>2. /\ c.copy \in Goods /\ c.row \in Goods /\ c.sets \in {"title", "status"}
        /\ c.sets = "title" => c.row.status = c.copy.status
        /\ c.sets = "status" => c.row.title = c.copy.title
    BY <1>1 DEF ShopInv, Typed, CallsOK, Sound
  <1>3. set \in Goods
    BY DEF ShopInv, Typed, GoodsOK
  <1>4. ProductIsAsSet'
    <2>1. SUFFICES ASSUME "product" \notin upset' PROVE product' = set'
      BY DEF ProductIsAsSet
    <2>2. product = c.copy /\ product = set
      BY <1>1, <2>1 DEF ShopInv, ProductIsAsSet
    <2>3. set' \in Goods
      BY <1>1, <1>2, <1>3 DEF Goods
    <2>4. set'.title = c.row.title /\ set'.status = c.row.status
      <3>1. CASE c.sets = "title"
        BY <1>1, <1>2, <1>3, <2>2, <3>1 DEF Goods
      <3>2. CASE c.sets = "status"
        BY <1>1, <1>2, <1>3, <2>2, <3>2 DEF Goods
      <3> QED
        BY <1>2, <3>1, <3>2
    <2>5. \A x, y \in Goods : x.title = y.title /\ x.status = y.status => x = y
      BY DEF Goods
    <2> QED
      BY <1>1, <1>2, <2>3, <2>4, <2>5
  <1>5. ViewsAreCounted'
    BY <1>1 DEF ShopInv, ViewsAreCounted
  <1>6. CountsSeen'
    <2>1. \A q \in Callers : call'[q] = call[q] \/ call'[q] = Idle
      BY <1>1 DEF ShopInv, Typed, CallsOK
    <2>2. Idle.step # "count"
      BY DEF Idle
    <2> QED
      BY <1>1, <2>1, <2>2 DEF ShopInv, CountsSeen, At
  <1> QED
    BY <1>4, <1>5, <1>6 DEF ShopInv

LEMMA ShopGoesOn ==
  ASSUME ShopInv, Typed', NEW p \in Callers,
         \/ InsertLine(p) \/ UpdateLine(p) \/ AppendEvent(p) \/ PickLines(p) \/ PlaceOrder(p)
         \/ DeleteSelectedCartItems(p) \/ Fail(p) \/ \E i \in DOMAIN cart : DeleteCartItem(p, i)
  PROVE  ShopInv'
  <1>1. UNCHANGED <<views, visits, product, set>>
    BY DEF InsertLine, UpdateLine, AppendEvent, PickLines, PlaceOrder, DeleteSelectedCartItems, Fail,
           DeleteCartItem, goods, page
  <1>2. upset \subseteq upset'
    BY DEF InsertLine, UpdateLine, AppendEvent, PickLines, PlaceOrder, DeleteSelectedCartItems, Fail,
           DeleteCartItem, history
  <1>3. (\E next : call' = [call EXCEPT ![p] = next] /\ next.step # "count") \/ UNCHANGED call
    <2>1. CASE AppendEvent(p)
      <3>1. call[p].step = "event" /\ call' = [call EXCEPT ![p] = call[p].next]
        BY <2>1 DEF AppendEvent, At, Continue
      <3>2. call[p].next.step # "count"
        BY <3>1 DEF ShopInv, Typed, CallsOK, Sound, Clearing, Idle
      <3> QED
        BY <3>1, <3>2
    <2> DEFINE clear == [step |-> "clear", units |-> call[p].units]
               place(n) == [step |-> "place", key |-> call[p].key, units |-> Picked(First(n))]
    <2>2. CASE InsertLine(p) \/ UpdateLine(p) \/ PlaceOrder(p)
      <3>1. \/ call' = [call EXCEPT ![p] = Idle] \/ call' = [call EXCEPT ![p] = Tell("ADD_TO_CART", Idle)]
            \/ call' = [call EXCEPT ![p] = Tell("ORDER_CREATE", clear)]
        BY <2>2 DEF InsertLine, UpdateLine, PlaceOrder, Continue
      <3>2. /\ Idle.step # "count" /\ Tell("ADD_TO_CART", Idle).step # "count"
            /\ Tell("ORDER_CREATE", clear).step # "count"
        BY DEF Idle, Tell
      <3> QED
        BY <3>1, <3>2
    <2>3. CASE PickLines(p) \/ DeleteSelectedCartItems(p) \/ Fail(p)
      <3>1. call' = [call EXCEPT ![p] = Idle] \/ \E n \in 0 .. serial : call' = [call EXCEPT ![p] = place(n)]
        BY <2>3 DEF PickLines, DeleteSelectedCartItems, Fail, Continue
      <3>2. Idle.step # "count" /\ \A n : place(n).step # "count"
        BY DEF Idle
      <3> HIDE DEF place
      <3> QED
        BY <3>1, <3>2
    <2>4. CASE \E i \in DOMAIN cart : DeleteCartItem(p, i)
      BY <2>4 DEF DeleteCartItem
    <2> QED
      BY <2>1, <2>2, <2>3, <2>4
  <1>4. \A q \in Callers : call'[q] = call[q] \/ call'[q].step # "count" \/ call'[q].copy = views
    BY <1>3 DEF ShopInv, Typed, CallsOK
  <1> QED
    BY <1>1, <1>2, <1>4, ShopRests

LEMMA ShopStep == ShopInv /\ [Next]_vars => ShopInv'
  <1> SUFFICES ASSUME ShopInv, [Next]_vars PROVE ShopInv'
    OBVIOUS
  <1>1. Typed'
    BY TypedStep DEF ShopInv
  <1>2. CASE UNCHANGED vars
    BY <1>1, <1>2, ShopRests DEF vars, goods, page, history
  <1> QED
    BY <1>1, <1>2, NextIsOf, ShopStarts, ShopCounts, ShopSaves, ShopGoesOn DEF GoesOn

LEMMA ShopInit == Init => ShopInv
  BY TypedInit DEF Init, ShopInv, CountsSeen, At, Idle, ViewsAreCounted, ProductIsAsSet

\* view_count never exceeds the views, is never back at nothing once the note was
\* viewed, and is exact unless two requests read the same count.
THEOREM ViewsTheorem == Spec => []ViewsAreCounted
  <1>1. ShopInv => ViewsAreCounted
    BY DEF ShopInv
  <1> QED
    BY <1>1, ShopInit, ShopStep, PTL DEF Spec

\* An edit of a product changes the column it names and no other, unless it was
\* made of a copy that another edit had made old.
THEOREM ProductTheorem == Spec => []ProductIsAsSet
  <1>1. ShopInv => ProductIsAsSet
    BY DEF ShopInv
  <1> QED
    BY <1>1, ShopInit, ShopStep, PTL DEF Spec

-----------------------------------------------------------------------------
(* The funnel *)

Telling(e) == {p \in Callers : At(p, "event") /\ call[p].event = e}
Told(e) ==
  /\ journal[e] + Cardinality(Telling(e)) <= done[e]
  /\ done[e] <= journal[e] + Cardinality(Telling(e)) + faults

Placed == {k \in Keys : orders[k] # Nothing}
PlacedOnce == IsFiniteSet(Placed) /\ done["ORDER_CREATE"] = Cardinality(Placed)

FunnelInv == Typed /\ (\A e \in Events : Told(e)) /\ PlacedOnce

LEMMA TellingIsFinite ==
  ASSUME NEW e
  PROVE  IsFiniteSet(Telling(e)) /\ Cardinality(Telling(e)) \in Nat
  <1>1. Telling(e) \in SUBSET Callers
    BY DEF Telling
  <1>2. IsFiniteSet(Telling(e))
    BY <1>1, StorefrontAssumption, FS_Subset
  <1> QED
    BY <1>2, FS_CardinalityType

\* Who is telling after one request has gone on.
LEMMA TellingGoesOn ==
  ASSUME CallsOK, NEW p \in Callers, NEW next, call' = [call EXCEPT ![p] = next], NEW e
  PROVE  /\ next.step = "event" /\ next.event = e => Telling(e)' = Telling(e) \cup {p}
         /\ next.step # "event" \/ next.event # e => Telling(e)' = Telling(e) \ {p}
  <1>1. DOMAIN call' = Callers /\ call'[p] = next /\ \A q \in Callers \ {p} : call'[q] = call[q]
    BY CallGoesOn
  <1>2. Telling(e)' = {q \in Callers : call'[q].step = "event" /\ call'[q].event = e}
    BY DEF Telling, At
  <1>3. Telling(e) = {q \in Callers : call[q].step = "event" /\ call[q].event = e}
    BY DEF Telling, At
  <1> QED
    BY <1>1, <1>2, <1>3

\* A request that has nothing to tell does a deed and turns to tell it, or
\* neither.
Turns(p, next) ==
  /\ call[p].step # "event" /\ call' = [call EXCEPT ![p] = next]
  /\ UNCHANGED journal /\ (faults' = faults \/ faults' = faults + 1)
  /\ \/ next.step # "event" /\ UNCHANGED done
     \/ next.step = "event" /\ done' = [done EXCEPT ![next.event] = @ + 1]

\* A request that was to tell of a deed has told of it, or failed to.
Tells(p, next) ==
  /\ call[p].step = "event" /\ call' = [call EXCEPT ![p] = next] /\ next.step # "event"
  /\ UNCHANGED done
  /\ \/ UNCHANGED faults /\ journal' = [journal EXCEPT ![call[p].event] = @ + 1]
     \/ UNCHANGED journal /\ faults' = faults + 1

LEMMA FunnelTurns ==
  ASSUME FunnelInv, NEW p \in Callers, NEW next, Turns(p, next)
  PROVE  \A e \in Events : Told(e)'
  <1> SUFFICES ASSUME NEW e \in Events PROVE Told(e)'
    OBVIOUS
  <1>1. CallsOK /\ journal[e] \in Nat /\ done[e] \in Nat /\ faults \in Nat /\ Told(e)
        /\ done \in [Events -> Nat]
    BY StorefrontAssumption DEF FunnelInv, Typed, CountsOK
  <1> DEFINE here == Telling(e)
             n == Cardinality(Telling(e))
  <1>2. IsFiniteSet(here) /\ n \in Nat /\ Cardinality(here) = n
    BY TellingIsFinite
  <1>3. p \notin here
    BY DEF Turns, Telling, At
  <1>4. Told(e)' <=> /\ journal[e] + Cardinality(Telling(e)') <= done'[e]
                     /\ done'[e] <= journal[e] + Cardinality(Telling(e)') + faults'
    BY DEF Told, Turns
  <1>5. /\ next.step = "event" /\ next.event = e => Telling(e)' = here \cup {p}
        /\ next.step # "event" \/ next.event # e => Telling(e)' = here \ {p}
    <2>1. call' = [call EXCEPT ![p] = next]
      BY DEF Turns
    <2> QED
      BY <1>1, <2>1, TellingGoesOn
  <1>6. journal[e] + n <= done[e] /\ done[e] <= journal[e] + n + faults
    BY <1>1 DEF Told
  <1> HIDE DEF here, n
  <1>7. CASE next.step = "event" /\ next.event = e
    <2>1. Telling(e)' = here \cup {p}
      BY <1>5, <1>7
    <2>2. Cardinality(Telling(e)') = n + 1
      BY <1>2, <1>3, <2>1, FS_AddElement
    <2>3. done'[e] = done[e] + 1
      BY <1>1, <1>7 DEF Turns
    <2> QED
      BY <1>1, <1>2, <1>4, <1>6, <2>2, <2>3 DEF Turns
  <1>8. CASE next.step # "event" \/ next.event # e
    <2>1. Telling(e)' = here
      BY <1>3, <1>5, <1>8
    <2>2. done'[e] = done[e]
      BY <1>1, <1>8 DEF Turns
    <2> QED
      BY <1>1, <1>2, <1>4, <1>6, <2>1, <2>2 DEF Turns
  <1> QED
    BY <1>7, <1>8

LEMMA FunnelTells ==
  ASSUME FunnelInv, NEW p \in Callers, NEW next, Tells(p, next)
  PROVE  \A e \in Events : Told(e)'
  <1> SUFFICES ASSUME NEW e \in Events PROVE Told(e)'
    OBVIOUS
  <1>1. CallsOK /\ journal[e] \in Nat /\ done[e] \in Nat /\ faults \in Nat /\ Told(e)
        /\ journal \in [Events -> Nat]
    BY StorefrontAssumption DEF FunnelInv, Typed, CountsOK
  <1> DEFINE here == Telling(e)
             n == Cardinality(Telling(e))
  <1>2. IsFiniteSet(here) /\ n \in Nat /\ Cardinality(here) = n
    BY TellingIsFinite
  <1>3. p \in here <=> call[p].event = e
    BY DEF Tells, Telling, At
  <1>4. Told(e)' <=> /\ journal'[e] + Cardinality(Telling(e)') <= done[e]
                     /\ done[e] <= journal'[e] + Cardinality(Telling(e)') + faults'
    BY DEF Told, Tells
  <1>5. Telling(e)' = here \ {p}
    <2>1. call' = [call EXCEPT ![p] = next] /\ next.step # "event"
      BY DEF Tells
    <2> QED
      BY <1>1, <2>1, TellingGoesOn
  <1>6. journal[e] + n <= done[e] /\ done[e] <= journal[e] + n + faults
    BY <1>1 DEF Told
  <1> HIDE DEF here, n
  <1>7. CASE call[p].event = e
    <2>1. Cardinality(Telling(e)') = n - 1
      BY <1>2, <1>3, <1>5, <1>7, FS_RemoveElement
    <2>2. \/ journal'[e] = journal[e] + 1 /\ faults' = faults
          \/ journal'[e] = journal[e] /\ faults' = faults + 1
      BY <1>1, <1>7 DEF Tells
    <2>3. n \in Nat \ {0}
      BY <1>2, <1>3, <1>7, FS_EmptySet
    <2>4. CASE journal'[e] = journal[e] + 1 /\ faults' = faults
      BY <1>1, <1>4, <1>6, <2>1, <2>3, <2>4
    <2>5. CASE journal'[e] = journal[e] /\ faults' = faults + 1
      BY <1>1, <1>4, <1>6, <2>1, <2>3, <2>5
    <2> QED
      BY <2>2, <2>4, <2>5
  <1>8. CASE call[p].event # e
    <2>1. Telling(e)' = here
      BY <1>3, <1>5, <1>8
    <2>2. journal'[e] = journal[e] /\ (faults' = faults \/ faults' = faults + 1)
      BY <1>1, <1>8 DEF Tells
    <2> QED
      BY <1>1, <1>2, <1>4, <1>6, <2>1, <2>2
  <1> QED
    BY <1>7, <1>8

LEMMA FunnelRests ==
  ASSUME FunnelInv, UNCHANGED <<call, journal, done, faults>>
  PROVE  \A e \in Events : Told(e)'
  <1>1. \A e \in Events : Telling(e)' = Telling(e)
    BY DEF Telling, At
  <1> QED
    BY <1>1 DEF FunnelInv, Told

LEMMA OrdersRest ==
  ASSUME PlacedOnce, UNCHANGED orders, done'["ORDER_CREATE"] = done["ORDER_CREATE"]
  PROVE  PlacedOnce'
  BY DEF PlacedOnce, Placed

LEMMA FunnelStarts ==
  ASSUME FunnelInv, Typed', NEW p \in Callers, Starts(p)
  PROVE  FunnelInv'
  <1>1. PICK first : Begin(p, first) /\ KnowsAtFirst(first)
    BY StartsKnowing DEF FunnelInv
  <1>2. /\ call' = [call EXCEPT ![p] = first] /\ UNCHANGED <<journal, orders>> /\ call[p].step = "none"
    BY <1>1 DEF Begin, Busy
  <1>3. done \in [Events -> Nat] /\ faults \in Nat
    BY StorefrontAssumption DEF FunnelInv, Typed, CountsOK
  <1>4. /\ \/ first.step # "event" /\ UNCHANGED done
           \/ first.step = "event" /\ done' = [done EXCEPT ![first.event] = @ + 1]
        /\ UNCHANGED faults \/ faults' = faults + 1
    BY <1>1 DEF KnowsAtFirst
  <1>5. done'["ORDER_CREATE"] = done["ORDER_CREATE"]
    BY <1>1, <1>3 DEF KnowsAtFirst, Events
  <1>6. \A e \in Events : Told(e)'
    <2>1. Turns(p, first)
      BY <1>2, <1>4 DEF Turns
    <2> QED
      BY <2>1, FunnelTurns
  <1>7. PlacedOnce'
    BY <1>2, <1>5, OrdersRest DEF FunnelInv
  <1> QED
    BY <1>6, <1>7 DEF FunnelInv

LEMMA FunnelAppends ==
  ASSUME FunnelInv, Typed', NEW p \in Callers, AppendEvent(p) \/ Fail(p)
  PROVE  FunnelInv'
  <1>1. UNCHANGED <<orders, done>>
    BY DEF AppendEvent, Fail, history
  <1>2. PlacedOnce'
    BY <1>1, OrdersRest DEF FunnelInv
  <1>3. faults \in Nat
    BY StorefrontAssumption DEF FunnelInv, Typed, CountsOK
  <1>4. CASE AppendEvent(p)
    <2>1. /\ call[p].step = "event" /\ call' = [call EXCEPT ![p] = call[p].next]
          /\ \/ UNCHANGED faults /\ journal' = [journal EXCEPT ![call[p].event] = @ + 1]
             \/ UNCHANGED journal /\ faults' = faults + 1
      BY <1>4 DEF AppendEvent, At, Continue
    <2>2. call[p].next.step # "event"
      BY <2>1 DEF FunnelInv, Typed, CallsOK, Sound, Clearing, Idle
    <2>3. Tells(p, call[p].next)
      BY <1>1, <2>1, <2>2 DEF Tells
    <2>4. \A e \in Events : Told(e)'
      BY <2>3, FunnelTells
    <2> QED
      BY <1>2, <2>4 DEF FunnelInv
  <1>5. CASE Fail(p)
    <2>1. faults' = faults + 1 /\ call' = [call EXCEPT ![p] = Idle] /\ UNCHANGED journal
      BY <1>5 DEF Fail
    <2>2. Idle.step # "event"
      BY DEF Idle
    <2>3. Tells(p, Idle) \/ Turns(p, Idle)
      BY <1>1, <2>1, <2>2 DEF Tells, Turns
    <2>4. \A e \in Events : Told(e)'
      BY <2>3, FunnelTells, FunnelTurns
    <2> QED
      BY <1>2, <2>4 DEF FunnelInv
  <1> QED
    BY <1>4, <1>5

\* Steps that do a deed, or none, and have nothing to do with the orders.
LEMMA FunnelGoesOn ==
  ASSUME FunnelInv, Typed', NEW p \in Callers,
         \/ InsertLine(p) \/ UpdateLine(p) \/ CountView(p) \/ SaveProduct(p) \/ PickLines(p)
         \/ DeleteSelectedCartItems(p)
  PROVE  FunnelInv'
  <1> DEFINE place(n) == [step |-> "place", key |-> call[p].key, units |-> Picked(First(n))]
             added == Tell("ADD_TO_CART", Idle)
             viewed == Tell("NOTE_VIEW", Idle)
  <1>1. /\ call[p].step # "event" /\ UNCHANGED <<journal, orders>>
        /\ UNCHANGED faults \/ faults' = faults + 1
    BY CartIsRead DEF InsertLine, UpdateLine, CountView, SaveProduct, PickLines, DeleteSelectedCartItems, At, Continue
  <1>2. done \in [Events -> Nat]
    BY DEF FunnelInv, Typed, CountsOK
  <1>3. /\ Idle.step # "event" /\ \A n : place(n).step # "event"
        /\ added.step = "event" /\ added.event = "ADD_TO_CART"
        /\ viewed.step = "event" /\ viewed.event = "NOTE_VIEW"
    BY DEF Idle, Tell
  <1>4. \/ call' = [call EXCEPT ![p] = Idle] /\ UNCHANGED done
        \/ \E n \in 0 .. serial : call' = [call EXCEPT ![p] = place(n)] /\ UNCHANGED done
        \/ call' = [call EXCEPT ![p] = added] /\ done' = [done EXCEPT !["ADD_TO_CART"] = @ + 1]
        \/ call' = [call EXCEPT ![p] = viewed] /\ done' = [done EXCEPT !["NOTE_VIEW"] = @ + 1]
    <2>1. CASE InsertLine(p) \/ CountView(p) \/ SaveProduct(p)
      BY <2>1 DEF InsertLine, CountView, SaveProduct, Continue
    <2>2. CASE UpdateLine(p)
      BY <2>2 DEF UpdateLine, Continue
    <2>3. CASE PickLines(p) \/ DeleteSelectedCartItems(p)
      BY <2>3 DEF PickLines, DeleteSelectedCartItems, Continue, history
    <2> QED
      BY <2>1, <2>2, <2>3
  <1> HIDE DEF place, added, viewed
  <1>5. \/ Turns(p, Idle) \/ Turns(p, added) \/ Turns(p, viewed)
        \/ \E n \in 0 .. serial : Turns(p, place(n))
    BY <1>1, <1>3, <1>4 DEF Turns
  <1>6. \A e \in Events : Told(e)'
    BY <1>5, FunnelTurns
  <1>7. done'["ORDER_CREATE"] = done["ORDER_CREATE"]
    BY <1>2, <1>4 DEF Events
  <1>8. PlacedOnce'
    BY <1>1, <1>7, OrdersRest DEF FunnelInv
  <1> QED
    BY <1>6, <1>8 DEF FunnelInv

\* An order is placed with a key that has none, and it is not of nothing.
LEMMA FunnelPlaces ==
  ASSUME FunnelInv, Typed', NEW p \in Callers, PlaceOrder(p)
  PROVE  FunnelInv'
  <1> DEFINE key == call[p].key
             units == call[p].units
             next == Tell("ORDER_CREATE", [step |-> "clear", units |-> units])
  <1>1. /\ call[p].step = "place" /\ UNCHANGED <<journal, faults>>
        /\ \/ /\ orders[key] = Nothing /\ orders' = [orders EXCEPT ![key] = units]
              /\ done' = [done EXCEPT !["ORDER_CREATE"] = @ + 1]
              /\ call' = [call EXCEPT ![p] = next]
           \/ call' = [call EXCEPT ![p] = Idle] /\ UNCHANGED <<orders, done>>
    BY DEF PlaceOrder, At, Continue
  <1>2. key \in Keys /\ units # Nothing /\ units \in [SKUs -> Nat]
    BY <1>1 DEF FunnelInv, Typed, CallsOK, Sound
  <1>3. done \in [Events -> Nat] /\ faults \in Nat /\ DOMAIN orders = Keys
    BY StorefrontAssumption DEF FunnelInv, Typed, CountsOK, UnitsOK
  <1>4. Idle.step # "event" /\ next.step = "event" /\ next.event = "ORDER_CREATE"
    BY DEF Idle, Tell
  <1> HIDE DEF key, units, next
  <1>5. \A e \in Events : Told(e)'
    <2>1. Turns(p, Idle) \/ Turns(p, next)
      BY <1>1, <1>4 DEF Turns
    <2> QED
      BY <2>1, FunnelTurns
  <1>6. PlacedOnce'
    <2>1. CASE UNCHANGED <<orders, done>>
      BY <2>1, OrdersRest DEF FunnelInv
    <2>2. CASE /\ orders[key] = Nothing /\ orders' = [orders EXCEPT ![key] = units]
               /\ done' = [done EXCEPT !["ORDER_CREATE"] = @ + 1]
      <3>1. Nothing' = Nothing
        BY DEF Nothing
      <3>2. Placed' = Placed \cup {key} /\ key \notin Placed
        BY <1>2, <1>3, <2>2, <3>1 DEF Placed
      <3>3. IsFiniteSet(Placed) /\ done["ORDER_CREATE"] = Cardinality(Placed)
        BY DEF FunnelInv, PlacedOnce
      <3>4. IsFiniteSet(Placed') /\ Cardinality(Placed') = Cardinality(Placed) + 1
        BY <3>2, <3>3, FS_AddElement
      <3>5. done'["ORDER_CREATE"] = done["ORDER_CREATE"] + 1
        BY <1>3, <2>2 DEF Events
      <3> QED
        BY <3>3, <3>4, <3>5 DEF PlacedOnce
    <2> QED
      BY <1>1, <2>1, <2>2
  <1> QED
    BY <1>5, <1>6 DEF FunnelInv

LEMMA FunnelDeletes ==
  ASSUME FunnelInv, Typed', UNCHANGED <<orders, journal, call, faults, done>>
  PROVE  FunnelInv'
  <1>1. PlacedOnce'
    BY OrdersRest DEF FunnelInv
  <1> QED
    BY <1>1, FunnelRests DEF FunnelInv

LEMMA FunnelStep == FunnelInv /\ [Next]_vars => FunnelInv'
  <1> SUFFICES ASSUME FunnelInv, [Next]_vars PROVE FunnelInv'
    OBVIOUS
  <1>1. Typed'
    BY TypedStep DEF FunnelInv
  <1>2. CASE UNCHANGED vars
    BY <1>1, <1>2, FunnelDeletes DEF vars, history
  <1>3. ASSUME NEW p \in Callers, NEW i \in DOMAIN cart, DeleteCartItem(p, i) PROVE FunnelInv'
    BY <1>1, <1>3, FunnelDeletes DEF DeleteCartItem
  <1> QED
    BY <1>1, <1>2, <1>3, NextIsOf, FunnelStarts, FunnelAppends, FunnelGoesOn, FunnelPlaces DEF GoesOn

LEMMA FunnelInit == Init => FunnelInv
  <1> SUFFICES ASSUME Init PROVE FunnelInv
    OBVIOUS
  <1>1. \A e \in Events : Telling(e) = {} /\ journal[e] = 0 /\ done[e] = 0 /\ faults = 0
    BY DEF Init, Telling, At, Idle
  <1>2. Cardinality({}) = 0 /\ IsFiniteSet({})
    BY FS_EmptySet
  <1>3. \A e \in Events : Told(e)
    BY <1>1, <1>2 DEF Told
  <1>4. Placed = {} /\ done["ORDER_CREATE"] = 0
    BY DEF Init, Placed, Events
  <1> QED
    BY <1>2, <1>3, <1>4, TypedInit DEF FunnelInv, PlacedOnce

LEMMA FunnelTellsAll == FunnelInv => FunnelFollows
  <1> SUFFICES ASSUME FunnelInv PROVE FunnelFollows
    OBVIOUS
  <1>1. \A e \in Events : journal[e] \in Nat /\ done[e] \in Nat /\ faults \in Nat
    BY StorefrontAssumption DEF FunnelInv, Typed, CountsOK
  <1>2. ASSUME NEW e \in Events
        PROVE  journal[e] <= done[e] /\ done[e] <= journal[e] + Cardinality(Telling(e)) + faults
    <2>1. Cardinality(Telling(e)) \in Nat /\ Told(e)
      BY TellingIsFinite DEF FunnelInv
    <2> QED
      BY <1>1, <2>1 DEF Told
  <1>3. done["ORDER_CREATE"] = Cardinality({k \in Keys : orders[k] # Nothing})
    BY DEF FunnelInv, PlacedOnce, Placed
  <1>4. ASSUME NEW e \in Events, NEW failed \in BOOLEAN, NEW n \in Funnel(e, failed)
        PROVE  n <= done[e] /\ (failed \/ done[e] <= n + Cardinality(Telling(e)) + faults)
    <2>1. CASE failed
      <3>1. n \in 0 .. journal[e]
        BY <2>1 DEF Funnel
      <3> QED
        BY <1>1, <1>2, <2>1, <3>1
    <2>2. CASE ~failed
      <3>1. n = journal[e]
        BY <2>2 DEF Funnel
      <3> QED
        BY <1>2, <3>1
    <2> QED
      BY <2>1, <2>2
  <1> QED
    BY <1>3, <1>4 DEF FunnelFollows, Telling

\* The merchant's funnel tells no deed of a known visitor twice, and no others.  A
\* dashboard that could read all events misses no more than there are requests
\* under way and failures; and there is one order for each key, however often the
\* checkout is repeated, and whether its lookup works or not.
THEOREM FunnelTheorem == Spec => []FunnelFollows
  BY FunnelInit, FunnelStep, FunnelTellsAll, PTL DEF Spec

-----------------------------------------------------------------------------
(* The units in a cart *)

\* What a cart can be that has been given the ids up to n.
CartUpTo(n, c) == n \in Nat /\ DOMAIN c \subseteq 1 .. n /\ \A i \in DOMAIN c : c[i] \in Line

\* f is what the lines of s in the cart c count.
CountsLines(c, s, f) ==
  /\ IsFiniteSet(Each(f)) /\ DOMAIN f = {i \in DOMAIN c : c[i].sku = s}
  /\ \A i \in DOMAIN f : f[i] = c[i].quantity /\ f[i] \in Nat

LEMMA QuantityIsFinite ==
  ASSUME NEW n, NEW c, CartUpTo(n, c), NEW s
  PROVE  CountsLines(c, s, Quantity(c, s)) /\ Units(c, s) \in Nat
  <1> DEFINE f == Quantity(c, s)
  <1>1. DOMAIN f = {i \in DOMAIN c : c[i].sku = s}
    BY DEF Quantity
  <1>2. \A i \in DOMAIN f : f[i] = c[i].quantity /\ c[i].quantity \in Nat
    BY DEF Quantity, Line, CartUpTo
  <1>3. DOMAIN f \in SUBSET (1 .. n)
    BY <1>1 DEF CartUpTo
  <1>4. IsFiniteSet(1 .. n)
    BY FS_Interval DEF CartUpTo
  <1>5. IsFiniteSet(DOMAIN f)
    BY <1>3, <1>4, FS_Subset
  <1>6. Units(c, s) = Total(f)
    BY DEF Units
  <1> HIDE DEF f
  <1>7. \A i \in DOMAIN f : f[i] \in Nat
    BY <1>2
  <1>8. IsFiniteSet(Each(f))
    BY <1>5, <1>7, CountIsFinite
  <1>9. Total(f) \in Nat
    BY <1>8, TotalType
  <1> QED
    BY <1>1, <1>2, <1>6, <1>8, <1>9 DEF f, CountsLines

\* A line more: d is the cart c and line i.
LEMMA UnitsWithLine ==
  ASSUME NEW n, NEW c, NEW d, CartUpTo(n, d),
         NEW i, i \notin DOMAIN c, DOMAIN d = DOMAIN c \cup {i}, \A j \in DOMAIN c : d[j] = c[j], NEW s
  PROVE  /\ d[i].sku = s => Units(d, s) = Units(c, s) + d[i].quantity
         /\ d[i].sku # s => Units(d, s) = Units(c, s)
  <1> DEFINE f == Quantity(c, s)
             g == Quantity(d, s)
  <1>1. CartUpTo(n, c)
    BY DEF CartUpTo
  <1>2. CountsLines(c, s, f)
    BY <1>1, QuantityIsFinite
  <1>3. CountsLines(d, s, g)
    BY <1>1, QuantityIsFinite
  <1>4. Units(c, s) = Total(f) /\ Units(d, s) = Total(g)
    BY DEF Units
  <1> HIDE DEF f, g
  <1>5. \A j \in DOMAIN f : g[j] = f[j]
    BY <1>2, <1>3 DEF CountsLines
  <1>6. CASE d[i].sku = s
    <2>1. DOMAIN g = DOMAIN f \cup {i} /\ i \notin DOMAIN f
      BY <1>2, <1>3, <1>6 DEF CountsLines
    <2>2. g[i] = d[i].quantity /\ g[i] \in Nat
      BY <1>3, <2>1 DEF CountsLines
    <2>3. Total(g) = Total(f) + g[i]
      BY <1>2, <1>5, <2>1, <2>2, TotalWithMore DEF CountsLines
    <2> QED
      BY <1>4, <1>6, <2>2, <2>3
  <1>7. CASE d[i].sku # s
    <2>1. DOMAIN g = DOMAIN f
      BY <1>2, <1>3, <1>7 DEF CountsLines
    <2>2. Total(g) = Total(f)
      BY <1>5, <2>1, TotalOfSame
    <2> QED
      BY <1>4, <1>7, <2>2
  <1> QED
    BY <1>6, <1>7

\* Another quantity in line i.
LEMMA UnitsWithChange ==
  ASSUME NEW n, NEW c, NEW d, CartUpTo(n, c),
         NEW i \in DOMAIN c, DOMAIN d = DOMAIN c, d[i] \in Line, d[i].sku = c[i].sku,
         \A j \in DOMAIN c \ {i} : d[j] = c[j], NEW s
  PROVE  /\ d[i].sku = s => Units(d, s) = Units(c, s) - c[i].quantity + d[i].quantity
         /\ d[i].sku # s => Units(d, s) = Units(c, s)
  <1> DEFINE f == Quantity(c, s)
             g == Quantity(d, s)
  <1>1. CartUpTo(n, d)
    BY DEF CartUpTo
  <1>2. CountsLines(c, s, f)
    BY <1>1, QuantityIsFinite
  <1>3. CountsLines(d, s, g)
    BY <1>1, QuantityIsFinite
  <1>4. Units(c, s) = Total(f) /\ Units(d, s) = Total(g)
    BY DEF Units
  <1> HIDE DEF f, g
  <1>5. DOMAIN g = DOMAIN f
    BY <1>2, <1>3 DEF CountsLines
  <1>6. \A j \in DOMAIN f \ {i} : g[j] = f[j]
    BY <1>2, <1>3, <1>5 DEF CountsLines
  <1>7. CASE d[i].sku = s
    <2>1. i \in DOMAIN f
      BY <1>2, <1>7 DEF CountsLines
    <2>2. f[i] = c[i].quantity /\ g[i] = d[i].quantity /\ f[i] \in Nat /\ g[i] \in Nat
      BY <1>2, <1>3, <1>5, <2>1 DEF CountsLines
    <2>3. Total(g) = Total(f) - f[i] + g[i]
      BY <1>2, <1>5, <1>6, <2>1, <2>2, TotalWithChange DEF CountsLines
    <2> QED
      BY <1>4, <1>7, <2>2, <2>3
  <1>8. CASE d[i].sku # s
    <2>1. i \notin DOMAIN f
      BY <1>2, <1>8 DEF CountsLines
    <2>2. Total(g) = Total(f)
      BY <1>5, <1>6, <2>1, TotalOfSame
    <2> QED
      BY <1>4, <1>8, <2>2
  <1> QED
    BY <1>7, <1>8

\* The cart c without the lines of S is d.
LEMMA UnitsWithoutLines ==
  ASSUME NEW n, NEW c, NEW d, CartUpTo(n, c),
         NEW S \in SUBSET DOMAIN c, NEW e, DOMAIN d = DOMAIN c \ S, \A j \in DOMAIN d : d[j] = c[j],
         DOMAIN e = S, \A j \in S : e[j] = c[j], NEW s
  PROVE  Units(c, s) = Units(d, s) + Units(e, s)
  <1> DEFINE f == Quantity(c, s)
             g == Quantity(d, s)
             h == Quantity(e, s)
  <1>1. CartUpTo(n, d) /\ CartUpTo(n, e)
    BY DEF CartUpTo
  <1>2. CountsLines(c, s, f)
    BY QuantityIsFinite
  <1>3. CountsLines(d, s, g)
    BY <1>1, QuantityIsFinite
  <1>4. CountsLines(e, s, h)
    BY <1>1, QuantityIsFinite
  <1>5. Units(c, s) = Total(f) /\ Units(d, s) = Total(g) /\ Units(e, s) = Total(h)
    BY DEF Units
  <1> HIDE DEF f, g, h
  <1>6. DOMAIN f = DOMAIN g \cup DOMAIN h /\ DOMAIN g \cap DOMAIN h = {}
    BY <1>2, <1>3, <1>4 DEF CountsLines
  <1>7. (\A x \in DOMAIN g : f[x] = g[x]) /\ (\A x \in DOMAIN h : f[x] = h[x])
    BY <1>2, <1>3, <1>4, <1>6 DEF CountsLines
  <1>8. Total(f) = Total(g) + Total(h)
    BY <1>3, <1>4, <1>6, <1>7, TotalOfParts DEF CountsLines
  <1> QED
    BY <1>5, <1>8

-----------------------------------------------------------------------------
(* The cart *)

Inserting(s) == {p \in Callers : At(p, "insert") /\ call[p].row.sku = s}
\* A request that is to insert a line missed the others, with no other failure, if
\* there are none: the callers and the failures make up for lines and insertions.
FewLines ==
  \A s \in SKUs : Cardinality(Lines(s)) + Cardinality(Inserting(s)) <= Cardinality(Callers) + faults

IdsStand ==
  \A p \in Callers : At(p, "update") =>
    call[p].id <= serial /\ (call[p].id \in DOMAIN cart => cart[call[p].id].sku = call[p].row.sku)

OrdersAreFinite == \A s \in SKUs : IsFiniteSet(Each([k \in Keys |-> orders[k][s]]))

Balanced == \A s \in SKUs \ upset : Units(cart, s) + Ordered(s) = due[s] + OwedOf(s)

CartInv == Typed /\ FewLines /\ IdsStand /\ OrdersAreFinite /\ Balanced

\* Owed, of the record of a call.
Debt(c) ==
  IF c.step = "clear" THEN c.units
  ELSE IF c.step = "event" /\ c.next # Idle THEN c.next.units
  ELSE Nothing

LEMMA OwedIsDebt ==
  ASSUME NEW q
  PROVE  Owed(q) = Debt(call[q]) /\ Owed(q)' = Debt(call'[q])
  <1>1. Nothing' = Nothing /\ Idle' = Idle
    BY DEF Nothing, Idle
  <1>2. Owed(q) = Debt(call[q])
    BY DEF Owed, Debt, At
  <1>3. Owed(q)' = Debt(call'[q])
    BY <1>1 DEF Owed, Debt, At
  <1> QED
    BY <1>2, <1>3

LEMMA DebtType ==
  ASSUME NEW c, Sound(c)
  PROVE  Debt(c) \in [SKUs -> Nat]
  <1>1. Nothing \in [SKUs -> Nat]
    BY DEF Nothing
  <1> QED
    BY <1>1 DEF Debt, Sound, Clearing

\* What is owed changes with the debt of the request that goes on.
LEMMA OwedGoesOn ==
  ASSUME CallsOK, CallsOK', NEW p \in Callers, NEW next, call' = [call EXCEPT ![p] = next], NEW s \in SKUs
  PROVE  /\ OwedOf(s) \in Nat /\ Debt(call[p])[s] \in Nat /\ Debt(next)[s] \in Nat
         /\ OwedOf(s)' = OwedOf(s) - Debt(call[p])[s] + Debt(next)[s]
  <1> DEFINE f == [q \in Callers |-> Debt(call[q])[s]]
             g == [q \in Callers |-> Debt(call'[q])[s]]
  <1>1. DOMAIN call' = Callers /\ call'[p] = next /\ \A q \in Callers \ {p} : call'[q] = call[q]
    BY CallGoesOn
  <1>2. OwedOf(s) = Total(f)
    <2>1. [q \in Callers |-> Owed(q)[s]] = f
      BY OwedIsDebt
    <2> QED
      BY <2>1 DEF OwedOf
  <1>3. OwedOf(s)' = Total(g)
    <2>1. [q \in Callers |-> Owed(q)'[s]] = g
      BY OwedIsDebt
    <2>2. OwedOf(s)' = Total([q \in Callers |-> Owed(q)'[s]])
      BY DEF OwedOf, Total, Each
    <2> QED
      BY <2>1, <2>2
  <1>4. \A q \in Callers : Debt(call[q])[s] \in Nat /\ Debt(call'[q])[s] \in Nat
    <2>1. \A q \in Callers : Sound(call[q])
      BY DEF CallsOK
    <2>2. \A q \in Callers : Sound(call'[q])
      BY DEF CallsOK, Sound, Clearing, Idle
    <2>3. \A q \in Callers : Debt(call[q]) \in [SKUs -> Nat] /\ Debt(call'[q]) \in [SKUs -> Nat]
      BY <2>1, <2>2, DebtType
    <2> QED
      BY <2>3
  <1>5. /\ DOMAIN f = Callers /\ f[p] = Debt(call[p])[s] /\ DOMAIN g = Callers /\ g[p] = Debt(next)[s]
        /\ \A q \in Callers : f[q] \in Nat /\ g[q] \in Nat
        /\ \A q \in Callers \ {p} : g[q] = f[q]
    BY <1>1, <1>4
  <1> HIDE DEF f, g
  <1>6. IsFiniteSet(Each(f))
    BY <1>5, StorefrontAssumption, CountIsFinite
  <1>7. Total(g) = Total(f) - f[p] + g[p]
    BY <1>5, <1>6, TotalWithChange
  <1>8. Total(f) \in Nat
    BY <1>6, TotalType
  <1> QED
    BY <1>2, <1>3, <1>5, <1>7, <1>8

LEMMA OrderedGoesOn ==
  ASSUME Typed, OrdersAreFinite, NEW k \in Keys, NEW units \in [SKUs -> Nat], orders[k] = Nothing,
         orders' = [orders EXCEPT ![k] = units], NEW s \in SKUs
  PROVE  /\ Ordered(s) \in Nat /\ Ordered(s)' = Ordered(s) + units[s]
         /\ IsFiniteSet(Each([l \in Keys |-> orders'[l][s]]))
  <1> DEFINE f == [l \in Keys |-> orders[l][s]]
             g == [l \in Keys |-> orders'[l][s]]
  <1>1. orders \in [Keys -> [SKUs -> Nat]]
    BY DEF Typed, UnitsOK
  <1>2. IsFiniteSet(Each(f)) /\ Ordered(s) = Total(f)
    BY DEF OrdersAreFinite, Ordered
  <1>3. Ordered(s)' = Total(g)
    BY DEF Ordered, Total, Each
  <1>4. /\ DOMAIN f = Keys /\ DOMAIN g = Keys /\ f[k] = 0 /\ g[k] = units[s] /\ units[s] \in Nat
        /\ \A l \in Keys \ {k} : g[l] = f[l]
    BY <1>1 DEF Nothing
  <1> HIDE DEF f, g
  <1>5. IsFiniteSet(Each(g)) /\ Total(g) = Total(f) - f[k] + g[k]
    BY <1>2, <1>4, TotalWithChange
  <1>6. Total(f) \in Nat
    BY <1>2, TotalType
  <1> QED
    BY <1>2, <1>3, <1>4, <1>5, <1>6 DEF g

LEMMA LinesAreFinite ==
  ASSUME CartOK, NEW s
  PROVE  IsFiniteSet(Lines(s)) /\ Cardinality(Lines(s)) \in Nat
  <1>1. Lines(s) \in SUBSET (1 .. serial)
    BY DEF CartOK, Lines
  <1>2. IsFiniteSet(1 .. serial)
    BY FS_Interval DEF CartOK
  <1>3. IsFiniteSet(Lines(s))
    BY <1>1, <1>2, FS_Subset
  <1> QED
    BY <1>3, FS_CardinalityType

LEMMA InsertingIsFinite ==
  ASSUME NEW s
  PROVE  /\ IsFiniteSet(Inserting(s)) /\ Cardinality(Inserting(s)) \in Nat
         /\ Cardinality(Inserting(s)) <= Cardinality(Callers) /\ Cardinality(Callers) \in Nat
  <1>1. Inserting(s) \in SUBSET Callers
    BY DEF Inserting
  <1>2. IsFiniteSet(Callers)
    BY StorefrontAssumption
  <1> QED
    BY <1>1, <1>2, FS_Subset, FS_CardinalityType

\* Who inserts a line after one request has gone on.
LEMMA InsertingGoesOn ==
  ASSUME CallsOK, NEW p \in Callers, NEW next, call' = [call EXCEPT ![p] = next], NEW s
  PROVE  /\ next.step = "insert" /\ next.row.sku = s => Inserting(s)' = Inserting(s) \cup {p}
         /\ next.step # "insert" \/ next.row.sku # s => Inserting(s)' = Inserting(s) \ {p}
  <1>1. DOMAIN call' = Callers /\ call'[p] = next /\ \A q \in Callers \ {p} : call'[q] = call[q]
    BY CallGoesOn
  <1>2. Inserting(s)' = {q \in Callers : call'[q].step = "insert" /\ call'[q].row.sku = s}
    BY DEF Inserting, At
  <1>3. Inserting(s) = {q \in Callers : call[q].step = "insert" /\ call[q].row.sku = s}
    BY DEF Inserting, At
  <1> QED
    BY <1>1, <1>2, <1>3

LEMMA FewerLines ==
  ASSUME Typed, FewLines, CartOK', UNCHANGED faults,
         \A s \in SKUs : Lines(s)' \subseteq Lines(s) /\ Inserting(s)' \subseteq Inserting(s)
  PROVE  FewLines'
  <1> SUFFICES ASSUME NEW s \in SKUs
               PROVE  Cardinality(Lines(s)') + Cardinality(Inserting(s)') <= Cardinality(Callers) + faults
    BY DEF FewLines
  <1>1. IsFiniteSet(Lines(s)) /\ Cardinality(Lines(s)) \in Nat
    BY LinesAreFinite DEF Typed
  <1>2. IsFiniteSet(Inserting(s)) /\ Cardinality(Inserting(s)) \in Nat /\ Cardinality(Callers) \in Nat
    BY InsertingIsFinite
  <1>3. Lines(s)' \in SUBSET Lines(s) /\ Inserting(s)' \in SUBSET Inserting(s)
    OBVIOUS
  <1>4. IsFiniteSet(Lines(s)') /\ Cardinality(Lines(s)') <= Cardinality(Lines(s))
    BY <1>1, <1>3, FS_Subset
  <1>5. IsFiniteSet(Inserting(s)') /\ Cardinality(Inserting(s)') <= Cardinality(Inserting(s))
    BY <1>2, <1>3, FS_Subset
  <1>6. Cardinality(Lines(s)') \in Nat /\ Cardinality(Inserting(s)') \in Nat
    BY <1>4, <1>5, FS_CardinalityType
  <1>7. Cardinality(Lines(s)) + Cardinality(Inserting(s)) <= Cardinality(Callers) + faults
    BY DEF FewLines
  <1>8. faults \in Nat
    BY StorefrontAssumption DEF Typed, CountsOK
  <1> QED
    BY <1>1, <1>2, <1>4, <1>5, <1>6, <1>7, <1>8

\* A request goes on without touching the cart, the orders or what is due.  What
\* it owes is as before, unless its SKU is written down in upset.
GoesPast(p, next) ==
  /\ call' = [call EXCEPT ![p] = next] /\ UNCHANGED <<cart, serial, orders, due>> /\ upset \subseteq upset'
  /\ \A s \in SKUs \ upset' : Debt(next)[s] = Debt(call[p])[s]
  /\ UNCHANGED faults \/ faults' = faults + 1
  /\ next.step = "insert" => Lines(next.row.sku) = {} \/ faults' = faults + 1
  /\ next.step = "update" =>
       next.id <= serial /\ (next.id \in DOMAIN cart => cart[next.id].sku = next.row.sku)

LEMMA OrdersStay ==
  ASSUME OrdersAreFinite, UNCHANGED orders
  PROVE  OrdersAreFinite' /\ \A s \in SKUs : Ordered(s)' = Ordered(s)
  BY DEF OrdersAreFinite, Ordered, Total, Each

LEMMA CartStays ==
  ASSUME CartInv, Typed', NEW p \in Callers, NEW next, GoesPast(p, next)
  PROVE  CartInv'
  <1>1. CallsOK /\ CallsOK' /\ CartOK /\ CartOK' /\ call' = [call EXCEPT ![p] = next] /\ UNCHANGED <<cart, serial>>
    BY DEF CartInv, Typed, GoesPast
  <1>2. DOMAIN call' = Callers /\ call'[p] = next /\ \A q \in Callers \ {p} : call'[q] = call[q]
    BY <1>1, CallGoesOn
  <1>3. \A s : Lines(s)' = Lines(s)
    BY <1>1 DEF Lines
  <1>4. FewLines'
    <2>1. SUFFICES ASSUME NEW s \in SKUs
                   PROVE  Cardinality(Lines(s)') + Cardinality(Inserting(s)') <= Cardinality(Callers) + faults'
      BY DEF FewLines
    <2>2. /\ IsFiniteSet(Inserting(s)) /\ Cardinality(Inserting(s)) \in Nat /\ Cardinality(Callers) \in Nat
          /\ IsFiniteSet(Lines(s)) /\ Cardinality(Lines(s)) \in Nat
      BY <1>1, InsertingIsFinite, LinesAreFinite
    <2>3. /\ faults \in Nat /\ (UNCHANGED faults \/ faults' = faults + 1)
          /\ Cardinality(Lines(s)) + Cardinality(Inserting(s)) <= Cardinality(Callers) + faults
          /\ Cardinality(Lines(s)') = Cardinality(Lines(s))
      BY <1>3, StorefrontAssumption DEF CartInv, FewLines, Typed, CountsOK, GoesPast
    <2>4. CASE next.step = "insert" /\ next.row.sku = s
      <3>1. Inserting(s)' = Inserting(s) \cup {p}
        BY <1>1, <2>4, InsertingGoesOn
      <3>2. CASE Lines(s) = {}
        <4>1. Cardinality(Lines(s)') = 0
          BY <2>3, <3>2, FS_EmptySet
        <4>2. Inserting(s)' \in SUBSET Callers
          BY DEF Inserting
        <4>3. Cardinality(Inserting(s)') <= Cardinality(Callers) /\ Cardinality(Inserting(s)') \in Nat
          BY <4>2, StorefrontAssumption, FS_Subset, FS_CardinalityType
        <4> QED
          BY <2>2, <2>3, <4>1, <4>3
      <3>3. CASE faults' = faults + 1
        <4>1. Cardinality(Inserting(s)') \in {Cardinality(Inserting(s)), Cardinality(Inserting(s)) + 1}
          BY <2>2, <3>1, FS_AddElement
        <4> QED
          BY <2>2, <2>3, <3>3, <4>1
      <3> QED
        BY <2>4, <3>2, <3>3 DEF GoesPast
    <2>5. CASE next.step # "insert" \/ next.row.sku # s
      <3>1. Inserting(s)' = Inserting(s) \ {p}
        BY <1>1, <2>5, InsertingGoesOn
      <3>2. Inserting(s)' \in SUBSET Inserting(s)
        BY <3>1
      <3>3. Cardinality(Inserting(s)') <= Cardinality(Inserting(s)) /\ Cardinality(Inserting(s)') \in Nat
        BY <2>2, <3>2, FS_Subset, FS_CardinalityType
      <3> QED
        BY <2>2, <2>3, <3>3
    <2> QED
      BY <2>4, <2>5
  <1>5. IdsStand'
    <2>1. SUFFICES ASSUME NEW q \in Callers, call'[q].step = "update"
                   PROVE  /\ call'[q].id <= serial'
                          /\ call'[q].id \in DOMAIN cart' => cart'[call'[q].id].sku = call'[q].row.sku
      BY DEF IdsStand, At
    <2>2. CASE q = p
      BY <1>1, <1>2, <2>1, <2>2 DEF GoesPast
    <2>3. CASE q # p
      BY <1>1, <1>2, <2>1, <2>3 DEF CartInv, IdsStand, At
    <2> QED
      BY <2>2, <2>3
  <1>6. OrdersAreFinite' /\ \A s \in SKUs : Ordered(s)' = Ordered(s)
    BY OrdersStay DEF CartInv, GoesPast
  <1>7. Balanced'
    <2>1. SUFFICES ASSUME NEW s \in SKUs, s \notin upset'
                   PROVE  Units(cart', s) + Ordered(s)' = due'[s] + OwedOf(s)'
      BY DEF Balanced, Units, Quantity, Total, Each
    <2>2. Units(cart, s) + Ordered(s) = due[s] + OwedOf(s)
      BY <2>1 DEF CartInv, Balanced, GoesPast
    <2>3. /\ OwedOf(s) \in Nat /\ Debt(call[p])[s] \in Nat
          /\ OwedOf(s)' = OwedOf(s) - Debt(call[p])[s] + Debt(next)[s]
      BY <1>1, OwedGoesOn
    <2>4. Debt(next)[s] = Debt(call[p])[s]
      BY <2>1 DEF GoesPast
    <2>5. OwedOf(s)' = OwedOf(s)
      BY <2>3, <2>4
    <2>6. cart' = cart /\ due' = due
      BY DEF GoesPast
    <2> QED
      BY <1>6, <2>2, <2>5, <2>6
  <1> QED
    BY <1>4, <1>5, <1>6, <1>7 DEF CartInv

LEMMA CartStarts ==
  ASSUME CartInv, Typed', NEW p \in Callers, Starts(p)
  PROVE  CartInv'
  <1>1. PICK first : Begin(p, first) /\ KnowsAtFirst(first)
    BY StartsKnowing DEF CartInv
  <1>2. /\ call' = [call EXCEPT ![p] = first] /\ UNCHANGED <<cart, serial, orders, due, upset>>
        /\ call[p].step = "none"
    BY <1>1 DEF Begin, Busy, rows
  <1>3. Debt(first) = Nothing /\ Debt(call[p]) = Nothing
    BY <1>1, <1>2 DEF Debt, KnowsAtFirst
  <1>4. /\ UNCHANGED faults \/ faults' = faults + 1
        /\ first.step = "insert" => Lines(first.row.sku) = {} \/ faults' = faults + 1
    BY <1>1 DEF KnowsAtFirst
  <1>5. first.step = "update" => first.id \in DOMAIN cart /\ cart[first.id].sku = first.row.sku
    BY <1>1 DEF KnowsAtFirst
  <1>6. \A i \in DOMAIN cart : i <= serial
    BY DEF CartInv, Typed, CartOK
  <1>7. GoesPast(p, first)
    BY <1>2, <1>3, <1>4, <1>5, <1>6 DEF GoesPast
  <1> QED
    BY <1>7, CartStays

LEMMA CartGoesPast ==
  ASSUME CartInv, Typed', NEW p \in Callers,
         \/ CountView(p) \/ SaveProduct(p) \/ AppendEvent(p) \/ PickLines(p) \/ Fail(p)
         \/ UpdateLine(p) /\ UNCHANGED <<cart, due, done, upset>> /\ Continue(p, Idle)
         \/ PlaceOrder(p) /\ UNCHANGED <<orders, done>> /\ Continue(p, Idle)
  PROVE  CartInv'
  <1> DEFINE place(n) == [step |-> "place", key |-> call[p].key, units |-> Picked(First(n))]
             viewed == Tell("NOTE_VIEW", Idle)
  <1>1. UNCHANGED <<cart, serial, orders, due>> /\ upset \subseteq upset'
    BY DEF CountView, SaveProduct, AppendEvent, PickLines, Fail, UpdateLine, PlaceOrder, rows, history
  <1>2. UNCHANGED faults \/ faults' = faults + 1
    BY CartIsRead DEF CountView, SaveProduct, AppendEvent, PickLines, Fail, UpdateLine, PlaceOrder, Continue
  <1>3. Sound(call[p])
    BY DEF CartInv, Typed, CallsOK
  <1>4. /\ Idle.step = "none" /\ Debt(Idle) = Nothing
        /\ \A n : place(n).step = "place" /\ Debt(place(n)) = Nothing
        /\ viewed.step = "event" /\ Debt(viewed) = Nothing
    BY DEF Idle, Debt, Tell
  <1>5. CASE AppendEvent(p)
    <2> DEFINE next == call[p].next
    <2>1. call[p].step = "event" /\ call' = [call EXCEPT ![p] = next]
      BY <1>5 DEF AppendEvent, At, Continue
    <2>2. next = Idle \/ Clearing(next)
      BY <1>3, <2>1 DEF Sound
    <2>3. Debt(call[p]) = Debt(next) /\ next.step # "insert" /\ next.step # "update"
      BY <2>1, <2>2 DEF Debt, Clearing, Idle
    <2> HIDE DEF next
    <2>4. GoesPast(p, next)
      BY <1>1, <1>2, <2>1, <2>3 DEF GoesPast
    <2> QED
      BY <2>4, CartStays
  <1>6. CASE Fail(p)
    <2>1. call' = [call EXCEPT ![p] = Idle] /\ upset' = upset \cup {s \in SKUs : Owed(p)[s] > 0}
      BY <1>6 DEF Fail
    <2>2. Owed(p) = Debt(call[p]) /\ Debt(call[p]) \in [SKUs -> Nat]
      BY <1>3, OwedIsDebt, DebtType
    <2>3. \A s \in SKUs \ upset' : Debt(Idle)[s] = Debt(call[p])[s]
      BY <1>4, <2>1, <2>2 DEF Nothing
    <2>4. GoesPast(p, Idle)
      BY <1>1, <1>2, <1>4, <2>1, <2>3 DEF GoesPast
    <2> QED
      BY <2>4, CartStays
  <1>7. CASE \/ CountView(p) \/ SaveProduct(p) \/ PickLines(p)
             \/ UpdateLine(p) /\ Continue(p, Idle)
             \/ PlaceOrder(p) /\ Continue(p, Idle)
    <2>1. /\ call[p].step \in {"count", "save", "pick", "update", "place"}
          /\ \/ call' = [call EXCEPT ![p] = Idle] \/ call' = [call EXCEPT ![p] = viewed]
             \/ \E n \in 0 .. serial : call' = [call EXCEPT ![p] = place(n)]
      BY <1>7 DEF CountView, SaveProduct, PickLines, UpdateLine, PlaceOrder, At, Continue
    <2>2. Debt(call[p]) = Nothing
      BY <2>1 DEF Debt
    <2> HIDE DEF place, viewed
    <2>3. GoesPast(p, Idle) \/ GoesPast(p, viewed) \/ \E n \in 0 .. serial : GoesPast(p, place(n))
      BY <1>1, <1>2, <1>4, <2>1, <2>2 DEF GoesPast
    <2> QED
      BY <2>3, CartStays
  <1> QED
    BY <1>5, <1>6, <1>7

\* Ids are given once: a change that is under way finds its line, or none.
LEMMA IdsGoOn ==
  ASSUME Typed, Typed', IdsStand, NEW p \in Callers, NEW next, call' = [call EXCEPT ![p] = next], next.step # "update",
         serial <= serial',
         \A i \in DOMAIN cart' : i <= serial => i \in DOMAIN cart /\ cart'[i].sku = cart[i].sku
  PROVE  IdsStand'
  <1>1. /\ DOMAIN call' = Callers /\ call'[p] = next /\ \A q \in Callers \ {p} : call'[q] = call[q]
        /\ serial \in Nat /\ serial' \in Nat
    BY CallGoesOn DEF Typed, CartOK
  <1>2. SUFFICES ASSUME NEW q \in Callers, call'[q].step = "update"
                 PROVE  /\ call'[q].id <= serial'
                        /\ call'[q].id \in DOMAIN cart' => cart'[call'[q].id].sku = call'[q].row.sku
    BY DEF IdsStand, At
  <1>3. q # p /\ call'[q] = call[q]
    BY <1>1, <1>2
  <1>4. /\ call[q].id \in Nat /\ call[q].id <= serial
        /\ call[q].id \in DOMAIN cart => cart[call[q].id].sku = call[q].row.sku
    BY <1>2, <1>3 DEF IdsStand, At, Typed, CallsOK, Sound
  <1> QED
    BY <1>1, <1>3, <1>4

\* Nobody turns to insert a line by a step that is not a start.
LEMMA NobodyInserts ==
  ASSUME Typed, NEW p \in Callers, NEW next, call' = [call EXCEPT ![p] = next], next.step # "insert"
  PROVE  \A s : Inserting(s)' \subseteq Inserting(s)
  <1> SUFFICES ASSUME NEW s PROVE Inserting(s)' \subseteq Inserting(s)
    OBVIOUS
  <1>1. Inserting(s)' = Inserting(s) \ {p}
    BY InsertingGoesOn DEF Typed
  <1> QED
    BY <1>1

\* What is owed by calls that stay as they are.
LEMMA OwedStays ==
  ASSUME CallsOK, UNCHANGED call, NEW s \in SKUs
  PROVE  OwedOf(s) \in Nat /\ OwedOf(s)' = OwedOf(s)
  <1> DEFINE f == [q \in Callers |-> Debt(call[q])[s]]
  <1>1. [q \in Callers |-> Owed(q)[s]] = f /\ [q \in Callers |-> Owed(q)'[s]] = f
    BY OwedIsDebt
  <1>2. OwedOf(s) = Total(f) /\ OwedOf(s)' = Total(f)
    <2>1. OwedOf(s)' = Total([q \in Callers |-> Owed(q)'[s]])
      BY DEF OwedOf, Total, Each
    <2> QED
      BY <1>1, <2>1 DEF OwedOf
  <1>3. \A q \in Callers : Debt(call[q]) \in [SKUs -> Nat]
    BY DebtType DEF CallsOK
  <1>4. DOMAIN f = Callers /\ \A q \in Callers : f[q] \in Nat
    BY <1>3
  <1> HIDE DEF f
  <1>5. IsFiniteSet(Each(f))
    BY <1>4, StorefrontAssumption, CountIsFinite
  <1> QED
    BY <1>2, <1>5, TotalType

LEMMA CartInserts ==
  ASSUME CartInv, Typed', NEW p \in Callers, InsertLine(p)
  PROVE  CartInv'
  <1> DEFINE row == call[p].row
             next == Tell("ADD_TO_CART", Idle)
  <1>1. /\ call[p].step = "insert" /\ serial' = serial + 1
        /\ cart' = [i \in DOMAIN cart \cup {serial'} |-> IF i = serial' THEN row ELSE cart[i]]
        /\ due' = [due EXCEPT ![row.sku] = @ + row.quantity]
        /\ call' = [call EXCEPT ![p] = next] /\ UNCHANGED <<orders, upset, faults>>
    BY DEF InsertLine, At, Continue
  <1>2. next.step = "event" /\ Debt(next) = Nothing /\ Debt(call[p]) = Nothing
    BY <1>1 DEF Debt, Tell
  <1>3. row \in Line /\ row.sku \in SKUs /\ row.quantity \in Nat
    BY <1>1 DEF CartInv, Typed, CallsOK, Sound, Line
  <1>4. CartOK /\ CartOK' /\ CallsOK /\ CallsOK' /\ serial \in Nat /\ due \in [SKUs -> Int]
    BY DEF CartInv, Typed, CartOK, UnitsOK
  <1>5. serial' \notin DOMAIN cart /\ \A i \in DOMAIN cart : i <= serial
    BY <1>1, <1>4 DEF CartOK
  <1> HIDE DEF row, next
  <1>6. /\ DOMAIN cart' = DOMAIN cart \cup {serial'} /\ cart'[serial'] = row
        /\ \A i \in DOMAIN cart : cart'[i] = cart[i]
    BY <1>1, <1>5
  <1>7. FewLines'
    <2>1. SUFFICES ASSUME NEW s \in SKUs
                   PROVE  Cardinality(Lines(s)') + Cardinality(Inserting(s)') <= Cardinality(Callers) + faults'
      BY DEF FewLines
    <2>2. /\ IsFiniteSet(Inserting(s)) /\ Cardinality(Inserting(s)) \in Nat /\ Cardinality(Callers) \in Nat
          /\ IsFiniteSet(Lines(s)) /\ Cardinality(Lines(s)) \in Nat
          /\ Cardinality(Lines(s)) + Cardinality(Inserting(s)) <= Cardinality(Callers) + faults
          /\ faults' = faults /\ faults \in Nat
      BY <1>1, <1>4, InsertingIsFinite, LinesAreFinite, StorefrontAssumption DEF CartInv, FewLines, Typed, CountsOK
    <2>3. Inserting(s)' = Inserting(s) \ {p} /\ (p \in Inserting(s) <=> row.sku = s)
      <3>1. Inserting(s)' = Inserting(s) \ {p}
        BY <1>1, <1>2, <1>4, InsertingGoesOn
      <3>2. p \in Inserting(s) <=> row.sku = s
        BY <1>1 DEF Inserting, At, row
      <3> QED
        BY <3>1, <3>2
    <2>4. CASE row.sku = s
      <3>1. Cardinality(Inserting(s)') = Cardinality(Inserting(s)) - 1
        <4>1. p \in Inserting(s) /\ Inserting(s)' = Inserting(s) \ {p}
          BY <2>3, <2>4
        <4> QED
          BY <2>2, <4>1, FS_RemoveElement
      <3>2. Lines(s)' = Lines(s) \cup {serial'} /\ serial' \notin Lines(s)
        BY <1>5, <1>6, <2>4 DEF Lines
      <3>3. Cardinality(Lines(s)') = Cardinality(Lines(s)) + 1
        BY <2>2, <3>2, FS_AddElement
      <3> QED
        BY <2>2, <3>1, <3>3
    <2>5. CASE row.sku # s
      <3>1. Inserting(s)' = Inserting(s)
        BY <2>3, <2>5
      <3>2. Lines(s)' = Lines(s)
        BY <1>5, <1>6, <2>5 DEF Lines
      <3> QED
        BY <2>2, <3>1, <3>2
    <2> QED
      BY <2>4, <2>5
  <1>8. IdsStand'
    <2>1. \A i \in DOMAIN cart' : i <= serial => i \in DOMAIN cart /\ cart'[i].sku = cart[i].sku
      BY <1>1, <1>4, <1>6
    <2>2. serial <= serial'
      BY <1>1, <1>4
    <2> QED
      BY <1>1, <1>2, <2>1, <2>2, IdsGoOn DEF CartInv
  <1>9. OrdersAreFinite' /\ \A s \in SKUs : Ordered(s)' = Ordered(s)
    BY <1>1, OrdersStay DEF CartInv
  <1>10. Balanced'
    <2>1. SUFFICES ASSUME NEW s \in SKUs, s \notin upset'
                   PROVE  Units(cart', s) + Ordered(s)' = due'[s] + OwedOf(s)'
      BY DEF Balanced, Units, Quantity, Total, Each
    <2>2. Units(cart, s) + Ordered(s) = due[s] + OwedOf(s)
      BY <1>1, <2>1 DEF CartInv, Balanced
    <2>3. OwedOf(s)' = OwedOf(s) /\ OwedOf(s) \in Nat
      <3>1. OwedOf(s) \in Nat /\ OwedOf(s)' = OwedOf(s) - Debt(call[p])[s] + Debt(next)[s]
        BY <1>1, <1>4, OwedGoesOn
      <3>2. Debt(call[p])[s] = 0 /\ Debt(next)[s] = 0
        BY <1>2 DEF Nothing
      <3> QED
        BY <3>1, <3>2
    <2>4. CartUpTo(serial', cart') /\ CartUpTo(serial, cart)
      BY <1>4 DEF CartOK, CartUpTo
    <2>5. /\ row.sku = s => Units(cart', s) = Units(cart, s) + row.quantity
          /\ row.sku # s => Units(cart', s) = Units(cart, s)
      BY <1>5, <1>6, <2>4, UnitsWithLine
    <2>6. /\ row.sku = s => due'[s] = due[s] + row.quantity
          /\ row.sku # s => due'[s] = due[s]
      BY <1>1, <1>3, <1>4
    <2>7. Units(cart, s) \in Nat /\ Ordered(s) \in Nat /\ due[s] \in Int
      BY <1>4, <2>4, QuantityIsFinite, TotalType DEF CartInv, OrdersAreFinite, Ordered
    <2> QED
      BY <1>3, <1>9, <2>2, <2>3, <2>5, <2>6, <2>7
  <1> QED
    BY <1>7, <1>8, <1>9, <1>10 DEF CartInv

LEMMA CartUpdates ==
  ASSUME CartInv, Typed', NEW p \in Callers, UpdateLine(p), call[p].id \in DOMAIN cart
  PROVE  CartInv'
  <1> DEFINE c == call[p]
             i == c.id
             old == cart[i]
  <1>1. /\ c.step = "update" /\ cart' = [cart EXCEPT ![i] = c.row] /\ UNCHANGED <<serial, orders, faults>>
        /\ due' = [due EXCEPT ![c.row.sku] = @ + Change(c, old)]
        /\ upset' = IF c.does # "set" /\ old.quantity # c.copy.quantity THEN upset \cup {c.row.sku} ELSE upset
        /\ call' = [call EXCEPT ![p] = Idle] \/ call' = [call EXCEPT ![p] = Tell("ADD_TO_CART", Idle)]
    BY DEF UpdateLine, At, Continue
  <1>2. PICK next : /\ call' = [call EXCEPT ![p] = next] /\ next.step \notin {"insert", "update"}
                    /\ Debt(next) = Nothing
    <2>1. /\ Idle.step = "none" /\ Tell("ADD_TO_CART", Idle).step = "event"
          /\ Debt(Idle) = Nothing /\ Debt(Tell("ADD_TO_CART", Idle)) = Nothing
      BY DEF Debt, Idle, Tell
    <2> QED
      BY <1>1, <2>1
  <1>3. Debt(c) = Nothing
    BY <1>1 DEF Debt
  <1>4. /\ c.does \in {"add", "set", "select"} /\ c.copy \in Line /\ c.row \in Line
        /\ c.does = "select" => c.row.quantity = c.copy.quantity
    BY <1>1 DEF CartInv, Typed, CallsOK, Sound
  <1>5. CartOK /\ CartOK' /\ CallsOK /\ CallsOK' /\ serial \in Nat /\ due \in [SKUs -> Int]
    BY DEF CartInv, Typed, CartOK, UnitsOK
  <1>6. i \in DOMAIN cart /\ old \in Line /\ old.sku = c.row.sku /\ c.row.sku \in SKUs
    BY <1>1, <1>4, <1>5 DEF CartInv, IdsStand, At, CartOK, Line
  <1>7. c.row.quantity \in Nat /\ c.copy.quantity \in Nat /\ old.quantity \in Nat
    BY <1>4, <1>6 DEF Line
  <1>8. Change(c, old) = IF c.does = "add" THEN c.row.quantity - c.copy.quantity
                         ELSE IF c.does = "set" THEN c.row.quantity - old.quantity ELSE 0
    BY <1>4 DEF Change
  <1>9. /\ DOMAIN cart' = DOMAIN cart /\ cart'[i] = c.row
        /\ \A j \in DOMAIN cart \ {i} : cart'[j] = cart[j]
    BY <1>1, <1>6
  <1>10. FewLines'
    <2>1. \A s \in SKUs : Lines(s)' \subseteq Lines(s)
      BY <1>6, <1>9 DEF Lines
    <2>2. \A s \in SKUs : Inserting(s)' \subseteq Inserting(s)
      BY <1>2, NobodyInserts DEF CartInv
    <2> QED
      BY <1>1, <1>5, <2>1, <2>2, FewerLines DEF CartInv
  <1>11. IdsStand'
    <2>1. \A j \in DOMAIN cart' : j <= serial => j \in DOMAIN cart /\ cart'[j].sku = cart[j].sku
      BY <1>6, <1>9
    <2>2. serial <= serial'
      BY <1>1, <1>5
    <2>3. next.step # "update"
      BY <1>2
    <2> QED
      BY <1>2, <2>1, <2>2, <2>3, IdsGoOn DEF CartInv
  <1>12. OrdersAreFinite' /\ \A s \in SKUs : Ordered(s)' = Ordered(s)
    BY <1>1, OrdersStay DEF CartInv
  <1>13. Balanced'
    <2>1. SUFFICES ASSUME NEW s \in SKUs, s \notin upset'
                   PROVE  Units(cart', s) + Ordered(s)' = due'[s] + OwedOf(s)'
      BY DEF Balanced, Units, Quantity, Total, Each
    <2>2. Units(cart, s) + Ordered(s) = due[s] + OwedOf(s)
      BY <1>1, <2>1 DEF CartInv, Balanced
    <2>3. OwedOf(s)' = OwedOf(s) /\ OwedOf(s) \in Nat
      <3>1. OwedOf(s) \in Nat /\ OwedOf(s)' = OwedOf(s) - Debt(call[p])[s] + Debt(next)[s]
        BY <1>2, <1>5, OwedGoesOn
      <3>2. Debt(call[p])[s] = 0 /\ Debt(next)[s] = 0
        BY <1>2, <1>3 DEF Nothing
      <3> QED
        BY <3>1, <3>2
    <2>4. CartUpTo(serial, cart)
      BY <1>5 DEF CartOK, CartUpTo
    <2>5. cart'[i] \in Line /\ cart'[i].sku = cart[i].sku
      BY <1>4, <1>6, <1>9
    <2>6. /\ old.sku = s => Units(cart', s) = Units(cart, s) - old.quantity + c.row.quantity
          /\ old.sku # s => Units(cart', s) = Units(cart, s)
      <3>1. /\ cart'[i].sku = s => Units(cart', s) = Units(cart, s) - cart[i].quantity + cart'[i].quantity
            /\ cart'[i].sku # s => Units(cart', s) = Units(cart, s)
        BY <1>6, <1>9, <2>4, <2>5, UnitsWithChange
      <3> QED
        BY <1>9, <2>5, <3>1
    <2>7. /\ old.sku = s => due'[s] = due[s] + Change(c, old)
          /\ old.sku # s => due'[s] = due[s]
      BY <1>1, <1>5, <1>6
    <2>8. Units(cart, s) \in Nat /\ Ordered(s) \in Nat /\ due[s] \in Int
      BY <1>5, <2>4, QuantityIsFinite, TotalType DEF CartInv, OrdersAreFinite, Ordered
    <2>9. ASSUME old.sku = s PROVE Change(c, old) = c.row.quantity - old.quantity
      <3>1. c.does = "set" \/ old.quantity = c.copy.quantity
        BY <1>1, <1>6, <2>1, <2>9
      <3> QED
        BY <1>4, <1>7, <1>8, <3>1
    <2> HIDE DEF c, i, old
    <2> QED
      BY <1>7, <1>12, <2>2, <2>3, <2>6, <2>7, <2>8, <2>9
  <1> QED
    BY <1>10, <1>11, <1>12, <1>13 DEF CartInv

LEMMA CartDeletes ==
  ASSUME CartInv, Typed', NEW p \in Callers, NEW i \in DOMAIN cart, DeleteCartItem(p, i)
  PROVE  CartInv'
  <1>1. /\ cart' = Restrict(cart, DOMAIN cart \ {i}) /\ call[p].step = "none"
        /\ due' = [due EXCEPT ![cart[i].sku] = @ - cart[i].quantity]
        /\ UNCHANGED <<serial, orders, call, upset, faults>>
    BY DEF DeleteCartItem, Busy
  <1>2. CartOK /\ CartOK' /\ CallsOK /\ CallsOK' /\ serial \in Nat /\ due \in [SKUs -> Int]
    BY DEF CartInv, Typed, CartOK, UnitsOK
  <1>4. cart[i] \in Line /\ cart[i].sku \in SKUs /\ cart[i].quantity \in Nat
    BY <1>2 DEF CartOK, Line
  <1>5. DOMAIN cart' = DOMAIN cart \ {i} /\ \A j \in DOMAIN cart' : cart'[j] = cart[j]
    BY <1>1 DEF Restrict
  <1>6. FewLines'
    <2>1. \A s \in SKUs : Lines(s)' \subseteq Lines(s)
      BY <1>5 DEF Lines
    <2>2. \A s \in SKUs : Inserting(s)' \subseteq Inserting(s)
      BY <1>1 DEF Inserting, At
    <2> QED
      BY <1>1, <1>2, <2>1, <2>2, FewerLines DEF CartInv
  <1>7. IdsStand'
    <2>1. \A j \in DOMAIN cart' : j \in DOMAIN cart /\ cart'[j].sku = cart[j].sku
      BY <1>5
    <2> QED
      BY <1>1, <2>1 DEF CartInv, IdsStand, At
  <1>8. OrdersAreFinite' /\ \A s \in SKUs : Ordered(s)' = Ordered(s)
    BY <1>1, OrdersStay DEF CartInv
  <1>9. Balanced'
    <2>1. SUFFICES ASSUME NEW s \in SKUs, s \notin upset'
                   PROVE  Units(cart', s) + Ordered(s)' = due'[s] + OwedOf(s)'
      BY DEF Balanced, Units, Quantity, Total, Each
    <2>2. Units(cart, s) + Ordered(s) = due[s] + OwedOf(s)
      BY <1>1, <2>1 DEF CartInv, Balanced
    <2>3. OwedOf(s)' = OwedOf(s) /\ OwedOf(s) \in Nat
      BY <1>1, <1>2, OwedStays
    <2>4. CartUpTo(serial, cart) /\ CartUpTo(serial', cart')
      BY <1>2 DEF CartOK, CartUpTo
    <2>5. i \notin DOMAIN cart' /\ DOMAIN cart = DOMAIN cart' \cup {i} /\ \A j \in DOMAIN cart' : cart[j] = cart'[j]
      BY <1>5
    <2>6. /\ cart[i].sku = s => Units(cart, s) = Units(cart', s) + cart[i].quantity
          /\ cart[i].sku # s => Units(cart, s) = Units(cart', s)
      BY <2>4, <2>5, UnitsWithLine
    <2>7. /\ cart[i].sku = s => due'[s] = due[s] - cart[i].quantity
          /\ cart[i].sku # s => due'[s] = due[s]
      BY <1>1, <1>2, <1>4
    <2>8. Units(cart', s) \in Nat /\ Ordered(s) \in Nat /\ due[s] \in Int
      BY <1>2, <2>4, QuantityIsFinite, TotalType DEF CartInv, OrdersAreFinite, Ordered
    <2> QED
      BY <1>4, <1>8, <2>2, <2>3, <2>6, <2>7, <2>8
  <1> QED
    BY <1>6, <1>7, <1>8, <1>9 DEF CartInv

LEMMA CartOrders ==
  ASSUME CartInv, Typed', NEW p \in Callers, PlaceOrder(p), orders[call[p].key] = Nothing,
         orders' = [orders EXCEPT ![call[p].key] = call[p].units],
         Continue(p, Tell("ORDER_CREATE", [step |-> "clear", units |-> call[p].units]))
  PROVE  CartInv'
  <1> DEFINE key == call[p].key
             units == call[p].units
             next == Tell("ORDER_CREATE", [step |-> "clear", units |-> units])
  <1>1. /\ call[p].step = "place" /\ UNCHANGED <<cart, serial, due, upset, faults>>
        /\ call' = [call EXCEPT ![p] = next]
    BY DEF PlaceOrder, At, Continue, rows
  <1>2. key \in Keys /\ units \in [SKUs -> Nat]
    BY <1>1 DEF CartInv, Typed, CallsOK, Sound
  <1>3. next.step = "event" /\ Debt(call[p]) = Nothing /\ Debt(next) = units
    BY <1>1 DEF Debt, Tell, Idle
  <1>4. CartOK /\ CartOK' /\ CallsOK /\ CallsOK' /\ serial \in Nat /\ due \in [SKUs -> Int]
    BY DEF CartInv, Typed, CartOK, UnitsOK
  <1>5. orders[key] = Nothing /\ orders' = [orders EXCEPT ![key] = units]
    OBVIOUS
  <1> HIDE DEF key, units, next
  <1>6. \A s \in SKUs : /\ Ordered(s) \in Nat /\ Ordered(s)' = Ordered(s) + units[s]
                        /\ IsFiniteSet(Each([l \in Keys |-> orders'[l][s]]))
    BY <1>2, <1>5, OrderedGoesOn DEF CartInv
  <1>7. OrdersAreFinite'
    BY <1>6 DEF OrdersAreFinite, Each
  <1>8. FewLines'
    <2>1. \A s \in SKUs : Lines(s)' \subseteq Lines(s)
      BY <1>1 DEF Lines
    <2>2. next.step # "insert"
      BY <1>3
    <2>3. \A s \in SKUs : Inserting(s)' \subseteq Inserting(s)
      BY <1>1, <2>2, NobodyInserts DEF CartInv
    <2> QED
      BY <1>1, <1>4, <2>1, <2>3, FewerLines DEF CartInv
  <1>9. IdsStand'
    <2>1. \A j \in DOMAIN cart' : j <= serial => j \in DOMAIN cart /\ cart'[j].sku = cart[j].sku
      BY <1>1
    <2>2. serial <= serial' /\ next.step # "update"
      BY <1>1, <1>3, <1>4
    <2> QED
      BY <1>1, <2>1, <2>2, IdsGoOn DEF CartInv
  <1>10. Balanced'
    <2>1. SUFFICES ASSUME NEW s \in SKUs, s \notin upset'
                   PROVE  Units(cart', s) + Ordered(s)' = due'[s] + OwedOf(s)'
      BY DEF Balanced, Units, Quantity, Total, Each
    <2>2. Units(cart, s) + Ordered(s) = due[s] + OwedOf(s)
      BY <1>1, <2>1 DEF CartInv, Balanced
    <2>3. /\ OwedOf(s) \in Nat
          /\ OwedOf(s)' = OwedOf(s) - Debt(call[p])[s] + Debt(next)[s]
      BY <1>1, <1>4, OwedGoesOn
    <2>4. OwedOf(s)' = OwedOf(s) + units[s] /\ units[s] \in Nat
      <3>1. Debt(call[p])[s] = 0 /\ Debt(next)[s] = units[s] /\ units[s] \in Nat
        BY <1>2, <1>3 DEF Nothing
      <3> QED
        BY <2>3, <3>1
    <2>5. CartUpTo(serial, cart)
      BY <1>4 DEF CartOK, CartUpTo
    <2>6. Units(cart, s) \in Nat /\ due[s] \in Int
      BY <1>4, <2>5, QuantityIsFinite
    <2>7. Units(cart', s) = Units(cart, s) /\ due'[s] = due[s]
      BY <1>1
    <2>8. Ordered(s) \in Nat /\ Ordered(s)' = Ordered(s) + units[s]
      BY <1>6
    <2> QED
      BY <2>2, <2>3, <2>4, <2>6, <2>7, <2>8
  <1> QED
    BY <1>7, <1>8, <1>9, <1>10 DEF CartInv

LEMMA CartClears ==
  ASSUME CartInv, Typed', NEW p \in Callers, DeleteSelectedCartItems(p)
  PROVE  CartInv'
  <1> DEFINE units == call[p].units
             part == Restrict(cart, Selected(cart))
  <1>1. /\ call[p].step = "clear" /\ cart' = Restrict(cart, DOMAIN cart \ Selected(cart))
        /\ upset' = upset \cup {s \in SKUs : Picked(cart)[s] # units[s]}
        /\ call' = [call EXCEPT ![p] = Idle] /\ UNCHANGED <<serial, orders, due, faults>>
    BY DEF DeleteSelectedCartItems, At, Continue
  <1>2. units \in [SKUs -> Nat] /\ Debt(call[p]) = units /\ Debt(Idle) = Nothing
        /\ Idle.step # "insert" /\ Idle.step # "update"
    BY <1>1 DEF CartInv, Typed, CallsOK, Sound, Clearing, Debt, Idle
  <1>3. CartOK /\ CartOK' /\ CallsOK /\ CallsOK' /\ serial \in Nat /\ due \in [SKUs -> Int]
    BY DEF CartInv, Typed, CartOK, UnitsOK
  <1>4. DOMAIN cart' = DOMAIN cart \ Selected(cart) /\ \A j \in DOMAIN cart' : cart'[j] = cart[j]
    BY <1>1 DEF Restrict
  <1>5. /\ Selected(cart) \in SUBSET DOMAIN cart /\ DOMAIN part = Selected(cart)
        /\ \A j \in Selected(cart) : part[j] = cart[j]
    BY DEF Selected, Restrict
  <1>6. \A s \in SKUs : Picked(cart)[s] = Units(part, s)
    BY DEF Picked
  <1> HIDE DEF units, part
  <1>7. FewLines'
    <2>1. \A s \in SKUs : Lines(s)' \subseteq Lines(s)
      BY <1>4 DEF Lines
    <2>2. \A s \in SKUs : Inserting(s)' \subseteq Inserting(s)
      BY <1>1, <1>2, NobodyInserts DEF CartInv
    <2> QED
      BY <1>1, <1>3, <2>1, <2>2, FewerLines DEF CartInv
  <1>8. IdsStand'
    <2>1. \A j \in DOMAIN cart' : j <= serial => j \in DOMAIN cart /\ cart'[j].sku = cart[j].sku
      BY <1>4
    <2>2. serial <= serial'
      BY <1>1, <1>3
    <2> QED
      BY <1>1, <1>2, <2>1, <2>2, IdsGoOn DEF CartInv
  <1>9. OrdersAreFinite' /\ \A s \in SKUs : Ordered(s)' = Ordered(s)
    BY <1>1, OrdersStay DEF CartInv
  <1>10. Balanced'
    <2>1. SUFFICES ASSUME NEW s \in SKUs, s \notin upset'
                   PROVE  Units(cart', s) + Ordered(s)' = due'[s] + OwedOf(s)'
      BY DEF Balanced, Units, Quantity, Total, Each
    <2>2. Units(cart, s) + Ordered(s) = due[s] + OwedOf(s) /\ Picked(cart)[s] = units[s]
      BY <1>1, <2>1 DEF CartInv, Balanced
    <2>3. OwedOf(s) \in Nat /\ OwedOf(s)' = OwedOf(s) - Debt(call[p])[s] + Debt(Idle)[s]
      BY <1>1, <1>3, OwedGoesOn
    <2>4. OwedOf(s)' = OwedOf(s) - units[s] /\ units[s] \in Nat
      BY <1>2, <2>3 DEF Nothing
    <2>5. CartUpTo(serial, cart) /\ CartUpTo(serial', cart')
      BY <1>3 DEF CartOK, CartUpTo
    <2>6. Units(cart, s) = Units(cart', s) + Units(part, s)
      BY <1>4, <1>5, <2>5, UnitsWithoutLines
    <2>7. Units(cart', s) \in Nat /\ Ordered(s) \in Nat /\ due[s] \in Int
      BY <1>3, <2>5, QuantityIsFinite, TotalType DEF CartInv, OrdersAreFinite, Ordered
    <2>8. due' = due /\ Units(part, s) = units[s]
      BY <1>1, <1>6, <2>2
    <2> QED
      BY <1>9, <2>2, <2>3, <2>4, <2>6, <2>7, <2>8
  <1> QED
    BY <1>7, <1>8, <1>9, <1>10 DEF CartInv

LEMMA CartStep == CartInv /\ [Next]_vars => CartInv'
  <1> SUFFICES ASSUME CartInv, [Next]_vars PROVE CartInv'
    OBVIOUS
  <1>1. Typed'
    BY TypedStep DEF CartInv
  <1>2. CASE UNCHANGED vars
    <2>1. FewLines' /\ IdsStand'
      BY <1>2 DEF CartInv, FewLines, Lines, Inserting, IdsStand, At, vars, rows
    <2>2. OrdersAreFinite'
      BY <1>2, OrdersStay DEF CartInv, vars
    <2>3. Balanced'
      <3>1. SUFFICES ASSUME NEW s \in SKUs, s \notin upset'
                     PROVE  Units(cart', s) + Ordered(s)' = due'[s] + OwedOf(s)'
        BY DEF Balanced, Units, Quantity, Total, Each
      <3>2. Units(cart, s) + Ordered(s) = due[s] + OwedOf(s)
        BY <1>2, <3>1 DEF CartInv, Balanced, vars, history
      <3>3. Ordered(s)' = Ordered(s) /\ OwedOf(s)' = OwedOf(s)
        BY <1>2, OrdersStay, OwedStays DEF CartInv, Typed, vars
      <3>4. cart' = cart /\ due' = due
        BY <1>2 DEF vars, rows, history
      <3> QED
        BY <3>2, <3>3, <3>4
    <2> QED
      BY <1>1, <2>1, <2>2, <2>3 DEF CartInv
  <1>3. ASSUME NEW p \in Callers, UpdateLine(p) PROVE CartInv'
    <2>1. CASE call[p].id \in DOMAIN cart
      BY <1>1, <1>3, <2>1, CartUpdates
    <2>2. CASE call[p].id \notin DOMAIN cart
      <3>1. UNCHANGED <<cart, due, done, upset>> /\ Continue(p, Idle)
        BY <1>3, <2>2 DEF UpdateLine
      <3> QED
        BY <1>1, <1>3, <3>1, CartGoesPast
    <2> QED
      BY <2>1, <2>2
  <1>4. ASSUME NEW p \in Callers, PlaceOrder(p) PROVE CartInv'
    <2>1. \/ /\ orders[call[p].key] = Nothing /\ orders' = [orders EXCEPT ![call[p].key] = call[p].units]
             /\ Continue(p, Tell("ORDER_CREATE", [step |-> "clear", units |-> call[p].units]))
          \/ Continue(p, Idle) /\ UNCHANGED <<orders, done>>
      BY <1>4 DEF PlaceOrder
    <2> QED
      BY <1>1, <1>4, <2>1, CartOrders, CartGoesPast
  <1>5. ASSUME NEW p \in Callers, GoesOn(p) \/ Fail(p) PROVE CartInv'
    BY <1>1, <1>3, <1>4, <1>5, CartGoesPast, CartInserts, CartClears DEF GoesOn
  <1> QED
    BY <1>1, <1>2, <1>5, NextIsOf, CartStarts, CartDeletes

LEMMA CartInit == Init => CartInv
  <1> SUFFICES ASSUME Init PROVE CartInv
    OBVIOUS
  <1>1. Typed
    BY TypedInit
  <1>2. FewLines
    <2>1. SUFFICES ASSUME NEW s \in SKUs
                   PROVE  Cardinality(Lines(s)) + Cardinality(Inserting(s)) <= Cardinality(Callers) + faults
      BY DEF FewLines
    <2>2. Lines(s) = {} /\ Inserting(s) = {} /\ faults = 0
      BY DEF Init, Lines, Inserting, At, Idle
    <2>3. Cardinality({}) = 0 /\ Cardinality(Callers) \in Nat
      BY StorefrontAssumption, FS_EmptySet, FS_CardinalityType
    <2> QED
      BY <2>2, <2>3
  <1>3. IdsStand
    BY DEF Init, IdsStand, At, Idle
  <1>4. \A s \in SKUs : IsFiniteSet(Each([k \in Keys |-> orders[k][s]])) /\ Ordered(s) = 0
    <2>1. ASSUME NEW s \in SKUs
          PROVE  IsFiniteSet(Each([k \in Keys |-> orders[k][s]])) /\ Total([k \in Keys |-> orders[k][s]]) = 0
      <3> DEFINE f == [k \in Keys |-> orders[k][s]]
      <3>1. \A k \in DOMAIN f : f[k] = 0
        BY DEF Init, Nothing
      <3> HIDE DEF f
      <3>2. IsFiniteSet(Each(f)) /\ Total(f) = 0
        BY <3>1, TotalOfNothing
      <3> QED
        BY <3>2 DEF f
    <2> QED
      BY <2>1 DEF Ordered
  <1>5. Balanced
    <2>1. SUFFICES ASSUME NEW s \in SKUs PROVE Units(cart, s) + Ordered(s) = due[s] + OwedOf(s)
      BY DEF Balanced
    <2>2. Units(cart, s) = 0
      <3> DEFINE f == Quantity(cart, s)
      <3>1. \A i \in DOMAIN f : f[i] = 0
        BY DEF Init, Quantity
      <3> HIDE DEF f
      <3>2. Total(f) = 0
        BY <3>1, TotalOfNothing
      <3> QED
        BY <3>2 DEF f, Units
    <2>3. OwedOf(s) = 0
      <3> DEFINE f == [q \in Callers |-> Owed(q)[s]]
      <3>1. \A q \in DOMAIN f : f[q] = 0
        BY OwedIsDebt DEF Init, Debt, Idle, Nothing
      <3> HIDE DEF f
      <3>2. Total(f) = 0
        BY <3>1, TotalOfNothing
      <3> QED
        BY <3>2 DEF f, OwedOf
    <2> QED
      BY <1>4, <2>2, <2>3 DEF Init, Nothing
  <1> QED
    BY <1>1, <1>2, <1>3, <1>4, <1>5 DEF CartInv, OrdersAreFinite

LEMMA CartTells == CartInv => CartIsKept
  <1> SUFFICES ASSUME CartInv PROVE CartIsKept
    OBVIOUS
  <1>1. ASSUME NEW s \in SKUs PROVE Cardinality(Lines(s)) <= Cardinality(Callers) + faults
    <2>1. /\ Cardinality(Lines(s)) \in Nat /\ Cardinality(Inserting(s)) \in Nat
          /\ Cardinality(Callers) \in Nat /\ faults \in Nat
      BY LinesAreFinite, InsertingIsFinite, StorefrontAssumption DEF CartInv, Typed, CountsOK
    <2>2. Cardinality(Lines(s)) + Cardinality(Inserting(s)) <= Cardinality(Callers) + faults
      BY DEF CartInv, FewLines
    <2> QED
      BY <2>1, <2>2
  <1> QED
    BY <1>1 DEF CartIsKept, CartInv, Balanced

\* Whatever requests run side by side, a unit that the consumer put in is in the
\* cart or in an order, once, but for the SKUs that upset writes down; and a SKU
\* has no more lines than there are requests at a time and failures.
THEOREM CartTheorem == Spec => []CartIsKept
  BY CartInit, CartStep, CartTells, PTL DEF Spec
=============================================================================
