---------------------------- MODULE Sessions_proofs ----------------------------
(***************************************************************************)
(* Sessions end, and shops are known, for any callers, instances, tokens   *)
(* and lives.                                                              *)
(*                                                                         *)
(* None of the properties is inductive.  What an instance remembers of a   *)
(* deleted token can come from a call that had read its record before, so  *)
(* the invariants speak of the accesses the calls have still before them:  *)
(* that they are in order (CallsInv), whose pairs they make (PairsInv),    *)
(* and what they will write (RevocationInv, QuietInv, ShopInv).            *)
(***************************************************************************)
EXTENDS SessionProperties, FiniteSetTheorems, SequenceTheorems, TLAPS

-----------------------------------------------------------------------------
(* The invariants *)

\* The accesses to a token, those that look it up, and those that use the shop.
Lookups == {"get", "save_local", "save_negative"}
OfToken == Lookups \cup {"drop_local", "drop_both", "find", "delete", "delete_both"}
Uses == {"save_shop", "fill_shop", "save_pair"}

\* A call looks its token up before everything else, and reads the shop at most
\* once and before it uses it.
InOrder(todo) ==
  /\ \A k \in DOMAIN todo : todo[k].what \in Lookups => k = 1
  /\ \A j, k \in DOMAIN todo :
       todo[j].what = "read_owner" /\ todo[k].what = "read_owner" => j = k
  /\ \A j, k \in DOMAIN todo :
       todo[j].what \in Uses /\ todo[k].what = "read_owner" => k < j

\* All the accesses to a token are to t.
Of(todo, t) ==
  \A k \in DOMAIN todo : todo[k].what \in OfToken => todo[k].token = t /\ t \in Tokens

Makers == {p \in Callers : Has(call[p].todo, "read_owner")}

CallsInv ==
  /\ \A p \in Callers :
       /\ ~Busy(p) => call[p] = Idle
       /\ Busy(p) => call[p].at \in Instances
       /\ InOrder(call[p].todo)
       /\ Of(call[p].todo, call[p].token)
       /\ call[p].ends => call[p].token \in Tokens
  /\ IsFiniteSet(Makers)
  /\ pairs + Cardinality(Makers) <= MaxPairs

\* Calls make different pairs, and nobody has the tokens of one before its call
\* is over.
PairsInv ==
  /\ given \subseteq 1 .. pairs
  /\ \A p \in Callers :
       /\ call[p].pair \in 0 .. pairs
       /\ call[p].pair \notin given
       /\ call[p].token \in Tokens => PairOf(call[p].token) \in given
       /\ Has(call[p].todo, "save_pair") => Has(call[p].todo, "read_owner") \/ call[p].pair # 0
  /\ \A p, q \in Callers : call[p].pair = call[q].pair => p = q \/ call[p].pair = 0
  /\ \A t \in Tokens : gone[t] >= 0 => PairOf(t) \in given /\ redis[t] < 0

RevocationInv ==
  /\ \A i \in Instances, t \in Tokens : local[i][t].found =>
       /\ local[i][t].left >= 0
       /\ gone[t] + local[i][t].left <= Grace(t)
  /\ \A p \in Callers :
       Has(call[p].todo, "save_local") => gone[call[p].token] <= call[p].ticks

\* What a call has still to do before its pair has ended.
Ending(c) ==
  \A t \in Tokens : PairOf(t) = PairOf(c.token) =>
    /\ Has(c.todo, "delete_both") \/ gone[t] >= 0
    /\ Has(c.todo, "drop_both") \/ ~Honoured(c.at, t)

QuietInv ==
  /\ \A p, q \in Callers : call[p].quiet /\ Busy(q) => q = p
  /\ \A p \in Callers : call[p].ends =>
       /\ ~Has(call[p].todo, "get") /\ ~Has(call[p].todo, "save_local")
       /\ call[p].quiet => Ending(call[p])
  /\ \A p \in Callers : call[p].ends \/ Has(call[p].todo, "find") =>
       /\ ~Has(call[p].todo, "create_shop")
       /\ call[p].quiet => ~Has(call[p].todo, "load_shop")
  /\ \A i \in Instances, t \in Tokens : PairOf(t) \in ended[i] =>
       /\ gone[t] >= 0 /\ ~Honoured(i, t)
       /\ \A p \in Callers :
            call[p].at = i /\ call[p].token = t => ~Has(call[p].todo, "save_local")

ShopInv ==
  ~misled =>
    /\ \A i \in Instances : shops[i] # "none"
    /\ \A t \in Tokens : redis[t] >= 0 => record[PairOf(t)] = "shop"
    /\ \A p \in Callers :
         /\ Has(call[p].todo, "save_local") => call[p].shop = "shop"
         /\ \A what \in Uses : Has(call[p].todo, what) =>
              call[p].shop = "shop" \/ Has(call[p].todo, "read_owner")
    /\ account # "merchant" =>
         /\ given = {}
         /\ \A p \in Callers : Busy(p) => Todo(p).what = "create_shop" /\ call[p].pair = 0

-----------------------------------------------------------------------------
(* Tokens and their pairs *)

LEMMA PairFacts ==
  /\ Tokens \subseteq Nat /\ MaxPairs \in Nat
  /\ \A t \in Tokens : PairOf(t) \in Pairs /\ Life(t) \in Nat /\ Grace(t) \in Nat
                       /\ (t = Access(PairOf(t)) \/ t = Refresh(PairOf(t)))
  /\ \A n \in Pairs : {Access(n), Refresh(n)} \subseteq Tokens
                      /\ PairOf(Access(n)) = n /\ PairOf(Refresh(n)) = n
  <1>1. {AccessTTL, RefreshTTL, CallTime, MaxPairs} \subseteq Nat
    BY SessionAssumption
  <1>2. ASSUME NEW t \in Tokens PROVE PairOf(t) \in Pairs /\ (t = Access(PairOf(t)) \/ t = Refresh(PairOf(t)))
    BY <1>1 DEF PairOf, Tokens, Pairs, Access, Refresh
  <1>3. ASSUME NEW t \in Tokens PROVE Life(t) \in Nat /\ Grace(t) \in Nat
    BY <1>1 DEF Life, Grace
  <1>4. ASSUME NEW n \in Pairs
        PROVE  {Access(n), Refresh(n)} \subseteq Tokens /\ PairOf(Access(n)) = n /\ PairOf(Refresh(n)) = n
    BY <1>1 DEF PairOf, Tokens, Pairs, Access, Refresh
  <1> QED
    BY <1>1, <1>2, <1>3, <1>4 DEF Tokens

-----------------------------------------------------------------------------
(* Lists of accesses *)

LEMMA NothingIs ==
  ASSUME NEW u
  PROVE  << >> \in Seq(Accesses) /\ (\A w : ~Has(<< >>, w)) /\ InOrder(<< >>) /\ Of(<< >>, u)
  BY DEF Has, InOrder, Of

LEMMA DoIs ==
  ASSUME NEW what \in Whats, NEW t \in Tokens \cup {None}, NEW u
  PROVE  /\ Do(what, t) \in Seq(Accesses) /\ Do(what, t) # << >>
         /\ \A w : Has(Do(what, t), w) <=> w = what
         /\ InOrder(Do(what, t))
         /\ (what \in OfToken => t = u /\ t \in Tokens) => Of(Do(what, t), u)
  BY DEF Do, Has, InOrder, Of, Accesses, Uses

\* What the rest of a list has.
LEMMA TailHas ==
  ASSUME NEW todo \in Seq(Accesses), todo # << >>
  PROVE  /\ Head(todo) \in Accesses /\ Tail(todo) \in Seq(Accesses)
         /\ \A w : Has(todo, w) <=> Head(todo).what = w \/ Has(Tail(todo), w)
  <1>1. /\ Head(todo) = todo[1] /\ Head(todo) \in Accesses
        /\ Tail(todo) \in Seq(Accesses) /\ Len(todo) \in Nat \ {0} /\ Len(Tail(todo)) = Len(todo) - 1
        /\ DOMAIN todo = 1 .. Len(todo) /\ DOMAIN Tail(todo) = 1 .. Len(todo) - 1
        /\ \A k \in 1 .. Len(todo) - 1 : Tail(todo)[k] = todo[k + 1]
    OBVIOUS
  <1>2. ASSUME NEW w, Has(todo, w), Head(todo).what # w PROVE Has(Tail(todo), w)
    <2>1. PICK k \in DOMAIN todo : todo[k].what = w
      BY <1>2 DEF Has
    <2>2. k # 1 /\ k - 1 \in 1 .. Len(todo) - 1
      BY <1>1, <1>2, <2>1
    <2>3. Tail(todo)[k - 1] = todo[k]
      BY <1>1, <2>2
    <2> QED
      BY <1>1, <2>1, <2>2, <2>3 DEF Has
  <1>3. ASSUME NEW w, Has(Tail(todo), w) PROVE Has(todo, w)
    <2>1. PICK k \in 1 .. Len(todo) - 1 : Tail(todo)[k].what = w
      BY <1>1, <1>3 DEF Has
    <2>2. k + 1 \in DOMAIN todo /\ Tail(todo)[k] = todo[k + 1]
      BY <1>1
    <2> QED
      BY <2>1, <2>2 DEF Has
  <1>4. ASSUME NEW w, Head(todo).what = w PROVE Has(todo, w)
    <2>1. 1 \in DOMAIN todo
      BY <1>1
    <2> QED
      BY <1>1, <1>4, <2>1 DEF Has
  <1> QED
    BY <1>1, <1>2, <1>3, <1>4

LEMMA TailInOrder ==
  ASSUME NEW todo \in Seq(Accesses), todo # << >>, InOrder(todo)
  PROVE  /\ InOrder(Tail(todo))
         /\ \A w \in Lookups : ~Has(Tail(todo), w)
         /\ Head(todo).what \in Uses \cup {"read_owner"} => ~Has(Tail(todo), "read_owner")
  <1>1. /\ Head(todo) = todo[1] /\ Len(todo) \in Nat \ {0}
        /\ DOMAIN todo = 1 .. Len(todo) /\ DOMAIN Tail(todo) = 1 .. Len(todo) - 1
        /\ \A k \in 1 .. Len(todo) - 1 : Tail(todo)[k] = todo[k + 1]
    OBVIOUS
  <1>2. \A k \in DOMAIN Tail(todo) : k \in Nat /\ k + 1 \in DOMAIN todo /\ Tail(todo)[k] = todo[k + 1]
    BY <1>1
  <1>3. \A k \in DOMAIN Tail(todo) : Tail(todo)[k].what \notin Lookups
    <2> TAKE k \in DOMAIN Tail(todo)
    <2>1. k + 1 # 1 /\ k \in 1 .. Len(todo) - 1
      BY <1>1
    <2> QED
      BY <1>2, <2>1 DEF InOrder
  <1>4. ASSUME NEW j \in DOMAIN Tail(todo), NEW k \in DOMAIN Tail(todo), Tail(todo)[k].what = "read_owner"
        PROVE  /\ Tail(todo)[j].what = "read_owner" => j = k
               /\ Tail(todo)[j].what \in Uses => k < j
    <2>1. /\ j + 1 \in DOMAIN todo /\ k + 1 \in DOMAIN todo /\ j \in Nat /\ k \in Nat
          /\ Tail(todo)[j] = todo[j + 1] /\ Tail(todo)[k] = todo[k + 1]
      BY <1>2
    <2>2. todo[j + 1].what = "read_owner" => j + 1 = k + 1
      BY <1>4, <2>1 DEF InOrder
    <2>3. todo[j + 1].what \in Uses => k + 1 < j + 1
      BY <1>4, <2>1 DEF InOrder
    <2> QED
      BY <2>1, <2>2, <2>3
  <1>5. ASSUME Head(todo).what \in Uses \cup {"read_owner"}, NEW k \in DOMAIN Tail(todo),
               Tail(todo)[k].what = "read_owner"
        PROVE  FALSE
    <2>1. k + 1 \in DOMAIN todo /\ 1 \in DOMAIN todo /\ k \in 1 .. Len(todo) - 1 /\ todo[k + 1].what = "read_owner"
      BY <1>1, <1>2, <1>5
    <2>2. todo[1].what \in Uses => k + 1 < 1
      BY <2>1 DEF InOrder
    <2>3. todo[1].what = "read_owner" => k + 1 = 1
      BY <2>1 DEF InOrder
    <2> QED
      BY <1>1, <1>5, <2>1, <2>2, <2>3
  <1> QED
    BY <1>3, <1>4, <1>5 DEF InOrder, Has

LEMMA TailOf ==
  ASSUME NEW todo \in Seq(Accesses), todo # << >>, NEW t, Of(todo, t)
  PROVE  Of(Tail(todo), t) /\ (Head(todo).what \in OfToken => Head(todo).token = t /\ t \in Tokens)
  <1>1. /\ Head(todo) = todo[1] /\ 1 \in DOMAIN todo
        /\ \A k \in DOMAIN Tail(todo) : k + 1 \in DOMAIN todo /\ Tail(todo)[k] = todo[k + 1]
    OBVIOUS
  <1> QED
    BY <1>1 DEF Of

\* One more access before a list.
LEMMA DoMore ==
  ASSUME NEW what \in Whats, NEW t \in Tokens \cup {None}, NEW todo \in Seq(Accesses), NEW u
  PROVE  /\ Do(what, t) \o todo \in Seq(Accesses) /\ Do(what, t) \o todo # << >>
         /\ Head(Do(what, t) \o todo) = [what |-> what, token |-> t]
         /\ Tail(Do(what, t) \o todo) = todo
         /\ \A w : Has(Do(what, t) \o todo, w) <=> w = what \/ Has(todo, w)
         /\ (InOrder(todo) /\ (\A w \in Lookups : ~Has(todo, w))
             /\ (what \in Uses \cup {"read_owner"} => ~Has(todo, "read_owner")))
            => InOrder(Do(what, t) \o todo)
         /\ Of(todo, u) /\ (what \in OfToken => t = u /\ t \in Tokens) => Of(Do(what, t) \o todo, u)
  <1> DEFINE more == Do(what, t) \o todo
  <1>1. /\ more \in Seq(Accesses) /\ Len(todo) \in Nat /\ Len(more) = Len(todo) + 1
        /\ DOMAIN more = 1 .. Len(todo) + 1 /\ DOMAIN todo = 1 .. Len(todo)
        /\ more[1] = [what |-> what, token |-> t]
        /\ \A k \in 1 .. Len(todo) : more[k + 1] = todo[k]
    BY DEF Do, Accesses
  <1>2. more # << >>
    BY <1>1
  <1>3. Head(more) = more[1] /\ Tail(more) = todo
    <2>1. Len(Tail(more)) = Len(todo) /\ Tail(more) \in Seq(Accesses)
      BY <1>1, <1>2
    <2>2. \A k \in 1 .. Len(todo) : Tail(more)[k] = todo[k]
      BY <1>1, <1>2
    <2> QED
      BY <1>1, <1>2, <2>1, <2>2
  <1>4. \A w : Has(more, w) <=> w = what \/ Has(todo, w)
    <2>1. more \in Seq(Accesses) /\ more # << >>
      BY <1>1, <1>2
    <2> HIDE DEF more
    <2> TAKE w
    <2>2. Has(more, w) <=> Head(more).what = w \/ Has(Tail(more), w)
      BY <2>1, TailHas, Zenon
    <2>3. Head(more).what = what
      BY <1>1, <1>3
    <2> QED
      BY <1>3, <2>2, <2>3, Zenon
  <1>5. \A k \in DOMAIN more : k # 1 => k - 1 \in DOMAIN todo /\ more[k] = todo[k - 1] /\ k \in Nat
    <2> HIDE DEF more
    <2> TAKE k \in DOMAIN more
    <2> HAVE k # 1
    <2>1. k \in Nat /\ k - 1 \in 1 .. Len(todo) /\ (k - 1) + 1 = k
      BY <1>1
    <2> QED
      BY <1>1, <2>1
  <1> HIDE DEF more
  <1>6. ASSUME InOrder(todo), \A w \in Lookups : ~Has(todo, w),
               what \in Uses \cup {"read_owner"} => ~Has(todo, "read_owner")
        PROVE  InOrder(more)
    <2>1. ASSUME NEW k \in DOMAIN more, more[k].what \in Lookups PROVE k = 1
      BY <1>5, <1>6, <2>1 DEF Has
    <2>2. ASSUME NEW j \in DOMAIN more, NEW k \in DOMAIN more, more[k].what = "read_owner",
                 more[j].what \in Uses \cup {"read_owner"}
          PROVE  /\ more[j].what = "read_owner" => j = k
                 /\ more[j].what \in Uses => k < j
      <3>1. CASE j = 1
        <4>1. k = 1
          BY <1>1, <1>5, <1>6, <2>2, <3>1 DEF Has
        <4> QED
          BY <2>2, <3>1, <4>1 DEF Uses
      <3>2. CASE j # 1 /\ k = 1
        <4>1. what = "read_owner" /\ ~Has(todo, "read_owner")
          BY <1>1, <1>6, <2>2, <3>2
        <4>2. j \in Nat /\ j > 1
          BY <1>1, <3>2
        <4> QED
          BY <1>5, <3>2, <4>1, <4>2 DEF Has
      <3>3. CASE j # 1 /\ k # 1
        <4>1. /\ j - 1 \in DOMAIN todo /\ more[j] = todo[j - 1] /\ j \in Nat
              /\ k - 1 \in DOMAIN todo /\ more[k] = todo[k - 1] /\ k \in Nat
          BY <1>5, <3>3
        <4>2. todo[j - 1].what = "read_owner" => j - 1 = k - 1
          BY <1>6, <2>2, <4>1 DEF InOrder
        <4>3. todo[j - 1].what \in Uses => k - 1 < j - 1
          BY <1>6, <2>2, <4>1 DEF InOrder
        <4> QED
          BY <4>1, <4>2, <4>3
      <3> QED
        BY <3>1, <3>2, <3>3
    <2> QED
      BY <2>1, <2>2 DEF InOrder, Uses
  <1>7. ASSUME Of(todo, u), what \in OfToken => t = u /\ t \in Tokens PROVE Of(more, u)
    <2>1. ASSUME NEW k \in DOMAIN more, k # 1, more[k].what \in OfToken
          PROVE  more[k].token = u /\ u \in Tokens
      BY <1>5, <1>7, <2>1, Zenon DEF Of
    <2>2. more[1].what = what /\ more[1].token = t
      BY <1>1
    <2> QED
      BY <1>7, <2>1, <2>2, Zenon DEF Of
  <1>8. Head(more) = [what |-> what, token |-> t] /\ Tail(more) = todo
    BY <1>1, <1>3
  <1>9. more \in Seq(Accesses) /\ more # << >>
    BY <1>1, <1>2
  <1>10. Head(more).what = what /\ Head(more).token = t
    BY <1>8
  <1> QED
    BY <1>4, <1>6, <1>7, <1>8, <1>9, <1>10, Zenon DEF more

LEMMA Regroup ==
  ASSUME NEW a \in Seq(Accesses), NEW b \in Seq(Accesses), NEW c \in Seq(Accesses)
  PROVE  (a \o b) \o c = a \o (b \o c)
  BY ConcatAssociative

LEMMA IssueIs ==
  ASSUME NEW u
  PROVE  /\ Issue \in Seq(Accesses) /\ Issue # << >> /\ Head(Issue).what = "read_owner"
         /\ \A w : Has(Issue, w) <=> w \in {"read_owner", "save_shop", "save_pair"}
         /\ InOrder(Issue) /\ Of(Issue, u)
  <1> DEFINE last == Do("save_pair", None)
             more == Do("save_shop", None) \o last
  <1>1. "read_owner" \in Whats /\ "save_shop" \in Whats /\ "save_pair" \in Whats
    BY DEF Whats
  <1>2. "read_owner" \notin OfToken \cup Lookups /\ "save_shop" \notin OfToken \cup Lookups
        /\ "save_pair" \notin OfToken \cup Lookups
    BY DEF OfToken, Lookups
  <1>3. last \in Seq(Accesses) /\ (\A w : Has(last, w) <=> w = "save_pair") /\ InOrder(last) /\ Of(last, u)
    BY <1>1, <1>2, DoIs
  <1>4. /\ more \in Seq(Accesses)
        /\ \A w : Has(more, w) <=> w = "save_shop" \/ Has(last, w)
        /\ InOrder(more) /\ Of(more, u)
    <2> HIDE DEF last
    <2>1. ~Has(last, "read_owner") /\ \A w \in Lookups : ~Has(last, w)
      BY <1>2, <1>3
    <2> QED
      BY <1>1, <1>2, <1>3, <2>1, DoMore
  <1>5. Issue = Do("read_owner", None) \o more
    <2>1. Do("read_owner", None) \in Seq(Accesses) /\ Do("save_shop", None) \in Seq(Accesses)
      BY <1>1, DoIs
    <2> QED
      BY <1>3, <2>1, Regroup DEF Issue
  <1>6. ~Has(more, "read_owner") /\ \A w \in Lookups : ~Has(more, w)
    BY <1>2, <1>3, <1>4
  <1>7. \A w : Has(more, w) <=> w \in {"save_shop", "save_pair"}
    BY <1>3, <1>4
  <1> HIDE DEF more
  <1> QED
    BY <1>1, <1>2, <1>4, <1>5, <1>6, <1>7, DoMore

\* DeleteSession before something else.
LEMMA DeleteIs ==
  ASSUME NEW t \in Tokens, NEW todo \in Seq(Accesses), InOrder(todo), \A w \in Lookups : ~Has(todo, w),
         Of(todo, t)
  PROVE  /\ Delete(t) \o todo \in Seq(Accesses) /\ Delete(t) \o todo # << >>
         /\ \A w : Has(Delete(t) \o todo, w) <=> w \in {"drop_local", "find"} \/ Has(todo, w)
         /\ InOrder(Delete(t) \o todo) /\ Of(Delete(t) \o todo, t)
  <1> DEFINE more == Do("find", t) \o todo
  <1>1. "drop_local" \in Whats /\ "find" \in Whats
    BY DEF Whats
  <1>2. /\ "drop_local" \notin Lookups \cup Uses \cup {"read_owner"}
        /\ "find" \notin Lookups \cup Uses \cup {"read_owner"}
    BY DEF Uses, Lookups
  <1>3. /\ more \in Seq(Accesses)
        /\ \A w : Has(more, w) <=> w = "find" \/ Has(todo, w)
        /\ InOrder(more) /\ Of(more, t)
    BY <1>1, <1>2, DoMore
  <1>4. Delete(t) \o todo = Do("drop_local", t) \o more
    <2>1. Do("drop_local", t) \in Seq(Accesses) /\ Do("find", t) \in Seq(Accesses)
      BY <1>1, DoIs
    <2>2. (Do("drop_local", t) \o Do("find", t)) \o todo = Do("drop_local", t) \o (Do("find", t) \o todo)
      BY <2>1, Regroup
    <2>3. Delete(t) = Do("drop_local", t) \o Do("find", t)
      BY Zenon DEF Delete
    <2> QED
      BY <2>2, <2>3
  <1> HIDE DEF more
  <1>5. \A w \in Lookups : ~Has(more, w)
    BY <1>2, <1>3
  <1> QED
    BY <1>1, <1>2, <1>3, <1>4, <1>5, DoMore

-----------------------------------------------------------------------------
(* What a step does to the calls *)

\* What caller p has before it and what it knows after an access.
Proceeds(p, todo, now) ==
  /\ InOrder(todo) /\ Of(todo, call[p].token)
  /\ now.at = call[p].at /\ now.token = call[p].token /\ now.ticks = call[p].ticks
  /\ now.quiet => call[p].quiet
  /\ pairs' = IF Doing(p, "read_owner") THEN pairs + 1 ELSE pairs
  /\ now.pair = IF Doing(p, "read_owner") THEN pairs + 1 ELSE call[p].pair
  /\ ~Has(todo, "get")
  /\ \A what \in {"find", "create_shop", "save_pair", "read_owner"} :
       Has(todo, what) => Has(call[p].todo, what)
  /\ Has(todo, "read_owner") => ~Doing(p, "read_owner")
  /\ Has(todo, "load_shop") => Has(call[p].todo, "load_shop") \/ ~now.quiet
  /\ Has(todo, "save_pair") /\ Has(call[p].todo, "read_owner") =>
       Has(todo, "read_owner") \/ Doing(p, "read_owner")
  /\ Has(todo, "save_local") =>
       /\ redis[call[p].token] >= 0 /\ call[p].token \in Tokens /\ ~now.ends
       /\ now.shop = record[PairOf(call[p].token)]
  /\ \/ /\ now.ends = call[p].ends
        /\ call[p].ends /\ now.quiet => \A what \in {"delete_both", "drop_both"} :
             Has(call[p].todo, what) => Has(todo, what) \/ Doing(p, what)
     \/ /\ now.ends /\ call[p].token \in Tokens /\ Doing(p, "find")
        /\ Has(todo, "delete_both") /\ Has(todo, "drop_both")
  /\ \/ /\ now.shop = call[p].shop
        /\ \A what \in Uses : Has(todo, what) =>
             Has(call[p].todo, what) /\ (Has(call[p].todo, "read_owner") => Has(todo, "read_owner"))
     \/ /\ now.shop = record[PairOf(call[p].token)]
        /\ redis[call[p].token] >= 0 /\ call[p].token \in Tokens
     \/ now.shop = Shop /\ ~Doing(p, "create_shop")
     \/ misled'

\* Caller p does the next of its accesses.
AccessStep(p) ==
  \/ CreateShop(p) \/ ReadOwner(p) \/ LoadShop(p) \/ SaveShop(p) \/ SavePair(p)
  \/ SaveLocal(p) \/ SaveNegative(p) \/ DropLocal(p) \/ DropBoth(p)
  \/ GetRecord(p) \/ FindRecord(p) \/ DeleteRecords(p)

LEMMA Continued ==
  ASSUME SessionTypeOK, NEW p \in Callers, NEW todo \in Seq(Accesses), NEW now \in Calls,
         Continue(p, todo, now)
  PROVE  /\ call' \in [Callers -> Calls]
         /\ \A q \in Callers \ {p} : call'[q] = call[q]
         /\ call'[p].todo = todo
         /\ todo = << >> => call'[p] = Idle
         /\ todo # << >> => call'[p] = [now EXCEPT !.todo = todo]
  <1>1. Idle \in Calls
    <2>1. 0 \in 0 .. MaxPairs /\ 0 \in 0 .. CallTime
      BY SessionAssumption
    <2> QED
      BY <2>1 DEF Idle, Calls
  <1>2. [now EXCEPT !.todo = todo] \in Calls /\ [now EXCEPT !.todo = todo].todo = todo
    BY DEF Calls
  <1>3. Idle.todo = << >>
    BY DEF Idle
  <1>4. call' = [call EXCEPT ![p] = IF todo = << >> THEN Idle ELSE [now EXCEPT !.todo = todo]]
    BY DEF Continue
  <1> QED
    BY <1>1, <1>2, <1>3, <1>4 DEF SessionTypeOK

\* What is left after the first access.
LEMMA RestIs ==
  ASSUME SessionTypeOK, CallsInv, NEW p \in Callers, Busy(p)
  PROVE  /\ call[p] \in Calls /\ call[p].todo \in Seq(Accesses) /\ Rest(p) \in Seq(Accesses)
         /\ Todo(p) \in Accesses
         /\ \A w : Has(call[p].todo, w) <=> Todo(p).what = w \/ Has(Rest(p), w)
         /\ InOrder(Rest(p)) /\ Of(Rest(p), call[p].token)
         /\ \A w \in Lookups : ~Has(Rest(p), w)
         /\ Todo(p).what \in Uses \cup {"read_owner"} => ~Has(Rest(p), "read_owner")
         /\ Todo(p).what \in OfToken => Todo(p).token = call[p].token /\ call[p].token \in Tokens
         /\ call[p].at \in Instances
  <1>1. call[p] \in Calls /\ call[p].todo \in Seq(Accesses) /\ call[p].todo # << >>
    BY DEF SessionTypeOK, Calls, Busy
  <1>2. InOrder(call[p].todo) /\ Of(call[p].todo, call[p].token) /\ call[p].at \in Instances
    BY DEF CallsInv
  <1>3. /\ Todo(p) \in Accesses /\ Rest(p) \in Seq(Accesses)
        /\ \A w : Has(call[p].todo, w) <=> Todo(p).what = w \/ Has(Rest(p), w)
    BY <1>1, TailHas DEF Todo, Rest
  <1>4. /\ InOrder(Rest(p)) /\ \A w \in Lookups : ~Has(Rest(p), w)
        /\ Todo(p).what \in Uses \cup {"read_owner"} => ~Has(Rest(p), "read_owner")
    BY <1>1, <1>2, TailInOrder DEF Todo, Rest
  <1>5. Of(Rest(p), call[p].token)
        /\ (Todo(p).what \in OfToken => Todo(p).token = call[p].token /\ call[p].token \in Tokens)
    BY <1>1, <1>2, TailOf DEF Todo, Rest
  <1> QED
    BY <1>1, <1>2, <1>3, <1>4, <1>5

\* A call that just goes on with its accesses.
LEMMA RestProceeds ==
  ASSUME SessionTypeOK, CallsInv, NEW p \in Callers, Busy(p), ~Doing(p, "read_owner"), ~Doing(p, "get"),
         pairs' = pairs, NEW now \in {call[p], [call[p] EXCEPT !.quiet = FALSE]}
  PROVE  now \in Calls /\ Proceeds(p, Rest(p), now)
  <1>1. /\ now \in Calls /\ now.at = call[p].at /\ now.token = call[p].token /\ now.ticks = call[p].ticks
        /\ now.quiet => call[p].quiet
        /\ now.pair = call[p].pair /\ now.ends = call[p].ends /\ now.shop = call[p].shop
    BY RestIs DEF Calls
  <1>2. \A w \in Lookups : ~Has(Rest(p), w)
    BY RestIs
  <1>3. \A w : Has(call[p].todo, w) <=> Todo(p).what = w \/ Has(Rest(p), w)
    BY RestIs
  <1> QED
    BY <1>1, <1>2, <1>3, RestIs DEF Proceeds, Lookups, Doing

\* A call that is over too early.
LEMMA StopProceeds ==
  ASSUME SessionTypeOK, CallsInv, NEW p \in Callers, Busy(p), ~Doing(p, "read_owner"), ~call[p].ends,
         pairs' = pairs
  PROVE  << >> \in Seq(Accesses) /\ call[p] \in Calls /\ Proceeds(p, << >>, call[p])
  <1>1. /\ << >> \in Seq(Accesses) /\ InOrder(<< >>) /\ Of(<< >>, call[p].token)
        /\ \A w : ~Has(<< >>, w)
    BY NothingIs
  <1> QED
    BY <1>1, RestIs DEF Proceeds

LEMMA MakersBound ==
  ASSUME SessionTypeOK, CallsInv, NEW p \in Callers, Has(call[p].todo, "read_owner")
  PROVE  pairs + 1 \in 0 .. MaxPairs
  <1>1. p \in Makers
    BY DEF Makers
  <1>2. IsFiniteSet(Makers) /\ pairs + Cardinality(Makers) <= MaxPairs
    BY DEF CallsInv
  <1> HIDE DEF Makers
  <1>3. Cardinality(Makers) \in Nat /\ Cardinality(Makers) # 0
    BY <1>1, <1>2, FS_EmptySet, FS_CardinalityType
  <1>4. pairs \in Nat /\ MaxPairs \in Nat
    BY PairFacts DEF SessionTypeOK
  <1> QED
    BY <1>2, <1>3, <1>4

LEMMA AccessProceeds ==
  ASSUME SessionTypeOK, CallsInv, QuietInv, NEW p \in Callers, AccessStep(p)
  PROVE  \E todo \in Seq(Accesses), now \in Calls : Continue(p, todo, now) /\ Proceeds(p, todo, now)
  <1> DEFINE Goal == \E todo \in Seq(Accesses), now \in Calls : Continue(p, todo, now) /\ Proceeds(p, todo, now)
  <1>1. ASSUME Busy(p), ~Doing(p, "read_owner"), ~Doing(p, "get"), GoOn(p) \/ FailOn(p) PROVE Goal
    <2>1. PICK now \in {call[p], [call[p] EXCEPT !.quiet = FALSE]} : Continue(p, Rest(p), now) /\ pairs' = pairs
      BY <1>1 DEF GoOn, FailOn
    <2>2. now \in Calls /\ Proceeds(p, Rest(p), now) /\ Rest(p) \in Seq(Accesses)
      BY <1>1, <2>1, RestProceeds, RestIs
    <2> QED
      BY <2>1, <2>2
  <1>2. ASSUME Busy(p), ~Doing(p, "read_owner"), ~call[p].ends, Stop(p) PROVE Goal
    <2>1. Continue(p, << >>, call[p]) /\ pairs' = pairs
      BY <1>2 DEF Stop
    <2> QED
      BY <1>2, <2>1, StopProceeds
  <1>3. CASE SaveShop(p) \/ SavePair(p) \/ SaveLocal(p) \/ SaveNegative(p) \/ DropLocal(p) \/ DropBoth(p)
             \/ DeleteRecords(p)
    <2>1. Busy(p) /\ ~Doing(p, "read_owner") /\ ~Doing(p, "get")
      BY <1>3 DEF SaveShop, SavePair, SaveLocal, SaveNegative, DropLocal, DropBoth, DeleteRecords, Doing
    <2>2. GoOn(p) \/ FailOn(p)
      BY <1>3 DEF SaveShop, SavePair, SaveLocal, SaveNegative, DropLocal, DropBoth, DeleteRecords
    <2> QED
      BY <1>1, <2>1, <2>2
  <1>4. CASE CreateShop(p)
    <2>1. Busy(p) /\ ~Doing(p, "read_owner") /\ ~Doing(p, "get") /\ Todo(p).what = "create_shop"
      BY <1>4 DEF CreateShop, Doing
    <2>2. ~call[p].ends
      BY <2>1, RestIs DEF QuietInv
    <2> QED
      BY <1>1, <1>2, <1>4, <2>1, <2>2 DEF CreateShop
  <1>5. CASE ReadOwner(p)
    <2>1. Busy(p) /\ Doing(p, "read_owner") /\ Todo(p).what = "read_owner" /\ pairs' = pairs + 1
      BY <1>5 DEF ReadOwner, Doing
    <2>2. pairs + 1 \in 0 .. MaxPairs
      BY <2>1, RestIs, MakersBound
    <2>3. /\ call[p] \in Calls /\ Rest(p) \in Seq(Accesses) /\ ~Has(Rest(p), "read_owner")
          /\ InOrder(Rest(p)) /\ Of(Rest(p), call[p].token) /\ \A w \in Lookups : ~Has(Rest(p), w)
          /\ \A w : Has(call[p].todo, w) <=> w = "read_owner" \/ Has(Rest(p), w)
      BY <2>1, RestIs
    <2>4. ASSUME NEW shop \in {"none", "shop"}, shop = Shop \/ misled',
                 Continue(p, Rest(p), [call[p] EXCEPT !.shop = shop, !.pair = pairs + 1])
          PROVE  Goal
      <3> DEFINE now == [call[p] EXCEPT !.shop = shop, !.pair = pairs + 1]
      <3>1. /\ now \in Calls /\ now.shop = shop /\ now.pair = pairs + 1 /\ now.at = call[p].at
            /\ now.token = call[p].token /\ now.ticks = call[p].ticks /\ now.quiet = call[p].quiet
            /\ now.ends = call[p].ends
        BY <2>2, <2>3 DEF Calls
      <3> HIDE DEF now
      <3>2. Proceeds(p, Rest(p), now)
        BY <2>1, <2>3, <2>4, <3>1 DEF Proceeds, Doing, Lookups
      <3> QED
        BY <2>3, <2>4, <3>1, <3>2 DEF now
    <2>5. ASSUME Continue(p, Do("load_shop", None), [call[p] EXCEPT !.pair = pairs + 1, !.quiet = FALSE])
          PROVE  Goal
      <3> DEFINE now == [call[p] EXCEPT !.pair = pairs + 1, !.quiet = FALSE]
                 todo == Do("load_shop", None)
      <3>1. /\ now \in Calls /\ now.shop = call[p].shop /\ now.pair = pairs + 1 /\ now.at = call[p].at
            /\ now.token = call[p].token /\ now.ticks = call[p].ticks /\ ~now.quiet
            /\ now.ends = call[p].ends
        BY <2>2, <2>3 DEF Calls
      <3>2. /\ todo \in Seq(Accesses) /\ InOrder(todo) /\ Of(todo, call[p].token)
            /\ \A w : Has(todo, w) <=> w = "load_shop"
        <4>1. "load_shop" \in Whats /\ "load_shop" \notin OfToken
          BY DEF Whats, OfToken, Lookups
        <4> QED
          BY <4>1, DoIs
      <3> HIDE DEF now, todo
      <3>3. Proceeds(p, todo, now)
        BY <2>1, <2>3, <2>5, <3>1, <3>2 DEF Proceeds, Doing, Uses
      <3> QED
        BY <2>3, <2>5, <3>1, <3>2, <3>3 DEF now, todo
    <2>6. Shop \in {"none", "shop"}
      BY DEF Shop
    <2> QED
      BY <1>5, <2>1, <2>4, <2>5, <2>6 DEF ReadOwner, ReadShop
  <1>6. CASE LoadShop(p)
    <2>1. Busy(p) /\ ~Doing(p, "read_owner") /\ ~Doing(p, "get") /\ Todo(p).what = "load_shop"
      BY <1>6 DEF LoadShop, Doing
    <2>2. CASE GoOn(p)
      BY <1>1, <2>1, <2>2
    <2>3. ASSUME NEW shop \in {"none", "shop"}, shop = Shop \/ misled', pairs' = pairs,
                 Continue(p, Do("fill_shop", None), [call[p] EXCEPT !.shop = shop, !.pair = call[p].pair])
          PROVE  Goal
      <3> DEFINE now == [call[p] EXCEPT !.shop = shop, !.pair = call[p].pair]
                 todo == Do("fill_shop", None)
      <3>1. /\ now \in Calls /\ now.shop = shop /\ now.pair = call[p].pair /\ now.at = call[p].at
            /\ now.token = call[p].token /\ now.ticks = call[p].ticks /\ now.quiet = call[p].quiet
            /\ now.ends = call[p].ends
        BY <2>1, RestIs DEF Calls
      <3>2. /\ todo \in Seq(Accesses) /\ InOrder(todo) /\ Of(todo, call[p].token)
            /\ \A w : Has(todo, w) <=> w = "fill_shop"
        <4>1. "fill_shop" \in Whats /\ "fill_shop" \notin OfToken
          BY DEF Whats, OfToken, Lookups
        <4> QED
          BY <4>1, DoIs
      <3>3. Has(call[p].todo, "load_shop")
        BY <2>1, RestIs
      <3>4. ~(call[p].ends /\ call[p].quiet)
        BY <3>3 DEF QuietInv
      <3> HIDE DEF now, todo
      <3>5. Proceeds(p, todo, now)
        BY <2>1, <2>3, <3>1, <3>2, <3>4 DEF Proceeds, Doing
      <3> QED
        BY <2>3, <3>1, <3>2, <3>5 DEF now, todo
    <2>4. Shop \in {"none", "shop"}
      BY DEF Shop
    <2> QED
      BY <1>6, <2>2, <2>3, <2>4 DEF LoadShop, ReadShop
  <1>7. CASE GetRecord(p)
    <2> DEFINE t == Todo(p).token
    <2>1. Busy(p) /\ ~Doing(p, "read_owner") /\ Todo(p).what = "get" /\ Has(call[p].todo, "get")
      BY <1>7, RestIs DEF GetRecord, Doing
    <2>2. ~call[p].ends /\ t = call[p].token /\ t \in Tokens
      BY <2>1, RestIs DEF QuietInv, OfToken, Lookups
    <2>3. /\ call[p] \in Calls /\ Rest(p) \in Seq(Accesses)
          /\ InOrder(Rest(p)) /\ Of(Rest(p), call[p].token) /\ \A w \in Lookups : ~Has(Rest(p), w)
          /\ \A w : Has(call[p].todo, w) <=> w = "get" \/ Has(Rest(p), w)
      BY <2>1, RestIs
    <2>4. ASSUME redis[t] >= 0, pairs' = pairs,
                 Continue(p, Do("save_local", t) \o Rest(p), [call[p] EXCEPT !.shop = record[PairOf(t)]])
          PROVE  Goal
      <3> DEFINE now == [call[p] EXCEPT !.shop = record[PairOf(t)]]
                 todo == Do("save_local", t) \o Rest(p)
      <3>1. /\ now \in Calls /\ now.shop = record[PairOf(t)] /\ now.pair = call[p].pair /\ now.at = call[p].at
            /\ now.token = call[p].token /\ now.ticks = call[p].ticks /\ now.quiet = call[p].quiet
            /\ now.ends = call[p].ends
        BY <2>2, <2>3, PairFacts DEF Calls, SessionTypeOK
      <3>2. /\ todo \in Seq(Accesses) /\ InOrder(todo) /\ Of(todo, call[p].token)
            /\ \A w : Has(todo, w) <=> w = "save_local" \/ Has(Rest(p), w)
        <4>1. "save_local" \in Whats /\ "save_local" \notin Uses \cup {"read_owner"}
          BY DEF Whats, Uses
        <4> QED
          BY <2>2, <2>3, <4>1, DoMore
      <3> HIDE DEF now, todo, t
      <3>3. Proceeds(p, todo, now)
        BY <2>1, <2>2, <2>3, <2>4, <3>1, <3>2 DEF Proceeds, Doing, Lookups
      <3> QED
        BY <2>4, <3>1, <3>2, <3>3 DEF now, todo
    <2>5. ASSUME pairs' = pairs, Continue(p, Do("save_negative", t), call[p])
          PROVE  Goal
      <3> DEFINE todo == Do("save_negative", t)
      <3>1. /\ todo \in Seq(Accesses) /\ InOrder(todo) /\ Of(todo, call[p].token)
            /\ \A w : Has(todo, w) <=> w = "save_negative"
        <4>1. "save_negative" \in Whats
          BY DEF Whats
        <4> QED
          BY <2>2, <4>1, DoIs
      <3> HIDE DEF todo, t
      <3>2. Proceeds(p, todo, call[p])
        BY <2>1, <2>2, <2>5, <3>1 DEF Proceeds, Doing, Uses
      <3> QED
        BY <2>3, <2>5, <3>1, <3>2 DEF todo
    <2>6. CASE Stop(p)
      BY <1>2, <2>1, <2>2, <2>6
    <2> QED
      BY <1>7, <2>4, <2>5, <2>6 DEF GetRecord
  <1>8. CASE FindRecord(p)
    <2> DEFINE t == Todo(p).token
    <2>1. Busy(p) /\ ~Doing(p, "read_owner") /\ Todo(p).what = "find" /\ Has(call[p].todo, "find")
          /\ Doing(p, "find")
      BY <1>8, RestIs DEF FindRecord, Doing
    <2>2. t = call[p].token /\ t \in Tokens
      BY <2>1, RestIs DEF OfToken
    <2>3. /\ call[p] \in Calls /\ Rest(p) \in Seq(Accesses)
          /\ InOrder(Rest(p)) /\ Of(Rest(p), call[p].token) /\ \A w \in Lookups : ~Has(Rest(p), w)
          /\ \A w : Has(call[p].todo, w) <=> w = "find" \/ Has(Rest(p), w)
      BY <2>1, RestIs
    <2>4. ASSUME pairs' = pairs,
                 Continue(p, Do("delete_both", t) \o Do("drop_both", t) \o Rest(p), [call[p] EXCEPT !.ends = TRUE])
          PROVE  Goal
      <3> DEFINE now == [call[p] EXCEPT !.ends = TRUE]
                 more == Do("drop_both", t) \o Rest(p)
                 todo == Do("delete_both", t) \o more
      <3>1. /\ now \in Calls /\ now.shop = call[p].shop /\ now.pair = call[p].pair /\ now.at = call[p].at
            /\ now.token = call[p].token /\ now.ticks = call[p].ticks /\ now.quiet = call[p].quiet
            /\ now.ends
        BY <2>3 DEF Calls
      <3>2. /\ "drop_both" \in Whats /\ "drop_both" \notin Uses \cup Lookups \cup {"read_owner"}
            /\ "delete_both" \in Whats /\ "delete_both" \notin Uses \cup Lookups \cup {"read_owner"}
        BY DEF Whats, Uses, Lookups
      <3>3. /\ more \in Seq(Accesses) /\ InOrder(more) /\ Of(more, call[p].token)
            /\ \A w : Has(more, w) <=> w = "drop_both" \/ Has(Rest(p), w)
        BY <2>2, <2>3, <3>2, DoMore
      <3>4. Do("delete_both", t) \o Do("drop_both", t) \o Rest(p) = todo
        <4>1. Do("delete_both", t) \in Seq(Accesses) /\ Do("drop_both", t) \in Seq(Accesses)
          BY <2>2, <3>2, DoIs
        <4> QED
          BY <2>3, <4>1, ConcatAssociative
      <3> HIDE DEF more
      <3>5. \A w \in Lookups : ~Has(more, w)
        BY <2>3, <3>2, <3>3
      <3>6. /\ todo \in Seq(Accesses) /\ InOrder(todo) /\ Of(todo, call[p].token)
            /\ \A w : Has(todo, w) <=> w = "delete_both" \/ Has(more, w)
        BY <2>2, <2>3, <3>2, <3>3, <3>5, DoMore
      <3> HIDE DEF now, todo, t
      <3>7. Proceeds(p, todo, now)
        BY <2>1, <2>2, <2>3, <2>4, <3>1, <3>3, <3>6 DEF Proceeds, Doing, Uses, Lookups
      <3> QED
        BY <2>4, <3>1, <3>4, <3>6, <3>7 DEF now
    <2>5. ASSUME pairs' = pairs, Continue(p, Do("delete", t) \o Rest(p), call[p])
          PROVE  Goal
      <3> DEFINE todo == Do("delete", t) \o Rest(p)
      <3>1. /\ todo \in Seq(Accesses) /\ InOrder(todo) /\ Of(todo, call[p].token)
            /\ \A w : Has(todo, w) <=> w = "delete" \/ Has(Rest(p), w)
        <4>1. "delete" \in Whats /\ "delete" \notin Uses \cup {"read_owner"}
          BY DEF Whats, Uses
        <4> QED
          BY <2>2, <2>3, <4>1, DoMore
      <3> HIDE DEF todo, t
      <3>2. Proceeds(p, todo, call[p])
        BY <2>1, <2>2, <2>3, <2>5, <3>1 DEF Proceeds, Doing, Uses, Lookups
      <3> QED
        BY <2>3, <2>5, <3>1, <3>2 DEF todo
    <2> QED
      BY <1>8, <2>4, <2>5 DEF FindRecord
  <1> QED
    BY <1>3, <1>4, <1>5, <1>6, <1>7, <1>8 DEF AccessStep

\* What a new call has before it.
Begins(p, i, t, todo) ==
  /\ Begin(p, i, t, todo)
  /\ t \in Tokens => PairOf(t) \in given
  /\ InOrder(todo) /\ Of(todo, t)
  /\ ~Has(todo, "save_local")
  /\ \A what \in Uses : Has(todo, what) => Has(todo, "read_owner")
  /\ Has(todo, "read_owner") => MayMakePair
  /\ Has(todo, "find") => ~Has(todo, "create_shop") /\ ~Has(todo, "load_shop")
  /\ account' = account \/ (account = "none" /\ account' = "user")
  /\ misled' \in BOOLEAN /\ (misled => misled')
  /\ account' = "merchant" \/ misled' \/ t \in Tokens \/ Head(todo).what = "create_shop"
  /\ faults' \in 0 .. MaxFaults

Starts(p) ==
  \E i \in Instances :
    \/ Register(p, i) \/ Login(p, i)
    \/ \E t \in {t \in Tokens : PairOf(t) \in given} :
         Logout(p, i, t) \/ Authenticate(p, i, t) \/ RefreshSession(p, i, t)

LEMMA StartBegins ==
  ASSUME SessionTypeOK, NEW p \in Callers, Starts(p)
  PROVE  \E i \in Instances, t \in Tokens \cup {None}, todo \in Seq(Accesses) : Begins(p, i, t, todo)
  <1> DEFINE Goal == \E i \in Instances, t \in Tokens \cup {None}, todo \in Seq(Accesses) : Begins(p, i, t, todo)
  <1> PICK i \in Instances :
        \/ Register(p, i) \/ Login(p, i)
        \/ \E t \in {t \in Tokens : PairOf(t) \in given} :
             Logout(p, i, t) \/ Authenticate(p, i, t) \/ RefreshSession(p, i, t)
    BY DEF Starts
  <1>1. None \notin Tokens /\ faults \in 0 .. MaxFaults /\ misled \in BOOLEAN
        /\ (Fault => faults' \in 0 .. MaxFaults)
    BY SessionAssumption DEF SessionTypeOK, Fault
  <1>2. /\ "create_shop" \in Whats /\ "create_shop" \notin OfToken \cup Uses \cup Lookups
        /\ "load_shop" \in Whats /\ "load_shop" \notin OfToken \cup Uses \cup Lookups
        /\ "get" \in Whats /\ "get" \notin Uses
    BY DEF Whats, OfToken, Uses, Lookups
  <1>3. CASE Register(p, i)
    <2> DEFINE todo == Do("create_shop", None) \o Issue
    <2>1. /\ Issue \in Seq(Accesses) /\ InOrder(Issue) /\ Of(Issue, None)
          /\ \A w : Has(Issue, w) <=> w \in {"read_owner", "save_shop", "save_pair"}
      BY IssueIs
    <2>2. \A w \in Lookups : ~Has(Issue, w)
      BY <2>1 DEF Lookups
    <2>3. /\ todo \in Seq(Accesses) /\ Head(todo).what = "create_shop"
          /\ \A w : Has(todo, w) <=> w = "create_shop" \/ Has(Issue, w)
          /\ InOrder(todo) /\ Of(todo, None)
      BY <1>2, <2>1, <2>2, DoMore
    <2>4. Begin(p, i, None, todo) /\ MayMakePair /\ account = "none" /\ account' = "user"
          /\ misled' = misled /\ faults' = faults
      BY <1>3 DEF Register
    <2> HIDE DEF todo
    <2>5. Begins(p, i, None, todo)
      BY <1>1, <1>2, <2>1, <2>3, <2>4 DEF Begins, Uses
    <2> QED
      BY <2>3, <2>5
  <1>4. CASE Login(p, i)
    <2>1. /\ Issue \in Seq(Accesses) /\ InOrder(Issue) /\ Of(Issue, None)
          /\ \A w : Has(Issue, w) <=> w \in {"read_owner", "save_shop", "save_pair"}
      BY IssueIs
    <2>2. Begin(p, i, None, Issue) /\ MayMakePair /\ account' = account
          /\ \/ account = "merchant" /\ misled' = misled /\ faults' = faults
             \/ misled' = TRUE /\ Fault
      BY <1>4 DEF Login
    <2>3. (misled => misled') /\ misled' \in BOOLEAN /\ (account' = "merchant" \/ misled')
      <3>1. CASE account = "merchant" /\ misled' = misled
        BY <1>1, <2>2, <3>1
      <3>2. CASE misled' = TRUE
        BY <3>2
      <3> QED
        BY <2>2, <3>1, <3>2
    <2>4. faults' \in 0 .. MaxFaults
      BY <1>1, <2>2, Zenon
    <2>5. Begins(p, i, None, Issue)
      BY <1>1, <2>1, <2>2, <2>3, <2>4 DEF Begins, Uses
    <2> QED
      BY <2>1, <2>5
  <1>5. ASSUME NEW t \in {t \in Tokens : PairOf(t) \in given},
               Logout(p, i, t) \/ Authenticate(p, i, t) \/ RefreshSession(p, i, t)
        PROVE  Goal
    <2>1. account' = account /\ misled' = misled /\ faults' = faults
      BY <1>5 DEF Logout, Authenticate, RefreshSession, GetUserByToken
    <2>2. ASSUME NEW todo \in Seq(Accesses), Begin(p, i, t, todo), InOrder(todo), Of(todo, t),
                 \A w : Has(todo, w) =>
                   \/ w \in {"get", "load_shop"}
                   \/ w \in {"get", "drop_local", "find"} /\ ~Has(todo, "load_shop")
                   \/ w \in {"get", "drop_local", "find", "read_owner", "save_shop", "save_pair"}
                      /\ Has(todo, "read_owner") /\ MayMakePair /\ ~Has(todo, "load_shop")
          PROVE  Goal
      <3>1. ~Has(todo, "save_local")
        BY <2>2
      <3>2. \A what \in Uses : Has(todo, what) => Has(todo, "read_owner")
        BY <2>2 DEF Uses
      <3>3. Has(todo, "read_owner") => MayMakePair
        BY <2>2
      <3>4. Has(todo, "find") => ~Has(todo, "create_shop") /\ ~Has(todo, "load_shop")
        BY <2>2
      <3>5. Begins(p, i, t, todo)
        BY <1>1, <2>1, <2>2, <3>1, <3>2, <3>3, <3>4 DEF Begins
      <3> QED
        BY <2>2, <3>5
    <2>3. CASE Logout(p, i, t)
      <3>1. /\ << >> \in Seq(Accesses) /\ InOrder(<< >>) /\ Of(<< >>, t) /\ \A w : ~Has(<< >>, w)
        BY NothingIs
      <3>2. /\ Delete(t) \o << >> \in Seq(Accesses) /\ InOrder(Delete(t) \o << >>) /\ Of(Delete(t) \o << >>, t)
            /\ \A w : Has(Delete(t) \o << >>, w) <=> w \in {"drop_local", "find"} \/ Has(<< >>, w)
        BY <3>1, DeleteIs
      <3>3. Delete(t) \o << >> = Delete(t)
        <4>1. "drop_local" \in Whats /\ "find" \in Whats
          BY DEF Whats
        <4>2. Delete(t) \in Seq(Accesses)
          BY <4>1, DoIs DEF Delete
        <4> QED
          BY <4>2, ConcatEmptySeq
      <3>4. Begin(p, i, t, Delete(t))
        BY <2>3 DEF Logout
      <3> QED
        BY <2>2, <3>1, <3>2, <3>3, <3>4
    <2>4. ASSUME NEW accepted \in Seq(Accesses), InOrder(accepted), Of(accepted, t),
                 \A w \in Lookups : ~Has(accepted, w),
                 GetUserByToken(p, i, t, accepted),
                 \A w : Has(accepted, w) =>
                   \/ w = "load_shop"
                   \/ w \in {"drop_local", "find", "read_owner", "save_shop", "save_pair"}
                      /\ Has(accepted, "read_owner") /\ MayMakePair /\ ~Has(accepted, "load_shop")
          PROVE  Goal
      <3>1. CASE Begin(p, i, t, accepted)
        BY <2>2, <2>4, <3>1
      <3>2. CASE Begin(p, i, t, Do("get", t) \o accepted)
        <4> DEFINE todo == Do("get", t) \o accepted
        <4>1. todo \in Seq(Accesses) /\ InOrder(todo) /\ Of(todo, t)
              /\ \A w : Has(todo, w) <=> w = "get" \/ Has(accepted, w)
          BY <1>2, <2>4, DoMore
        <4>2. Begin(p, i, t, todo)
          BY <3>2
        <4> HIDE DEF todo
        <4>3. Has(todo, "load_shop") <=> Has(accepted, "load_shop")
          BY <4>1
        <4>4. Has(todo, "read_owner") <=> Has(accepted, "read_owner")
          BY <4>1
        <4>5. ASSUME NEW w, Has(todo, w)
              PROVE  \/ w \in {"get", "load_shop"}
                     \/ w \in {"get", "drop_local", "find", "read_owner", "save_shop", "save_pair"}
                        /\ Has(todo, "read_owner") /\ MayMakePair /\ ~Has(todo, "load_shop")
          BY <2>4, <4>1, <4>3, <4>4, <4>5
        <4> QED
          BY <2>2, <4>1, <4>2, <4>5
      <3> QED
        BY <2>4, <3>1, <3>2 DEF GetUserByToken
    <2>5. ASSUME GetUserByToken(p, i, t, << >>) PROVE Goal
      <3>1. /\ << >> \in Seq(Accesses) /\ InOrder(<< >>) /\ Of(<< >>, t) /\ \A w : ~Has(<< >>, w)
        BY NothingIs
      <3> QED
        BY <2>4, <2>5, <3>1
    <2>6. CASE Authenticate(p, i, t)
      <3>1. /\ Do("load_shop", None) \in Seq(Accesses) /\ InOrder(Do("load_shop", None))
            /\ Of(Do("load_shop", None), t) /\ \A w : Has(Do("load_shop", None), w) <=> w = "load_shop"
        BY <1>2, DoIs
      <3>2. GetUserByToken(p, i, t, Do("load_shop", None)) => Goal
        BY <1>2, <2>4, <3>1
      <3> QED
        BY <2>5, <2>6, <3>2 DEF Authenticate
    <2>7. CASE RefreshSession(p, i, t)
      <3>1. /\ Issue \in Seq(Accesses) /\ InOrder(Issue) /\ Of(Issue, t)
            /\ \A w : Has(Issue, w) <=> w \in {"read_owner", "save_shop", "save_pair"}
        BY IssueIs
      <3>2. \A w \in Lookups : ~Has(Issue, w)
        BY <3>1 DEF Lookups
      <3>3. /\ Delete(t) \o Issue \in Seq(Accesses) /\ InOrder(Delete(t) \o Issue) /\ Of(Delete(t) \o Issue, t)
            /\ \A w : Has(Delete(t) \o Issue, w) <=> w \in {"drop_local", "find"} \/ Has(Issue, w)
        BY <3>1, <3>2, DeleteIs
      <3>4. \A w \in Lookups : ~Has(Delete(t) \o Issue, w)
        BY <3>1, <3>3 DEF Lookups
      <3>5. MayMakePair
        BY <2>7 DEF RefreshSession
      <3> DEFINE accepted == Delete(t) \o Issue
      <3>6. /\ accepted \in Seq(Accesses) /\ InOrder(accepted) /\ Of(accepted, t)
            /\ \A w : Has(accepted, w) <=> w \in {"drop_local", "find", "read_owner", "save_shop", "save_pair"}
            /\ \A w \in Lookups : ~Has(accepted, w)
        BY <3>1, <3>3, <3>4
      <3> HIDE DEF accepted
      <3>7. GetUserByToken(p, i, t, accepted) => Goal
        BY <2>4, <3>5, <3>6
      <3> QED
        BY <2>5, <2>7, <3>7 DEF RefreshSession, accepted
    <2> QED
      BY <1>5, <2>3, <2>6, <2>7
  <1> QED
    BY <1>3, <1>4, <1>5

\* A call that begins among others takes only their quiet.
LEMMA Unquiet ==
  ASSUME NEW s \in Calls, NEW other, other = [s EXCEPT !.quiet = FALSE]
  PROVE  /\ other \in Calls /\ other.at = s.at /\ other.todo = s.todo
         /\ other.token = s.token /\ other.pair = s.pair /\ other.shop = s.shop
         /\ other.ticks = s.ticks /\ other.ends = s.ends /\ ~other.quiet
  BY DEF Calls

LEMMA IdleIsQuiet == [Idle EXCEPT !.quiet = FALSE] = Idle
  <1>1. Idle \in [at : {None}, todo : {<< >>}, token : {None}, pair : {0}, shop : {"none"},
                  ticks : {0}, ends : {FALSE}, quiet : {FALSE}]
    BY DEF Idle
  <1> QED
    BY <1>1

\* A new call, and what it takes from the others.
LEMMA Started ==
  ASSUME SessionTypeOK, CallsInv, NEW p \in Callers, NEW i \in Instances, NEW t \in Tokens \cup {None},
         NEW todo \in Seq(Accesses), Begins(p, i, t, todo)
  PROVE  /\ call' \in [Callers -> Calls]
         /\ todo # << >> /\ call[p] = Idle
         /\ call'[p].at = i /\ call'[p].todo = todo /\ call'[p].token = t /\ call'[p].pair = 0
         /\ call'[p].shop = "none" /\ call'[p].ticks = 0 /\ ~call'[p].ends
         /\ call'[p].quiet => Has(todo, "find") /\ \A q \in Callers : ~Busy(q)
         /\ \A q \in Callers \ {p} :
              /\ call'[q].at = call[q].at /\ call'[q].todo = call[q].todo /\ call'[q].token = call[q].token
              /\ call'[q].pair = call[q].pair /\ call'[q].shop = call[q].shop /\ call'[q].ticks = call[q].ticks
              /\ call'[q].ends = call[q].ends /\ ~call'[q].quiet
              /\ call[q] = Idle => call'[q] = Idle
  <1> DEFINE quiet == {q \in Callers : Busy(q)} = {} /\ Has(todo, "find")
             new == [Idle EXCEPT !.at = i, !.todo = todo, !.token = t, !.quiet = quiet]
  <1>1. /\ ~Busy(p) /\ todo # << >>
        /\ call' = [q \in Callers |-> IF q = p THEN new ELSE [call[q] EXCEPT !.quiet = FALSE]]
    BY DEF Begins, Begin
  <1>2. call[p] = Idle
    BY <1>1 DEF CallsInv
  <1>3. quiet \in BOOLEAN
    BY Zenon
  <1>4. /\ new \in Calls /\ new.at = i /\ new.todo = todo /\ new.token = t /\ new.pair = 0
        /\ new.shop = "none" /\ new.ticks = 0 /\ ~new.ends /\ new.quiet = quiet
    <2> HIDE DEF quiet
    <2>1. 0 \in 0 .. MaxPairs /\ 0 \in 0 .. CallTime
      BY SessionAssumption
    <2> QED
      BY <1>3, <2>1 DEF Idle, Calls
  <1>5. quiet => Has(todo, "find") /\ \A q \in Callers : ~Busy(q)
    BY Zenon
  <1> HIDE DEF new, quiet
  <1>6. call \in [Callers -> Calls]
    BY DEF SessionTypeOK
  <1>8. /\ call'[p] = new /\ DOMAIN call' = Callers
        /\ \A q \in Callers \ {p} : call'[q] = [call[q] EXCEPT !.quiet = FALSE]
    BY <1>1
  <1>10. ASSUME NEW q \in Callers \ {p}
         PROVE  /\ call'[q] \in Calls
                /\ call'[q].at = call[q].at /\ call'[q].todo = call[q].todo /\ call'[q].token = call[q].token
                /\ call'[q].pair = call[q].pair /\ call'[q].shop = call[q].shop /\ call'[q].ticks = call[q].ticks
                /\ call'[q].ends = call[q].ends /\ ~call'[q].quiet
                /\ call[q] = Idle => call'[q] = Idle
    <2>1. call[q] \in Calls
      BY <1>6
    <2>2. call'[q] = [call[q] EXCEPT !.quiet = FALSE]
      BY <1>8
    <2>3. call[q] = Idle => call'[q] = Idle
      BY <2>2, IdleIsQuiet
    <2> QED
      BY <2>1, <2>2, <2>3, Unquiet, Zenon
  <1>9. call' \in [Callers -> Calls]
    <2>1. \A q \in Callers : call'[q] \in Calls
      BY <1>4, <1>8, <1>10
    <2>2. call' = [q \in Callers |-> call'[q]]
      BY <1>1
    <2> QED
      BY <2>1, <2>2
  <1>11. call'[p].quiet => Has(todo, "find") /\ \A q \in Callers : ~Busy(q)
    BY <1>4, <1>5, <1>8
  <1> QED
    BY <1>1, <1>2, <1>4, <1>8, <1>9, <1>10, <1>11

\* What time does to the calls.
LEMMA Ticked ==
  ASSUME SessionTypeOK, CallsInv, Tick
  PROVE  /\ call' \in [Callers -> Calls]
         /\ \A p \in Callers :
              /\ call'[p].at = call[p].at /\ call'[p].todo = call[p].todo /\ call'[p].token = call[p].token
              /\ call'[p].pair = call[p].pair /\ call'[p].shop = call[p].shop
              /\ call'[p].ends = call[p].ends /\ call'[p].quiet = call[p].quiet
              /\ call'[p].ticks = IF Busy(p) THEN call[p].ticks + 1 ELSE call[p].ticks
              /\ ~Busy(p) => call'[p] = call[p]
  <1>1. ASSUME NEW p \in Callers, Busy(p)
        PROVE  LET older == [call[p] EXCEPT !.ticks = @ + 1]
               IN  /\ older \in Calls /\ older.at = call[p].at /\ older.todo = call[p].todo
                   /\ older.token = call[p].token /\ older.pair = call[p].pair /\ older.shop = call[p].shop
                   /\ older.ticks = call[p].ticks + 1 /\ older.ends = call[p].ends /\ older.quiet = call[p].quiet
    <2>1. call[p].ticks < CallTime /\ call[p] \in Calls
      BY <1>1 DEF Tick, SessionTypeOK
    <2>2. CallTime \in Nat
      BY SessionAssumption
    <2>3. call[p].ticks + 1 \in 0 .. CallTime
      BY <2>1, <2>2 DEF Calls
    <2> QED
      BY <2>1, <2>3 DEF Calls
  <1>2. call' = [p \in Callers |-> IF Busy(p) THEN [call[p] EXCEPT !.ticks = @ + 1] ELSE call[p]]
    BY DEF Tick
  <1> QED
    BY <1>1, <1>2 DEF SessionTypeOK

\* The calls of an instance that restarts are over.
LEMMA Restarted ==
  ASSUME SessionTypeOK, NEW i \in Instances, Restart(i)
  PROVE  call' \in [Callers -> Calls] /\ \A p \in Callers : call'[p] = IF call[p].at = i THEN Idle ELSE call[p]
  <1>1. Idle \in Calls
    <2>1. 0 \in 0 .. MaxPairs /\ 0 \in 0 .. CallTime
      BY SessionAssumption
    <2> QED
      BY <2>1 DEF Idle, Calls
  <1> QED
    BY <1>1 DEF Restart, SessionTypeOK

LEMMA StepKinds ==
  ASSUME [Next]_vars
  PROVE  \/ \E p \in Callers : Starts(p) \/ AccessStep(p)
         \/ Tick
         \/ \E i \in Instances : Restart(i) \/ \E t \in Tokens : DropExpired(i, t)
         \/ UNCHANGED vars
  <1>1. CASE Next
    <2>1. CASE \E p \in Callers, i \in Instances :
                 \/ Register(p, i) \/ Login(p, i)
                 \/ \E t \in {t \in Tokens : PairOf(t) \in given} :
                      Logout(p, i, t) \/ Authenticate(p, i, t) \/ RefreshSession(p, i, t)
      BY <2>1 DEF Starts
    <2>2. CASE \E p \in Callers : AccessStep(p)
      BY <2>2
    <2> QED
      BY <1>1, <2>1, <2>2, Zenon DEF Next, AccessStep
  <1> QED
    BY <1>1

-----------------------------------------------------------------------------
(* Types *)

LEMMA TypeInit == Init => SessionTypeOK
  <1> SUFFICES ASSUME Init PROVE SessionTypeOK
    OBVIOUS
  <1>1. Idle \in Calls
    <2>1. 0 \in 0 .. MaxPairs /\ 0 \in 0 .. CallTime
      BY SessionAssumption
    <2> QED
      BY <2>1 DEF Idle, Calls
  <1>2. /\ \A t \in Tokens : -1 \in -1 .. Life(t) /\ -1 \in -1 .. Grace(t) + 1
        /\ 0 \in 0 .. MaxCalls /\ 0 \in 0 .. MaxFaults /\ 0 \in 0 .. MaxPairs
    BY PairFacts, SessionAssumption
  <1>3. /\ Miss \in [found : BOOLEAN, left : Int] /\ Miss.left = -1
        /\ \A t \in Tokens : -1 \in -1 .. Life(t)
    BY PairFacts DEF Miss
  <1>4. /\ local \in [Instances -> [Tokens -> [found : BOOLEAN, left : Int]]]
        /\ \A i \in Instances, t \in Tokens : local[i][t].left \in -1 .. Life(t)
    BY <1>3 DEF Init
  <1>5. /\ redis \in [Tokens -> Int] /\ \A t \in Tokens : redis[t] \in -1 .. Life(t)
        /\ gone \in [Tokens -> Int] /\ \A t \in Tokens : gone[t] \in -1 .. Grace(t) + 1
    BY <1>2 DEF Init
  <1>6. /\ call \in [Callers -> Calls] /\ calls \in 0 .. MaxCalls /\ faults \in 0 .. MaxFaults
        /\ pairs \in 0 .. MaxPairs
    BY <1>1, <1>2 DEF Init
  <1>7. /\ account \in {"none", "user", "merchant"} /\ record \in [Pairs -> {"none", "shop"}]
        /\ shops \in [Instances -> {"unknown", "none", "shop"}] /\ given \subseteq Pairs
        /\ ended \in [Instances -> SUBSET Pairs] /\ misled \in BOOLEAN
    BY DEF Init
  <1> QED
    BY <1>4, <1>5, <1>6, <1>7 DEF SessionTypeOK

\* The stores and caches after an access.
LEMMA StoresTyped ==
  ASSUME SessionTypeOK, CallsInv, NEW p \in Callers, AccessStep(p)
  PROVE  /\ account' \in {"none", "user", "merchant"}
         /\ redis' \in [Tokens -> Int] /\ \A t \in Tokens : redis'[t] \in -1 .. Life(t)
         /\ record' \in [Pairs -> {"none", "shop"}]
         /\ local' \in [Instances -> [Tokens -> [found : BOOLEAN, left : Int]]]
         /\ \A i \in Instances, t \in Tokens : local'[i][t].left \in -1 .. Life(t)
         /\ shops' \in [Instances -> {"unknown", "none", "shop"}]
         /\ faults' \in 0 .. MaxFaults /\ misled' \in BOOLEAN
         /\ gone' \in [Tokens -> Int] /\ \A t \in Tokens : gone'[t] \in -1 .. Grace(t) + 1
  <1>1. \A t \in Tokens : /\ Life(t) \in Nat /\ Grace(t) \in Nat /\ -1 \in -1 .. Life(t) /\ 0 \in -1 .. Life(t)
                          /\ Life(t) \in -1 .. Life(t) /\ 0 \in -1 .. Grace(t) + 1
    BY PairFacts
  <1>2. faults' \in 0 .. MaxFaults
    <2>1. Fault => faults' \in 0 .. MaxFaults
      BY SessionAssumption DEF Fault, SessionTypeOK
    <2>2. faults' = faults \/ Fault
      BY DEF AccessStep, CreateShop, ReadOwner, LoadShop, SaveShop, SavePair, SaveLocal, SaveNegative, DropLocal,
             DropBoth, GetRecord, FindRecord, DeleteRecords, ReadShop, GoOn, FailOn, Stop
    <2> QED
      BY <2>1, <2>2 DEF SessionTypeOK
  <1>3. misled' \in BOOLEAN
    <2>1. misled' = misled \/ misled' = TRUE
      BY DEF AccessStep, CreateShop, ReadOwner, LoadShop, SaveShop, SavePair, SaveLocal, SaveNegative, DropLocal,
             DropBoth, GetRecord, FindRecord, DeleteRecords, ReadShop
    <2> QED
      BY <2>1 DEF SessionTypeOK
  <1>4. Busy(p) /\ call[p] \in Calls /\ call[p].shop \in {"none", "shop"} /\ call[p].at \in Instances
    <2>1. Busy(p)
      BY DEF AccessStep, CreateShop, ReadOwner, LoadShop, SaveShop, SavePair, SaveLocal, SaveNegative, DropLocal,
             DropBoth, GetRecord, FindRecord, DeleteRecords, Doing
    <2> QED
      BY <2>1, RestIs DEF Calls
  <1>5. ASSUME NEW entry \in [found : BOOLEAN, left : Int], NEW t \in Tokens, t = Todo(p).token,
               entry.left \in -1 .. Life(t), KeepLocal(p, entry)
        PROVE  /\ local' \in [Instances -> [Tokens -> [found : BOOLEAN, left : Int]]]
               /\ \A i \in Instances, u \in Tokens : local'[i][u].left \in -1 .. Life(u)
    BY <1>4, <1>5 DEF KeepLocal, SessionTypeOK
  <1>6. Doing(p, "save_local") \/ Doing(p, "save_negative") \/ Doing(p, "drop_local") => Todo(p).token \in Tokens
    BY <1>4, RestIs DEF Doing, OfToken, Lookups
  <1>7. ASSUME NEW n, local' = [local EXCEPT ![call[p].at] = [t \in Tokens |-> IF PairOf(t) = n THEN Miss ELSE @[t]]]
        PROVE  /\ local' \in [Instances -> [Tokens -> [found : BOOLEAN, left : Int]]]
               /\ \A i \in Instances, u \in Tokens : local'[i][u].left \in -1 .. Life(u)
    BY <1>1, <1>4, <1>7 DEF SessionTypeOK, Miss
  <1>8. CASE CreateShop(p)
    BY <1>2, <1>3, <1>8 DEF CreateShop, SessionTypeOK, caches
  <1>9. CASE ReadOwner(p) \/ LoadShop(p) \/ GetRecord(p) \/ FindRecord(p)
    BY <1>2, <1>3, <1>9 DEF ReadOwner, LoadShop, GetRecord, FindRecord, SessionTypeOK, caches, stores
  <1>10. CASE SaveShop(p)
    BY <1>2, <1>3, <1>4, <1>10 DEF SaveShop, SessionTypeOK, stores
  <1>11. CASE SavePair(p)
    <2>1. PICK set : redis' = [t \in Tokens |-> IF t \in set THEN Life(t) ELSE redis[t]]
      BY <1>11 DEF SavePair
    <2>2. /\ record' = [record EXCEPT ![call[p].pair] = call[p].shop]
          /\ local' = [local EXCEPT ![call[p].at] = [t \in Tokens |->
                         IF PairOf(t) = call[p].pair THEN Found(Life(t)) ELSE @[t]]]
          /\ UNCHANGED <<account, shops, gone>>
      BY <1>11 DEF SavePair
    <2>3. redis' \in [Tokens -> Int] /\ \A t \in Tokens : redis'[t] \in -1 .. Life(t)
      BY <1>1, <2>1 DEF SessionTypeOK
    <2>4. \A t \in Tokens : Found(Life(t)) \in [found : BOOLEAN, left : Int] /\ Found(Life(t)).left = Life(t)
      BY <1>1 DEF Found
    <2>5. local' \in [Instances -> [Tokens -> [found : BOOLEAN, left : Int]]]
          /\ \A i \in Instances, t \in Tokens : local'[i][t].left \in -1 .. Life(t)
      BY <1>1, <1>4, <2>2, <2>4 DEF SessionTypeOK
    <2> QED
      BY <1>2, <1>3, <1>4, <2>2, <2>3, <2>5 DEF SessionTypeOK
  <1>12. CASE SaveLocal(p)
    <2>1. Todo(p).token \in Tokens
      BY <1>6, <1>12 DEF SaveLocal
    <2>2. Found(Life(Todo(p).token)) \in [found : BOOLEAN, left : Int]
          /\ Found(Life(Todo(p).token)).left = Life(Todo(p).token)
      BY <1>1, <2>1 DEF Found
    <2>3. /\ KeepLocal(p, Found(Life(Todo(p).token)))
          /\ shops' = [shops EXCEPT ![call[p].at] = call[p].shop] /\ UNCHANGED <<stores, gone>>
      BY <1>12 DEF SaveLocal
    <2>4. /\ local' \in [Instances -> [Tokens -> [found : BOOLEAN, left : Int]]]
          /\ \A i \in Instances, u \in Tokens : local'[i][u].left \in -1 .. Life(u)
      BY <1>1, <1>5, <2>1, <2>2, <2>3
    <2> QED
      BY <1>2, <1>3, <1>4, <2>3, <2>4 DEF SessionTypeOK, stores
  <1>13. CASE SaveNegative(p) \/ DropLocal(p)
    <2>1. Todo(p).token \in Tokens
      BY <1>6, <1>13 DEF SaveNegative, DropLocal
    <2>2. /\ Negative \in [found : BOOLEAN, left : Int] /\ Negative.left = 0
          /\ Miss \in [found : BOOLEAN, left : Int] /\ Miss.left = -1
      BY DEF Negative, Miss
    <2>3. /\ KeepLocal(p, Negative) \/ KeepLocal(p, Miss)
          /\ UNCHANGED <<stores, shops, gone>>
      BY <1>13 DEF SaveNegative, DropLocal
    <2>4. /\ local' \in [Instances -> [Tokens -> [found : BOOLEAN, left : Int]]]
          /\ \A i \in Instances, u \in Tokens : local'[i][u].left \in -1 .. Life(u)
      BY <1>1, <1>5, <2>1, <2>2, <2>3
    <2> QED
      BY <1>2, <1>3, <2>3, <2>4 DEF SessionTypeOK, stores
  <1>14. CASE DropBoth(p)
    <2>1. UNCHANGED <<stores, shops, gone>>
          /\ local' = [local EXCEPT ![call[p].at] = [t \in Tokens |->
                         IF PairOf(t) = PairOf(Todo(p).token) THEN Miss ELSE @[t]]]
      BY <1>14 DEF DropBoth
    <2> QED
      BY <1>2, <1>3, <1>7, <2>1 DEF SessionTypeOK, stores
  <1>15. CASE DeleteRecords(p)
    <2> DEFINE keys == IF Doing(p, "delete") THEN {Todo(p).token} ELSE Both(Todo(p).token)
    <2>1. \/ /\ redis' = [t \in Tokens |-> IF t \in keys THEN -1 ELSE redis[t]]
             /\ gone' = [t \in Tokens |-> IF t \in keys /\ gone[t] < 0 THEN 0 ELSE gone[t]]
          \/ UNCHANGED <<redis, gone>>
      BY <1>15 DEF DeleteRecords
    <2>2. UNCHANGED <<account, record, caches>>
      BY <1>15 DEF DeleteRecords
    <2> HIDE DEF keys
    <2>3. redis' \in [Tokens -> Int] /\ \A t \in Tokens : redis'[t] \in -1 .. Life(t)
      <3>1. CASE redis' = [t \in Tokens |-> IF t \in keys THEN -1 ELSE redis[t]]
        BY <1>1, <3>1 DEF SessionTypeOK
      <3> QED
        BY <2>1, <3>1 DEF SessionTypeOK
    <2>4. gone' \in [Tokens -> Int] /\ \A t \in Tokens : gone'[t] \in -1 .. Grace(t) + 1
      <3>1. CASE gone' = [t \in Tokens |-> IF t \in keys /\ gone[t] < 0 THEN 0 ELSE gone[t]]
        BY <1>1, <3>1 DEF SessionTypeOK
      <3> QED
        BY <2>1, <3>1 DEF SessionTypeOK
    <2> QED
      BY <1>2, <1>3, <2>2, <2>3, <2>4 DEF SessionTypeOK, caches
  <1> QED
    BY <1>8, <1>9, <1>10, <1>11, <1>12, <1>13, <1>14, <1>15 DEF AccessStep

LEMMA TypeStep == SessionTypeOK /\ CallsInv /\ QuietInv /\ [Next]_vars => SessionTypeOK'
  <1> SUFFICES ASSUME SessionTypeOK, CallsInv, QuietInv, [Next]_vars PROVE SessionTypeOK'
    OBVIOUS
  <1>1. ASSUME NEW p \in Callers, Starts(p) PROVE SessionTypeOK'
    <2>1. PICK i \in Instances, t \in Tokens \cup {None}, todo \in Seq(Accesses) : Begins(p, i, t, todo)
      BY <1>1, StartBegins
    <2>2. call' \in [Callers -> Calls]
      BY <2>1, Started
    <2>3. /\ account' \in {"none", "user", "merchant"} /\ misled' \in BOOLEAN /\ faults' \in 0 .. MaxFaults
          /\ calls < MaxCalls /\ calls' = calls + 1
          /\ UNCHANGED <<redis, record, caches, pairs, given, gone, ended>>
      BY <2>1 DEF Begins, Begin, SessionTypeOK
    <2>4. calls' \in 0 .. MaxCalls
      <3>1. MaxCalls \in Nat /\ calls \in 0 .. MaxCalls
        BY SessionAssumption DEF SessionTypeOK
      <3> QED
        BY <2>3, <3>1
    <2> QED
      BY <2>2, <2>3, <2>4 DEF SessionTypeOK, caches
  <1>2. ASSUME NEW p \in Callers, AccessStep(p) PROVE SessionTypeOK'
    <2>1. PICK todo \in Seq(Accesses), now \in Calls : Continue(p, todo, now) /\ Proceeds(p, todo, now)
      BY <1>2, AccessProceeds
    <2>2. call' \in [Callers -> Calls]
      BY <2>1, Continued
    <2>3. pairs' \in 0 .. MaxPairs
      <3>1. CASE Doing(p, "read_owner")
        <4>1. Has(call[p].todo, "read_owner")
          BY <3>1, RestIs DEF Doing
        <4> QED
          BY <2>1, <3>1, <4>1, MakersBound DEF Proceeds
      <3> QED
        BY <2>1, <3>1 DEF Proceeds, SessionTypeOK
    <2>4. given' \subseteq Pairs
      <3>1. now.pair # 0 => now.pair \in Pairs
        BY PairFacts DEF Calls, Pairs
      <3> QED
        BY <2>1, <3>1 DEF Continue, SessionTypeOK
    <2>5. ended' \in [Instances -> SUBSET Pairs]
      <3>1. now.ends => PairOf(now.token) \in Pairs
        BY <2>1, PairFacts DEF Proceeds, CallsInv
      <3> QED
        BY <2>1, <3>1 DEF Continue, SessionTypeOK
    <2>6. calls' = calls
      BY <2>1 DEF Continue
    <2> QED
      BY <1>2, <2>2, <2>3, <2>4, <2>5, <2>6, StoresTyped DEF SessionTypeOK
  <1>3. CASE Tick
    <2>1. call' \in [Callers -> Calls]
      BY <1>3, Ticked
    <2>2. /\ redis' = [t \in Tokens |-> IF redis[t] >= 0 THEN redis[t] - 1 ELSE -1]
          /\ local' = [i \in Instances |-> [t \in Tokens |-> Aged(local[i][t])]]
          /\ gone' = [t \in Tokens |-> IF gone[t] \in 0 .. Grace(t) THEN gone[t] + 1 ELSE gone[t]]
          /\ UNCHANGED <<account, record, shops, calls, pairs, given, ended, misled, faults>>
      BY <1>3 DEF Tick
    <2>3. redis' \in [Tokens -> Int] /\ \A t \in Tokens : redis'[t] \in -1 .. Life(t)
      BY <2>2, PairFacts DEF SessionTypeOK
    <2>4. gone' \in [Tokens -> Int] /\ \A t \in Tokens : gone'[t] \in -1 .. Grace(t) + 1
      BY <2>2, PairFacts DEF SessionTypeOK
    <2>5. ASSUME NEW i \in Instances, NEW t \in Tokens
          PROVE  /\ Aged(local[i][t]) \in [found : BOOLEAN, left : Int]
                 /\ Aged(local[i][t]).left \in -1 .. Life(t)
      <3>1. local[i][t] \in [found : BOOLEAN, left : Int] /\ local[i][t].left \in -1 .. Life(t) /\ Life(t) \in Nat
        BY PairFacts DEF SessionTypeOK
      <3> QED
        BY <3>1 DEF Aged, Miss
    <2>6. /\ local' \in [Instances -> [Tokens -> [found : BOOLEAN, left : Int]]]
          /\ \A i \in Instances, t \in Tokens : local'[i][t].left \in -1 .. Life(t)
      BY <2>2, <2>5
    <2> QED
      BY <2>1, <2>2, <2>3, <2>4, <2>6 DEF SessionTypeOK
  <1>4. ASSUME NEW i \in Instances, NEW t \in Tokens, DropExpired(i, t) PROVE SessionTypeOK'
    <2>1. /\ local' = [local EXCEPT ![i][t] = Miss] /\ Fault
          /\ UNCHANGED <<stores, shops, call, calls, pairs, given, history>>
      BY <1>4 DEF DropExpired
    <2>2. Miss \in [found : BOOLEAN, left : Int] /\ Miss.left \in -1 .. Life(t)
      BY PairFacts DEF Miss
    <2>3. /\ local' \in [Instances -> [Tokens -> [found : BOOLEAN, left : Int]]]
          /\ \A j \in Instances, u \in Tokens : local'[j][u].left \in -1 .. Life(u)
      BY <2>1, <2>2 DEF SessionTypeOK
    <2>4. faults' \in 0 .. MaxFaults
      BY <2>1, SessionAssumption DEF Fault, SessionTypeOK
    <2> QED
      BY <2>1, <2>3, <2>4 DEF SessionTypeOK, stores, history
  <1>5. ASSUME NEW i \in Instances, Restart(i) PROVE SessionTypeOK'
    <2>1. /\ local' = [local EXCEPT ![i] = [t \in Tokens |-> Miss]] /\ Fault
          /\ shops' = [shops EXCEPT ![i] = "unknown"]
          /\ UNCHANGED <<stores, calls, pairs, given, history>>
      BY <1>5 DEF Restart
    <2>2. Miss \in [found : BOOLEAN, left : Int] /\ \A t \in Tokens : Miss.left \in -1 .. Life(t)
      BY PairFacts DEF Miss
    <2>3. /\ local' \in [Instances -> [Tokens -> [found : BOOLEAN, left : Int]]]
          /\ \A j \in Instances, u \in Tokens : local'[j][u].left \in -1 .. Life(u)
      BY <2>1, <2>2 DEF SessionTypeOK
    <2>4. faults' \in 0 .. MaxFaults
      BY <2>1, SessionAssumption DEF Fault, SessionTypeOK
    <2>5. call' \in [Callers -> Calls]
      BY <1>5, Restarted
    <2>6. shops' \in [Instances -> {"unknown", "none", "shop"}]
      BY <2>1 DEF SessionTypeOK
    <2> QED
      BY <2>1, <2>3, <2>4, <2>5, <2>6 DEF SessionTypeOK, stores, history
  <1>6. CASE UNCHANGED vars
    BY <1>6 DEF vars, stores, caches, history, SessionTypeOK
  <1> QED
    BY <1>1, <1>2, <1>3, <1>4, <1>5, <1>6, StepKinds

-----------------------------------------------------------------------------
(* The calls and the pairs they make *)

\* A call record in order.
CallOK(c) ==
  /\ c.todo = << >> => c = Idle
  /\ c.todo # << >> => c.at \in Instances
  /\ InOrder(c.todo)
  /\ Of(c.todo, c.token)
  /\ c.ends => c.token \in Tokens

LEMMA IdleOK == CallOK(Idle) /\ \A w : ~Has(Idle.todo, w)
  <1>1. InOrder(<< >>) /\ Of(<< >>, None) /\ \A w : ~Has(<< >>, w)
    BY NothingIs
  <1> QED
    BY <1>1 DEF CallOK, Idle

LEMMA CallsOK == SessionTypeOK => (CallsInv <=> /\ \A p \in Callers : CallOK(call[p])
                                              /\ IsFiniteSet(Makers)
                                              /\ pairs + Cardinality(Makers) <= MaxPairs)
  BY DEF CallsInv, CallOK, Busy

LEMMA CallsInit == Init => CallsInv
  <1> SUFFICES ASSUME Init PROVE CallsInv
    OBVIOUS
  <1>1. \A p \in Callers : call[p] = Idle
    BY DEF Init
  <1>2. \A p \in Callers : CallOK(call[p])
    BY <1>1, IdleOK
  <1>3. Makers = {}
    BY <1>1, IdleOK DEF Makers
  <1>4. IsFiniteSet(Makers) /\ Cardinality(Makers) = 0
    BY <1>3, FS_EmptySet
  <1>5. pairs + Cardinality(Makers) <= MaxPairs
    BY <1>4, PairFacts DEF Init
  <1> QED
    BY <1>2, <1>4, <1>5 DEF CallsInv, CallOK, Busy

LEMMA CallsStep == SessionTypeOK /\ CallsInv /\ QuietInv /\ [Next]_vars => CallsInv'
  <1> SUFFICES ASSUME SessionTypeOK, CallsInv, QuietInv, [Next]_vars PROVE CallsInv'
    OBVIOUS
  <1>1. SessionTypeOK'
    BY TypeStep
  <1>2. SUFFICES /\ \A p \in Callers : CallOK(call'[p])
                 /\ IsFiniteSet(Makers')
                 /\ pairs' + Cardinality(Makers') <= MaxPairs
    BY <1>2 DEF CallsInv, CallOK, Busy
  <1>3. /\ \A p \in Callers : CallOK(call[p])
        /\ IsFiniteSet(Makers) /\ pairs + Cardinality(Makers) <= MaxPairs
        /\ Cardinality(Makers) \in Nat /\ pairs \in Nat /\ MaxPairs \in Nat
    BY CallsOK, FS_CardinalityType, PairFacts DEF SessionTypeOK
  <1>4. \A n \in 0 .. MaxPairs, m \in Nat, k \in Nat : n + m <= MaxPairs /\ k <= m => n + k <= MaxPairs
    BY <1>3
  <1>5. ASSUME NEW p \in Callers, Starts(p)
        PROVE  /\ \A q \in Callers : CallOK(call'[q])
               /\ IsFiniteSet(Makers') /\ pairs' + Cardinality(Makers') <= MaxPairs
    <2>1. PICK i \in Instances, t \in Tokens \cup {None}, todo \in Seq(Accesses) : Begins(p, i, t, todo)
      BY <1>5, StartBegins
    <2>2. /\ todo # << >> /\ call[p] = Idle
          /\ call'[p].at = i /\ call'[p].todo = todo /\ call'[p].token = t /\ ~call'[p].ends
          /\ \A q \in Callers \ {p} :
              /\ call'[q].at = call[q].at /\ call'[q].todo = call[q].todo /\ call'[q].token = call[q].token
              /\ call'[q].ends = call[q].ends /\ (call[q] = Idle => call'[q] = Idle)
      BY <2>1, Started
    <2>3. InOrder(todo) /\ Of(todo, t) /\ pairs' = pairs /\ (Has(todo, "read_owner") => MayMakePair)
      BY <2>1 DEF Begins, Begin
    <2>4. CallOK(call'[p])
      BY <2>2, <2>3 DEF CallOK
    <2>5. ASSUME NEW q \in Callers \ {p} PROVE CallOK(call'[q])
      BY <1>3, <2>2 DEF CallOK
    <2>6. p \notin Makers
      BY <2>2, IdleOK DEF Makers
    <2>7. CASE Has(todo, "read_owner")
      <3>1. Makers' = Makers \cup {p}
        BY <2>2, <2>7 DEF Makers
      <3>2. pairs + Cardinality(Makers) < MaxPairs
        BY <2>3, <2>7 DEF MayMakePair, Makers
      <3> HIDE DEF Makers
      <3>3. IsFiniteSet(Makers') /\ Cardinality(Makers') = Cardinality(Makers) + 1
        BY <1>3, <2>6, <3>1, FS_AddElement
      <3> QED
        BY <1>3, <2>3, <2>4, <2>5, <3>2, <3>3
    <2>8. CASE ~Has(todo, "read_owner")
      <3>1. Makers' = Makers
        BY <2>2, <2>6, <2>8 DEF Makers
      <3> QED
        BY <1>3, <2>3, <2>4, <2>5, <3>1
    <2> QED
      BY <2>7, <2>8
  <1>6. ASSUME NEW p \in Callers, AccessStep(p)
        PROVE  /\ \A q \in Callers : CallOK(call'[q])
               /\ IsFiniteSet(Makers') /\ pairs' + Cardinality(Makers') <= MaxPairs
    <2>1. PICK todo \in Seq(Accesses), now \in Calls : Continue(p, todo, now) /\ Proceeds(p, todo, now)
      BY <1>6, AccessProceeds
    <2>2. /\ \A q \in Callers \ {p} : call'[q] = call[q]
          /\ call'[p].todo = todo /\ (todo = << >> => call'[p] = Idle)
          /\ todo # << >> => call'[p] = [now EXCEPT !.todo = todo]
      BY <2>1, Continued
    <2>3. Busy(p) /\ call[p].at \in Instances
      <3>1. Busy(p)
        BY <1>6 DEF AccessStep, CreateShop, ReadOwner, LoadShop, SaveShop, SavePair, SaveLocal, SaveNegative,
                    DropLocal, DropBoth, GetRecord, FindRecord, DeleteRecords, Doing
      <3> QED
        BY <3>1, RestIs
    <2>4. CallOK(call'[p])
      <3>1. CASE todo = << >>
        BY <2>2, <3>1, IdleOK
      <3>2. CASE todo # << >>
        <4>1. call'[p].at = now.at /\ call'[p].token = now.token /\ call'[p].ends = now.ends
          BY <2>2, <3>2 DEF Calls
        <4>2. InOrder(todo) /\ Of(todo, call[p].token) /\ now.at = call[p].at /\ now.token = call[p].token
          BY <2>1 DEF Proceeds
        <4>3. now.ends => call[p].token \in Tokens
          BY <1>3, <2>1 DEF Proceeds, CallOK
        <4> QED
          BY <2>2, <2>3, <3>2, <4>1, <4>2, <4>3 DEF CallOK
      <3> QED
        BY <3>1, <3>2
    <2>5. \A q \in Callers : CallOK(call'[q])
      BY <1>3, <2>2, <2>4
    <2>6. Has(todo, "read_owner") => p \in Makers /\ ~Doing(p, "read_owner")
      BY <2>1 DEF Proceeds, Makers
    <2>7. CASE Doing(p, "read_owner")
      <3>1. p \in Makers
        BY <2>7, RestIs DEF Doing, Makers
      <3>2. Makers' = Makers \ {p} /\ pairs' = pairs + 1
        <4>1. pairs' = pairs + 1
          BY <2>1, <2>7 DEF Proceeds
        <4> QED
          BY <2>2, <2>6, <2>7, <4>1 DEF Makers
      <3> HIDE DEF Makers
      <3>3. IsFiniteSet(Makers') /\ Cardinality(Makers') = Cardinality(Makers) - 1
        BY <1>3, <3>1, <3>2, FS_RemoveElement
      <3> QED
        BY <1>3, <2>5, <3>2, <3>3
    <2>8. CASE ~Doing(p, "read_owner")
      <3>1. Makers' \subseteq Makers
        BY <2>2, <2>6 DEF Makers
      <3>2. pairs' = pairs
        BY <2>1, <2>8 DEF Proceeds
      <3> HIDE DEF Makers
      <3>3. IsFiniteSet(Makers') /\ Cardinality(Makers') <= Cardinality(Makers) /\ Cardinality(Makers') \in Nat
        BY <1>3, <3>1, FS_Subset, FS_CardinalityType
      <3> QED
        BY <1>3, <2>5, <3>2, <3>3
    <2> QED
      BY <2>7, <2>8
  <1>7. CASE Tick
    <2>1. \A p \in Callers :
            /\ call'[p].at = call[p].at /\ call'[p].todo = call[p].todo /\ call'[p].token = call[p].token
            /\ call'[p].ends = call[p].ends /\ (~Busy(p) => call'[p] = call[p])
      BY <1>7, Ticked
    <2>2. \A p \in Callers : CallOK(call'[p])
      BY <1>3, <2>1 DEF CallOK, Busy
    <2>3. Makers' = Makers /\ pairs' = pairs
      BY <1>7, <2>1 DEF Makers, Tick
    <2> QED
      BY <1>3, <2>2, <2>3
  <1>8. ASSUME NEW i \in Instances, NEW t \in Tokens, DropExpired(i, t) PROVE UNCHANGED <<call, pairs>>
    BY <1>8 DEF DropExpired
  <1>9. CASE UNCHANGED <<call, pairs>>
    <2>1. Makers' = Makers
      BY <1>9 DEF Makers
    <2> QED
      BY <1>3, <1>9, <2>1
  <1>10. ASSUME NEW i \in Instances, Restart(i)
         PROVE  /\ \A q \in Callers : CallOK(call'[q])
                /\ IsFiniteSet(Makers') /\ pairs' + Cardinality(Makers') <= MaxPairs
    <2>1. \A p \in Callers : call'[p] = IF call[p].at = i THEN Idle ELSE call[p]
      BY <1>10, Restarted
    <2>2. \A p \in Callers : CallOK(call'[p])
      BY <1>3, <2>1, IdleOK
    <2>3. Makers' \subseteq Makers
      BY <2>1, IdleOK DEF Makers
    <2>4. pairs' = pairs
      BY <1>10 DEF Restart
    <2> HIDE DEF Makers
    <2>5. IsFiniteSet(Makers') /\ Cardinality(Makers') <= Cardinality(Makers) /\ Cardinality(Makers') \in Nat
      BY <1>3, <2>3, FS_Subset, FS_CardinalityType
    <2> QED
      BY <1>3, <2>2, <2>4, <2>5
  <1>11. CASE UNCHANGED vars
    BY <1>9, <1>11 DEF vars
  <1> QED
    BY <1>5, <1>6, <1>7, <1>8, <1>9, <1>10, <1>11, StepKinds

LEMMA PairsInit == Init => PairsInv
  <1> SUFFICES ASSUME Init PROVE PairsInv
    OBVIOUS
  <1>1. \A p \in Callers : call[p] = Idle /\ call[p].pair = 0 /\ call[p].token = None
    BY DEF Init, Idle
  <1>2. \A p \in Callers : ~Has(call[p].todo, "save_pair")
    BY <1>1, IdleOK
  <1> QED
    BY <1>1, <1>2, SessionAssumption DEF Init, PairsInv

LEMMA StepIsBusy ==
  ASSUME NEW p \in Callers, AccessStep(p)
  PROVE  Busy(p)
  BY DEF AccessStep, CreateShop, ReadOwner, LoadShop, SaveShop, SavePair, SaveLocal, SaveNegative,
         DropLocal, DropBoth, GetRecord, FindRecord, DeleteRecords, Doing

\* The records that an access writes or deletes.
LEMMA RecordsStep ==
  ASSUME SessionTypeOK, CallsInv, PairsInv, NEW p \in Callers, AccessStep(p)
  PROVE  \/ redis' = redis /\ gone' = gone /\ ~Doing(p, "delete_both")
         \/ redis' = redis /\ gone' = gone /\ ~call'[p].quiet /\ ended' = ended
         \/ /\ SavePair(p) /\ gone' = gone
            /\ \A t \in Tokens : redis'[t] = redis[t] \/ PairOf(t) = call[p].pair
         \/ /\ DeleteRecords(p) /\ call[p].token \in Tokens
            /\ \E keys \in SUBSET Tokens :
                 /\ \A t \in keys : PairOf(t) = PairOf(call[p].token)
                 /\ Doing(p, "delete_both") => keys = {t \in Tokens : PairOf(t) = PairOf(call[p].token)}
                 /\ redis' = [t \in Tokens |-> IF t \in keys THEN -1 ELSE redis[t]]
                 /\ gone' = [t \in Tokens |-> IF t \in keys /\ gone[t] < 0 THEN 0 ELSE gone[t]]
  <1>1. CASE SavePair(p)
    <2>1. PICK set \in SUBSET {Access(call[p].pair), Refresh(call[p].pair)} :
            redis' = [t \in Tokens |-> IF t \in set THEN Life(t) ELSE redis[t]]
      BY <1>1 DEF SavePair
    <2>2. gone' = gone
      BY <1>1 DEF SavePair
    <2>3. call[p].pair = 0 \/ call[p].pair \in Pairs
      BY DEF SessionTypeOK, Calls, Pairs
    <2>4. ASSUME NEW t \in Tokens, t \in set PROVE PairOf(t) = call[p].pair
      <3>1. t = Access(call[p].pair) \/ t = Refresh(call[p].pair)
        BY <2>4
      <3>2. call[p].pair # 0
        BY <2>4, <3>1 DEF Tokens, Access, Refresh
      <3> QED
        BY <2>3, <3>1, <3>2, PairFacts
    <2> QED
      BY <1>1, <2>1, <2>2, <2>4
  <1>2. CASE DeleteRecords(p)
    <2> DEFINE keys == IF Doing(p, "delete") THEN {Todo(p).token} ELSE Both(Todo(p).token)
    <2>1. Busy(p) /\ Todo(p).what \in OfToken
      BY <1>2 DEF DeleteRecords, Doing, OfToken
    <2>2. Todo(p).token = call[p].token /\ call[p].token \in Tokens
      BY <2>1, RestIs
    <2>3. keys \subseteq Tokens /\ \A t \in keys : PairOf(t) = PairOf(call[p].token)
      BY <2>2, PairFacts DEF Both
    <2>4. Doing(p, "delete_both") => keys = {t \in Tokens : PairOf(t) = PairOf(call[p].token)}
      <3>1. Doing(p, "delete_both") => keys = Both(call[p].token)
        BY <2>2 DEF Doing
      <3>2. Both(call[p].token) = {t \in Tokens : PairOf(t) = PairOf(call[p].token)}
        BY <2>2, PairFacts DEF Both
      <3> QED
        BY <3>1, <3>2
    <2>5. CASE FailOn(p) /\ UNCHANGED <<redis, gone>>
      <3> DEFINE now == [call[p] EXCEPT !.quiet = FALSE]
      <3>1. Continue(p, Rest(p), now)
        BY <2>5 DEF FailOn
      <3>2. now \in Calls /\ ~now.quiet /\ Rest(p) \in Seq(Accesses)
        BY <2>1, RestIs DEF Calls
      <3>3. call'[p] = Idle \/ call'[p] = [now EXCEPT !.todo = Rest(p)]
        BY <3>1, <3>2, Continued
      <3>4. [now EXCEPT !.todo = Rest(p)].quiet = now.quiet
        BY <3>2 DEF Calls
      <3>5. ~Idle.quiet
        BY DEF Idle
      <3>6. ~call'[p].quiet
        BY <3>2, <3>3, <3>4, <3>5, Zenon
      <3>7. ended' = ended
        BY <3>1, <3>2 DEF Continue
      <3> QED
        BY <2>5, <3>6, <3>7
    <2>6. CASE /\ redis' = [t \in Tokens |-> IF t \in keys THEN -1 ELSE redis[t]]
               /\ gone' = [t \in Tokens |-> IF t \in keys /\ gone[t] < 0 THEN 0 ELSE gone[t]]
      <3> HIDE DEF keys
      <3> QED
        BY <1>2, <2>2, <2>3, <2>4, <2>6
    <2> QED
      BY <1>2, <2>5, <2>6 DEF DeleteRecords
  <1>3. CASE CreateShop(p) \/ ReadOwner(p) \/ LoadShop(p) \/ SaveShop(p) \/ SaveLocal(p) \/ SaveNegative(p)
             \/ DropLocal(p) \/ DropBoth(p) \/ GetRecord(p) \/ FindRecord(p)
    <2>1. redis' = redis /\ gone' = gone
      BY <1>3 DEF CreateShop, ReadOwner, LoadShop, SaveShop, SaveLocal, SaveNegative, DropLocal, DropBoth,
                  GetRecord, FindRecord, stores
    <2>2. ~Doing(p, "delete_both")
      BY <1>3 DEF CreateShop, ReadOwner, LoadShop, SaveShop, SaveLocal, SaveNegative, DropLocal, DropBoth,
                  GetRecord, FindRecord, Doing
    <2> QED
      BY <2>1, <2>2
  <1> QED
    BY <1>1, <1>2, <1>3 DEF AccessStep

LEMMA PairsStep == SessionTypeOK /\ CallsInv /\ QuietInv /\ PairsInv /\ [Next]_vars => PairsInv'
  <1> SUFFICES ASSUME SessionTypeOK, CallsInv, QuietInv, PairsInv, [Next]_vars PROVE PairsInv'
    OBVIOUS
  <1>0. pairs \in Nat /\ Idle.pair = 0 /\ Idle.token = None /\ None \notin Tokens
        /\ \A w : ~Has(Idle.todo, w)
    BY IdleOK, SessionAssumption DEF SessionTypeOK, Idle
  <1>1. ASSUME NEW p \in Callers, Starts(p) PROVE PairsInv'
    <2>1. PICK i \in Instances, t \in Tokens \cup {None}, todo \in Seq(Accesses) : Begins(p, i, t, todo)
      BY <1>1, StartBegins
    <2>2. /\ call'[p].todo = todo /\ call'[p].token = t /\ call'[p].pair = 0
          /\ \A q \in Callers \ {p} :
              /\ call'[q].todo = call[q].todo /\ call'[q].token = call[q].token
              /\ call'[q].pair = call[q].pair
      BY <2>1, Started
    <2>3. UNCHANGED <<redis, pairs, given, gone>>
      BY <2>1 DEF Begins, Begin
    <2>4. (t \in Tokens => PairOf(t) \in given) /\ (Has(todo, "save_pair") => Has(todo, "read_owner"))
      BY <2>1 DEF Begins, Uses
    <2>5. 0 \in 0 .. pairs /\ 0 \notin given
      BY <1>0 DEF PairsInv
    <2> QED
      BY <2>2, <2>3, <2>4, <2>5 DEF PairsInv
  <1>2. ASSUME NEW p \in Callers, AccessStep(p) PROVE PairsInv'
    <2>1. PICK todo \in Seq(Accesses), now \in Calls : Continue(p, todo, now) /\ Proceeds(p, todo, now)
      BY <1>2, AccessProceeds
    <2>2. /\ \A q \in Callers \ {p} : call'[q] = call[q]
          /\ call'[p].todo = todo /\ (todo = << >> => call'[p] = Idle)
          /\ todo # << >> => call'[p].pair = now.pair /\ call'[p].token = call[p].token
      <3>1. now.token = call[p].token
        BY <2>1 DEF Proceeds
      <3>2. [now EXCEPT !.todo = todo].pair = now.pair /\ [now EXCEPT !.todo = todo].token = now.token
        BY DEF Calls
      <3>3. Continue(p, todo, now)
        BY <2>1
      <3>4. /\ \A q \in Callers \ {p} : call'[q] = call[q]
            /\ call'[p].todo = todo /\ (todo = << >> => call'[p] = Idle)
            /\ todo # << >> => call'[p] = [now EXCEPT !.todo = todo]
        BY <3>3, Continued, Zenon
      <3> QED
        BY <3>1, <3>2, <3>4, Zenon
    <2>3. /\ pairs' = IF Doing(p, "read_owner") THEN pairs + 1 ELSE pairs
          /\ now.pair = IF Doing(p, "read_owner") THEN pairs + 1 ELSE call[p].pair
          /\ Has(todo, "save_pair") => Has(call[p].todo, "save_pair")
          /\ Has(todo, "save_pair") /\ Has(call[p].todo, "read_owner") =>
               Has(todo, "read_owner") \/ Doing(p, "read_owner")
      BY <2>1 DEF Proceeds
    <2>4. /\ now.pair \in 0 .. pairs' /\ now.pair \notin given /\ pairs' \in Nat /\ pairs <= pairs'
          /\ \A q \in Callers \ {p} : call[q].pair = now.pair => now.pair = 0
      <3>1. CASE Doing(p, "read_owner")
        <4>1. \A q \in Callers : call[q].pair # pairs + 1
          <5>1. \A q \in Callers : call[q].pair \in 0 .. pairs
            BY DEF PairsInv
          <5> QED
            BY <1>0, <5>1
        <4>2. pairs + 1 \notin given
          <5>1. given \subseteq 1 .. pairs
            BY DEF PairsInv
          <5> QED
            BY <1>0, <5>1
        <4> QED
          BY <1>0, <2>3, <3>1, <4>1, <4>2
      <3>2. CASE ~Doing(p, "read_owner")
        BY <1>0, <2>3, <3>2 DEF PairsInv
      <3> QED
        BY <3>1, <3>2
    <2>5. given' = IF todo = << >> /\ now.pair # 0 THEN given \cup {now.pair} ELSE given
      BY <2>1 DEF Continue
    <2>6. given' \subseteq 1 .. pairs'
      <3>1. given \subseteq 1 .. pairs /\ 1 .. pairs \subseteq 1 .. pairs'
        BY <1>0, <2>4 DEF PairsInv
      <3>2. now.pair # 0 => now.pair \in 1 .. pairs'
        BY <2>4
      <3> QED
        BY <2>5, <3>1, <3>2
    <2>7. ASSUME NEW q \in Callers
          PROVE  /\ call'[q].pair \in 0 .. pairs'
                 /\ call'[q].pair \notin given'
                 /\ call'[q].token \in Tokens => PairOf(call'[q].token) \in given'
                 /\ Has(call'[q].todo, "save_pair") => Has(call'[q].todo, "read_owner") \/ call'[q].pair # 0
      <3>1. CASE q # p
        BY <1>0, <2>2, <2>4, <2>5, <3>1 DEF PairsInv
      <3>2. CASE q = p /\ todo = << >>
        <4>1. 0 \in 0 .. pairs' /\ 0 \notin given'
          BY <2>4, <2>6
        <4>2. call'[q] = Idle
          BY <2>2, <3>2
        <4> QED
          BY <1>0, <4>1, <4>2
      <3>3. CASE q = p /\ todo # << >>
        <4>1. Has(todo, "save_pair") => Has(todo, "read_owner") \/ now.pair # 0
          BY <1>0, <2>3 DEF PairsInv
        <4> QED
          BY <2>2, <2>4, <2>5, <3>3, <4>1 DEF PairsInv
      <3> QED
        BY <3>1, <3>2, <3>3
    <2>8. \A q, r \in Callers : call'[q].pair = call'[r].pair => q = r \/ call'[q].pair = 0
      BY <1>0, <2>2, <2>4 DEF PairsInv
    <2>9. ASSUME NEW t \in Tokens, gone'[t] >= 0 PROVE PairOf(t) \in given' /\ redis'[t] < 0
      <3>1. given \subseteq given'
        BY <2>5
      <3>2. CASE redis' = redis /\ gone' = gone
        BY <2>9, <3>1, <3>2 DEF PairsInv
      <3>3. CASE /\ gone' = gone
                 /\ \A u \in Tokens : redis'[u] = redis[u] \/ PairOf(u) = call[p].pair
        <4>1. gone[t] >= 0 /\ PairOf(t) \in given /\ redis[t] < 0
          BY <2>9, <3>3 DEF PairsInv
        <4>2. PairOf(t) # call[p].pair
          BY <4>1 DEF PairsInv
        <4> QED
          BY <3>1, <3>3, <4>1, <4>2
      <3>4. ASSUME call[p].token \in Tokens, NEW keys \in SUBSET Tokens,
                   \A u \in keys : PairOf(u) = PairOf(call[p].token),
                   redis' = [u \in Tokens |-> IF u \in keys THEN -1 ELSE redis[u]],
                   gone' = [u \in Tokens |-> IF u \in keys /\ gone[u] < 0 THEN 0 ELSE gone[u]]
            PROVE  PairOf(t) \in given' /\ redis'[t] < 0
        <4>1. CASE t \in keys
          <5>1. PairOf(t) \in given
            BY <3>4, <4>1 DEF PairsInv
          <5> QED
            BY <3>1, <3>4, <4>1, <5>1
        <4>2. CASE t \notin keys
          BY <2>9, <3>1, <3>4, <4>2 DEF PairsInv
        <4> QED
          BY <4>1, <4>2
      <3> QED
        BY <1>2, <3>2, <3>3, <3>4, RecordsStep
    <2> QED
      BY <2>6, <2>7, <2>8, <2>9 DEF PairsInv
  <1>3. CASE Tick
    <2>1. \A p \in Callers :
            /\ call'[p].todo = call[p].todo /\ call'[p].token = call[p].token
            /\ call'[p].pair = call[p].pair
      BY <1>3, Ticked
    <2>2. pairs' = pairs /\ given' = given
      BY <1>3 DEF Tick
    <2>3. ASSUME NEW t \in Tokens, gone'[t] >= 0 PROVE gone[t] >= 0 /\ (redis[t] < 0 => redis'[t] < 0)
      <3>1. /\ redis' = [u \in Tokens |-> IF redis[u] >= 0 THEN redis[u] - 1 ELSE -1]
            /\ gone' = [u \in Tokens |-> IF gone[u] \in 0 .. Grace(u) THEN gone[u] + 1 ELSE gone[u]]
        BY <1>3 DEF Tick
      <3>2. gone[t] \in Int /\ redis[t] \in Int /\ Grace(t) \in Nat
        BY PairFacts DEF SessionTypeOK
      <3> QED
        BY <2>3, <3>1, <3>2
    <2> QED
      BY <2>1, <2>2, <2>3 DEF PairsInv
  <1>4. ASSUME NEW i \in Instances, NEW t \in Tokens, DropExpired(i, t) PROVE PairsInv'
    BY <1>4 DEF DropExpired, PairsInv, stores, history
  <1>5. ASSUME NEW i \in Instances, Restart(i) PROVE PairsInv'
    <2>1. \A p \in Callers : call'[p] = IF call[p].at = i THEN Idle ELSE call[p]
      BY <1>5, Restarted
    <2>2. UNCHANGED <<redis, pairs, given, gone>>
      BY <1>5 DEF Restart, stores, history
    <2>3. 0 \in 0 .. pairs /\ 0 \notin given
      BY <1>0 DEF PairsInv
    <2> QED
      BY <1>0, <2>1, <2>2, <2>3 DEF PairsInv
  <1>6. CASE UNCHANGED vars
    BY <1>6 DEF vars, stores, history, PairsInv
  <1> QED
    BY <1>1, <1>2, <1>3, <1>4, <1>5, <1>6, StepKinds

-----------------------------------------------------------------------------
(* What instances remember *)

LEMMA HasToken ==
  ASSUME SessionTypeOK, CallsInv, NEW p \in Callers, NEW what \in OfToken, Has(call[p].todo, what)
  PROVE  call[p].token \in Tokens /\ Busy(p)
  BY DEF Has, Of, CallsInv, Busy

\* The entries that an access writes.
LEMMA LocalStep ==
  ASSUME SessionTypeOK, CallsInv, NEW p \in Callers, AccessStep(p), NEW i \in Instances, NEW t \in Tokens
  PROVE  /\ \/ local'[i][t] = local[i][t]
            \/ ~local'[i][t].found
            \/ /\ Has(call[p].todo, "save_local") /\ redis' = redis /\ gone' = gone
               /\ i = call[p].at /\ t = call[p].token /\ local'[i][t] = Found(Life(t))
            \/ /\ Has(call[p].todo, "save_pair") /\ gone' = gone
               /\ i = call[p].at /\ PairOf(t) = call[p].pair /\ local'[i][t] = Found(Life(t))
         /\ Doing(p, "drop_both") /\ i = call[p].at /\ PairOf(t) = PairOf(call[p].token) => ~local'[i][t].found
  <1>1. Busy(p) /\ call[p].at \in Instances /\ local[i] \in [Tokens -> [found : BOOLEAN, left : Int]]
        /\ \A w : Has(call[p].todo, w) <=> Todo(p).what = w \/ Has(Rest(p), w)
    BY StepIsBusy, RestIs DEF SessionTypeOK
  <1>2. ASSUME NEW entry, KeepLocal(p, entry), Todo(p).what \in OfToken
        PROVE  local'[i][t] = IF i = call[p].at /\ t = call[p].token THEN entry ELSE local[i][t]
    <2>1. Todo(p).token = call[p].token /\ call[p].token \in Tokens
      BY <1>1, <1>2, RestIs
    <2> QED
      BY <1>1, <1>2, <2>1 DEF KeepLocal, SessionTypeOK
  <1>3. CASE SaveLocal(p)
    <2>1. Todo(p).what = "save_local" /\ Has(call[p].todo, "save_local") /\ ~Doing(p, "drop_both")
      BY <1>1, <1>3 DEF SaveLocal, Doing
    <2>2. KeepLocal(p, Found(Life(Todo(p).token))) /\ redis' = redis /\ gone' = gone
      BY <1>3 DEF SaveLocal, stores
    <2>3. Todo(p).token = call[p].token
      BY <1>1, <2>1, RestIs DEF OfToken, Lookups
    <2>4. local'[i][t] = IF i = call[p].at /\ t = call[p].token THEN Found(Life(call[p].token)) ELSE local[i][t]
      BY <1>2, <2>1, <2>2, <2>3 DEF OfToken, Lookups
    <2> QED
      BY <2>1, <2>2, <2>4
  <1>4. CASE SaveNegative(p) \/ DropLocal(p)
    <2>1. Todo(p).what \in OfToken /\ ~Doing(p, "drop_both")
      BY <1>4 DEF SaveNegative, DropLocal, Doing, OfToken, Lookups
    <2>2. KeepLocal(p, Negative) \/ KeepLocal(p, Miss)
      BY <1>4 DEF SaveNegative, DropLocal
    <2>3. local'[i][t] \in {Negative, Miss, local[i][t]}
      BY <1>2, <2>1, <2>2
    <2>4. ~Negative.found /\ ~Miss.found
      BY DEF Negative, Miss
    <2> QED
      BY <2>1, <2>3, <2>4
  <1>5. CASE SavePair(p)
    <2>1. Has(call[p].todo, "save_pair") /\ ~Doing(p, "drop_both") /\ gone' = gone
      BY <1>1, <1>5 DEF SavePair, Doing
    <2>2. local' = [local EXCEPT ![call[p].at] = [u \in Tokens |->
                      IF PairOf(u) = call[p].pair THEN Found(Life(u)) ELSE @[u]]]
      BY <1>5 DEF SavePair
    <2>3. local'[i][t] = IF i = call[p].at /\ PairOf(t) = call[p].pair THEN Found(Life(t)) ELSE local[i][t]
      BY <1>1, <2>2 DEF SessionTypeOK
    <2> QED
      BY <2>1, <2>3
  <1>6. CASE DropBoth(p)
    <2>1. Todo(p).token = call[p].token
      BY <1>1, <1>6, RestIs DEF DropBoth, Doing, OfToken
    <2>2. local' = [local EXCEPT ![call[p].at] = [u \in Tokens |->
                      IF PairOf(u) = PairOf(Todo(p).token) THEN Miss ELSE @[u]]]
      BY <1>6 DEF DropBoth
    <2>3. local'[i][t] = IF i = call[p].at /\ PairOf(t) = PairOf(call[p].token) THEN Miss ELSE local[i][t]
      BY <1>1, <2>1, <2>2 DEF SessionTypeOK
    <2>4. ~Miss.found
      BY DEF Miss
    <2> QED
      BY <2>3, <2>4
  <1>7. CASE CreateShop(p) \/ ReadOwner(p) \/ LoadShop(p) \/ SaveShop(p) \/ GetRecord(p) \/ FindRecord(p)
             \/ DeleteRecords(p)
    <2>1. local' = local
      BY <1>7 DEF CreateShop, ReadOwner, LoadShop, SaveShop, GetRecord, FindRecord, DeleteRecords, caches
    <2>2. ~Doing(p, "drop_both")
      BY <1>7 DEF CreateShop, ReadOwner, LoadShop, SaveShop, GetRecord, FindRecord, DeleteRecords, Doing
    <2> QED
      BY <2>1, <2>2
  <1> QED
    BY <1>3, <1>4, <1>5, <1>6, <1>7 DEF AccessStep

LEMMA RevocationInit == Init => RevocationInv
  <1> SUFFICES ASSUME Init PROVE RevocationInv
    OBVIOUS
  <1>1. \A p \in Callers : ~Has(call[p].todo, "save_local")
    BY IdleOK DEF Init
  <1>2. \A i \in Instances, t \in Tokens : ~local[i][t].found
    BY DEF Init, Miss
  <1> QED
    BY <1>1, <1>2 DEF RevocationInv

LEMMA RevocationStep ==
  SessionTypeOK /\ CallsInv /\ QuietInv /\ PairsInv /\ RevocationInv /\ [Next]_vars => RevocationInv'
  <1> SUFFICES ASSUME SessionTypeOK, CallsInv, QuietInv, PairsInv, RevocationInv, [Next]_vars
               PROVE  RevocationInv'
    OBVIOUS
  <1>1. ASSUME NEW p \in Callers, Starts(p) PROVE RevocationInv'
    <2>1. PICK i \in Instances, t \in Tokens \cup {None}, todo \in Seq(Accesses) : Begins(p, i, t, todo)
      BY <1>1, StartBegins
    <2>2. /\ call'[p].todo = todo
          /\ \A q \in Callers \ {p} :
              /\ call'[q].todo = call[q].todo /\ call'[q].token = call[q].token
              /\ call'[q].ticks = call[q].ticks
      BY <2>1, Started
    <2>3. UNCHANGED <<local, gone>> /\ ~Has(todo, "save_local")
      BY <2>1 DEF Begins, Begin, caches
    <2> QED
      BY <2>2, <2>3 DEF RevocationInv
  <1>2. ASSUME NEW p \in Callers, AccessStep(p) PROVE RevocationInv'
    <2>1. PICK todo \in Seq(Accesses), now \in Calls : Continue(p, todo, now) /\ Proceeds(p, todo, now)
      BY <1>2, AccessProceeds
    <2>2. /\ \A q \in Callers \ {p} : call'[q] = call[q]
          /\ call'[p].todo = todo
          /\ todo # << >> => call'[p].ticks = call[p].ticks /\ call'[p].token = call[p].token
      <3>1. now.token = call[p].token /\ now.ticks = call[p].ticks
        BY <2>1 DEF Proceeds
      <3>2. [now EXCEPT !.todo = todo].ticks = now.ticks /\ [now EXCEPT !.todo = todo].token = now.token
        BY DEF Calls
      <3>3. /\ \A q \in Callers \ {p} : call'[q] = call[q]
            /\ call'[p].todo = todo
            /\ todo # << >> => call'[p] = [now EXCEPT !.todo = todo]
        BY <2>1, Continued
      <3> QED
        BY <3>1, <3>2, <3>3
    <2>3. \A t \in Tokens : gone'[t] = gone[t] \/ gone'[t] = 0
      <3>1. ASSUME NEW keys, gone' = [t \in Tokens |-> IF t \in keys /\ gone[t] < 0 THEN 0 ELSE gone[t]]
            PROVE  \A t \in Tokens : gone'[t] = gone[t] \/ gone'[t] = 0
        BY <3>1
      <3>2. \/ gone' = gone
            \/ \E keys \in SUBSET Tokens :
                 gone' = [t \in Tokens |-> IF t \in keys /\ gone[t] < 0 THEN 0 ELSE gone[t]]
        BY <1>2, RecordsStep
      <3> QED
        BY <3>1, <3>2
    <2>4. ASSUME NEW q \in Callers, Has(call'[q].todo, "save_local")
          PROVE  gone'[call'[q].token] <= call'[q].ticks
      <3>1. call[q].ticks \in Nat
        BY DEF SessionTypeOK, Calls
      <3>2. CASE q = p
        <4>1. Has(todo, "save_local") /\ todo # << >>
          BY <2>2, <2>4, <3>2, NothingIs
        <4>2. call[p].token \in Tokens /\ redis[call[p].token] >= 0
          BY <2>1, <4>1 DEF Proceeds
        <4>3. gone[call[p].token] \in Int /\ gone[call[p].token] <= 0
          <5>1. gone[call[p].token] >= 0 => redis[call[p].token] < 0
            BY <4>2 DEF PairsInv
          <5>2. gone[call[p].token] \in Int /\ redis[call[p].token] \in Int
            BY <4>2 DEF SessionTypeOK
          <5> QED
            BY <4>2, <5>1, <5>2
        <4> QED
          BY <2>2, <2>3, <3>1, <3>2, <4>1, <4>2, <4>3
      <3>3. CASE q # p
        <4>1. Has(call[q].todo, "save_local") /\ call'[q] = call[q]
          BY <2>2, <2>4, <3>3
        <4>2. call[q].token \in Tokens /\ gone[call[q].token] <= call[q].ticks
          BY <4>1, HasToken DEF RevocationInv, OfToken, Lookups
        <4> QED
          BY <2>3, <3>1, <4>1, <4>2
      <3> QED
        BY <3>2, <3>3
    <2>5. ASSUME NEW i \in Instances, NEW t \in Tokens, local'[i][t].found
          PROVE  local'[i][t].left >= 0 /\ gone'[t] + local'[i][t].left <= Grace(t)
      <3>1. /\ gone[t] \in Int /\ local[i][t].left \in -1 .. Life(t) /\ Life(t) \in Nat
            /\ Grace(t) = Life(t) + CallTime /\ CallTime \in Nat
        BY PairFacts, SessionAssumption DEF SessionTypeOK, Grace
      <3>2. CASE local'[i][t] = local[i][t]
        <4>1. local[i][t].left >= 0 /\ gone[t] + local[i][t].left <= Grace(t)
          BY <2>5, <3>2 DEF RevocationInv
        <4> QED
          BY <2>3, <3>1, <3>2, <4>1
      <3>3. CASE local'[i][t] = Found(Life(t)) /\ gone'[t] = gone[t] /\ gone[t] <= CallTime
        <4>1. local'[i][t].left = Life(t)
          BY <3>3 DEF Found
        <4> QED
          BY <3>1, <3>3, <4>1
      <3>4. Has(call[p].todo, "save_local") /\ t = call[p].token => gone[t] <= CallTime
        <4>1. call[p].ticks \in 0 .. CallTime
          BY DEF SessionTypeOK, Calls
        <4> QED
          BY <3>1, <4>1 DEF RevocationInv
      <3>5. PairOf(t) = call[p].pair => gone[t] <= CallTime
        BY <3>1 DEF PairsInv
      <3> QED
        BY <1>2, <2>5, <3>2, <3>3, <3>4, <3>5, LocalStep
    <2> QED
      BY <2>4, <2>5 DEF RevocationInv
  <1>3. CASE Tick
    <2>1. \A p \in Callers :
            /\ call'[p].todo = call[p].todo /\ call'[p].token = call[p].token
            /\ call'[p].ticks = IF Busy(p) THEN call[p].ticks + 1 ELSE call[p].ticks
      BY <1>3, Ticked
    <2>2. ASSUME NEW t \in Tokens
          PROVE  /\ gone[t] \in Int /\ gone'[t] <= gone[t] + 1 /\ gone'[t] \in Int
                 /\ gone[t] < 0 => gone'[t] = gone[t]
      <3>1. gone' = [u \in Tokens |-> IF gone[u] \in 0 .. Grace(u) THEN gone[u] + 1 ELSE gone[u]]
        BY <1>3 DEF Tick
      <3>2. gone[t] \in Int
        BY DEF SessionTypeOK
      <3> QED
        BY <3>1, <3>2
    <2>3. ASSUME NEW p \in Callers, Has(call'[p].todo, "save_local")
          PROVE  gone'[call'[p].token] <= call'[p].ticks
      <3>1. Has(call[p].todo, "save_local") /\ call[p].token \in Tokens /\ Busy(p)
        BY <2>1, <2>3, HasToken DEF OfToken, Lookups
      <3>2. gone[call[p].token] <= call[p].ticks /\ call[p].ticks \in Nat
        BY <3>1 DEF RevocationInv, SessionTypeOK, Calls
      <3>3. gone[call[p].token] \in Int /\ gone'[call[p].token] <= gone[call[p].token] + 1
            /\ gone'[call[p].token] \in Int
        BY <2>2, <3>1
      <3> QED
        BY <2>1, <3>1, <3>2, <3>3
    <2>4. ASSUME NEW i \in Instances, NEW t \in Tokens, local'[i][t].found
          PROVE  local'[i][t].left >= 0 /\ gone'[t] + local'[i][t].left <= Grace(t)
      <3>1. local'[i][t] = Aged(local[i][t])
        BY <1>3 DEF Tick
      <3>2. local[i][t] \in [found : BOOLEAN, left : Int] /\ ~Miss.found
        BY DEF SessionTypeOK, Miss
      <3>3. local[i][t].left > 0 /\ local'[i][t].left = local[i][t].left - 1 /\ local[i][t].found
        BY <2>4, <3>1, <3>2 DEF Aged
      <3>4. gone[t] + local[i][t].left <= Grace(t) /\ Grace(t) \in Nat
        BY <3>3, PairFacts DEF RevocationInv
      <3> QED
        BY <2>2, <3>2, <3>3, <3>4
    <2> QED
      BY <2>3, <2>4 DEF RevocationInv
  <1>4. ASSUME NEW i \in Instances, NEW t \in Tokens, DropExpired(i, t) PROVE RevocationInv'
    <2>1. /\ local' = [local EXCEPT ![i][t] = Miss] /\ ~Miss.found
          /\ UNCHANGED <<call, gone>>
      BY <1>4 DEF DropExpired, history, Miss
    <2>2. \A j \in Instances, u \in Tokens : local'[j][u] = local[j][u] \/ ~local'[j][u].found
      BY <2>1 DEF SessionTypeOK
    <2> QED
      BY <2>1, <2>2 DEF RevocationInv
  <1>5. ASSUME NEW i \in Instances, Restart(i) PROVE RevocationInv'
    <2>1. \A p \in Callers : call'[p] = IF call[p].at = i THEN Idle ELSE call[p]
      BY <1>5, Restarted
    <2>2. gone' = gone /\ local' = [local EXCEPT ![i] = [t \in Tokens |-> Miss]] /\ ~Miss.found
      BY <1>5 DEF Restart, history, Miss
    <2>3. \A j \in Instances, u \in Tokens : local'[j][u] = local[j][u] \/ ~local'[j][u].found
      BY <2>2 DEF SessionTypeOK
    <2> QED
      BY <2>1, <2>2, <2>3, IdleOK DEF RevocationInv
  <1>6. CASE UNCHANGED vars
    BY <1>6 DEF vars, caches, history, RevocationInv
  <1> QED
    BY <1>1, <1>2, <1>3, <1>4, <1>5, <1>6, StepKinds

-----------------------------------------------------------------------------
(* What an undisturbed end leaves *)

LEMMA QuietInit == Init => QuietInv
  <1> SUFFICES ASSUME Init PROVE QuietInv
    OBVIOUS
  <1>1. \A p \in Callers : ~call[p].quiet /\ ~call[p].ends /\ \A w : ~Has(call[p].todo, w)
    BY IdleOK DEF Init, Idle
  <1>2. \A i \in Instances : ended[i] = {}
    BY DEF Init
  <1> QED
    BY <1>1, <1>2 DEF QuietInv

\* Whatever an access does, a token whose record is deleted stays deleted.
LEMMA GoneStays ==
  ASSUME SessionTypeOK, CallsInv, PairsInv, NEW p \in Callers, AccessStep(p), NEW t \in Tokens, gone[t] >= 0
  PROVE  gone'[t] >= 0
  <1>1. gone' = gone \/ \E keys \in SUBSET Tokens :
                           gone' = [u \in Tokens |-> IF u \in keys /\ gone[u] < 0 THEN 0 ELSE gone[u]]
    BY RecordsStep
  <1>2. ASSUME NEW keys \in SUBSET Tokens,
               gone' = [u \in Tokens |-> IF u \in keys /\ gone[u] < 0 THEN 0 ELSE gone[u]]
        PROVE  gone'[t] >= 0
    BY <1>2
  <1> QED
    BY <1>1, <1>2

\* A caller that ends a pair undisturbed gets on with it.
LEMMA EndingGoesOn ==
  ASSUME SessionTypeOK, CallsInv, PairsInv, QuietInv, NEW p \in Callers, AccessStep(p),
         NEW todo \in Seq(Accesses), NEW now \in Calls, Continue(p, todo, now), Proceeds(p, todo, now),
         now.ends, now.quiet, todo # << >> \/ ended' # ended,
         NEW t \in Tokens, PairOf(t) = PairOf(call[p].token)
  PROVE  /\ Has(todo, "delete_both") \/ gone'[t] >= 0
         /\ Has(todo, "drop_both") \/ ~local'[call[p].at][t].found
  <1>1. CASE Has(todo, "delete_both") /\ Has(todo, "drop_both")
    BY <1>1
  <1>2. CASE /\ call[p].ends /\ \A what \in {"delete_both", "drop_both"} :
                   Has(call[p].todo, what) => Has(todo, what) \/ Doing(p, what)
    <2>1. call[p].quiet /\ call[p].token \in Tokens /\ call[p].at \in Instances /\ ~Has(call[p].todo, "save_local")
      BY <1>2, StepIsBusy DEF Proceeds, CallsInv, QuietInv
    <2>2. /\ Has(call[p].todo, "delete_both") \/ gone[t] >= 0
          /\ Has(call[p].todo, "drop_both") \/ ~local[call[p].at][t].found
      BY <1>2, <2>1 DEF QuietInv, Ending, Honoured
    <2>3. Has(todo, "delete_both") \/ gone'[t] >= 0
      <3>1. CASE gone[t] >= 0
        BY <3>1, GoneStays
      <3>2. CASE gone[t] < 0 /\ Doing(p, "delete_both")
        <4>1. call'[p].quiet \/ ended' # ended
          <5>1. CASE todo # << >>
            <6>1. call'[p] = [now EXCEPT !.todo = todo] /\ [now EXCEPT !.todo = todo].quiet = now.quiet
              BY <5>1, Continued DEF Calls
            <6> QED
              BY <6>1
          <5> QED
            BY <5>1
        <4>2. ~SavePair(p)
          BY <3>2 DEF SavePair, Doing
        <4>3. PICK keys \in SUBSET Tokens :
                /\ Doing(p, "delete_both") => keys = {u \in Tokens : PairOf(u) = PairOf(call[p].token)}
                /\ gone' = [u \in Tokens |-> IF u \in keys /\ gone[u] < 0 THEN 0 ELSE gone[u]]
          BY <3>2, <4>1, <4>2, RecordsStep
        <4>4. t \in keys
          BY <3>2, <4>3
        <4> QED
          BY <3>2, <4>3, <4>4
      <3>3. gone[t] \in Int
        BY DEF SessionTypeOK
      <3> QED
        BY <1>2, <2>2, <3>1, <3>2, <3>3
    <2>4. Has(todo, "drop_both") \/ ~local'[call[p].at][t].found
      <3>1. CASE Doing(p, "drop_both")
        BY <2>1, <3>1, LocalStep
      <3>2. CASE ~local[call[p].at][t].found
        <4>1. PairOf(t) # call[p].pair
          BY <2>1 DEF PairsInv
        <4> QED
          BY <2>1, <3>2, <4>1, LocalStep
      <3> QED
        BY <1>2, <2>2, <3>1, <3>2
    <2> QED
      BY <2>3, <2>4
  <1> QED
    BY <1>1, <1>2 DEF Proceeds

LEMMA QuietStep ==
  SessionTypeOK /\ CallsInv /\ QuietInv /\ PairsInv /\ [Next]_vars => QuietInv'
  <1> SUFFICES ASSUME SessionTypeOK, CallsInv, QuietInv, PairsInv, [Next]_vars PROVE QuietInv'
    OBVIOUS
  <1>0. ~Idle.quiet /\ ~Idle.ends /\ Idle.todo = << >> /\ \A w : ~Has(Idle.todo, w)
    BY IdleOK DEF Idle
  <1>1. ASSUME NEW p \in Callers, Starts(p) PROVE QuietInv'
    <2>1. PICK i \in Instances, t \in Tokens \cup {None}, todo \in Seq(Accesses) : Begins(p, i, t, todo)
      BY <1>1, StartBegins
    <2>2. /\ call'[p].todo = todo /\ ~call'[p].ends
          /\ call'[p].quiet => \A q \in Callers : ~Busy(q)
          /\ \A q \in Callers \ {p} :
              /\ call'[q].at = call[q].at /\ call'[q].todo = call[q].todo /\ call'[q].token = call[q].token
              /\ call'[q].ends = call[q].ends /\ ~call'[q].quiet
      <3>1. /\ call'[p].todo = todo /\ ~call'[p].ends
            /\ call'[p].quiet => \A q \in Callers : ~Busy(q)
        BY <2>1, Started
      <3>2. \A q \in Callers \ {p} :
              /\ call'[q].at = call[q].at /\ call'[q].todo = call[q].todo /\ call'[q].token = call[q].token
              /\ call'[q].ends = call[q].ends /\ ~call'[q].quiet
        BY <2>1, Started
      <3> QED
        BY <3>1, <3>2
    <2>3. /\ UNCHANGED <<local, gone, ended>> /\ ~Has(todo, "save_local")
          /\ Has(todo, "find") => ~Has(todo, "create_shop") /\ ~Has(todo, "load_shop")
      BY <2>1 DEF Begins, Begin, caches
    <2>4. \A q, r \in Callers : call'[q].quiet /\ Busy(r)' => r = q
      BY <2>2 DEF Busy
    <2>5. \A q \in Callers : call'[q].ends =>
             /\ ~Has(call'[q].todo, "get") /\ ~Has(call'[q].todo, "save_local")
             /\ call'[q].quiet => Ending(call[q])'
      BY <2>2 DEF QuietInv
    <2>6. \A q \in Callers : call'[q].ends \/ Has(call'[q].todo, "find") =>
             /\ ~Has(call'[q].todo, "create_shop")
             /\ call'[q].quiet => ~Has(call'[q].todo, "load_shop")
      BY <2>2, <2>3 DEF QuietInv
    <2>7. \A j \in Instances, u \in Tokens : PairOf(u) \in ended'[j] =>
             /\ gone'[u] >= 0 /\ ~Honoured(j, u)'
             /\ \A q \in Callers :
                  call'[q].at = j /\ call'[q].token = u => ~Has(call'[q].todo, "save_local")
      BY <2>2, <2>3 DEF QuietInv, Honoured
    <2> QED
      BY <2>4, <2>5, <2>6, <2>7 DEF QuietInv
  <1>2. ASSUME NEW p \in Callers, AccessStep(p) PROVE QuietInv'
    <2>1. PICK todo \in Seq(Accesses), now \in Calls : Continue(p, todo, now) /\ Proceeds(p, todo, now)
      BY <1>2, AccessProceeds
    <2>2. Busy(p) /\ call[p].at \in Instances
          /\ \A w : Has(call[p].todo, w) <=> Todo(p).what = w \/ Has(Rest(p), w)
      BY <1>2, StepIsBusy, RestIs
    <2>3. /\ \A q \in Callers \ {p} : call'[q] = call[q]
          /\ call'[p].todo = todo /\ (todo = << >> => call'[p] = Idle)
          /\ todo # << >> => call'[p] = [now EXCEPT !.todo = todo]
      BY <2>1, Continued
    <2>4. LET next == [now EXCEPT !.todo = todo]
          IN  next.at = now.at /\ next.token = now.token /\ next.ends = now.ends /\ next.quiet = now.quiet
      BY DEF Calls
    <2>5. todo # << >> => /\ call'[p].at = call[p].at /\ call'[p].token = call[p].token
                          /\ call'[p].ends = now.ends /\ call'[p].quiet = now.quiet
      BY <2>1, <2>3, <2>4 DEF Proceeds
    <2>6. call'[p].quiet => call[p].quiet
      <3>1. now.quiet => call[p].quiet
        BY <2>1 DEF Proceeds
      <3> QED
        BY <1>0, <2>3, <2>5, <3>1
    <2>7. \A q \in Callers \ {p} : ~call[q].quiet
      BY <2>2 DEF QuietInv
    <2>8. \A q, r \in Callers : call'[q].quiet /\ Busy(r)' => r = q
      <3>1. \A q \in Callers : call'[q].quiet => call[q].quiet
        BY <2>3, <2>6
      <3>2. \A q \in Callers : Busy(q)' => Busy(q)
        BY <2>2, <2>3 DEF Busy
      <3> QED
        BY <3>1, <3>2 DEF QuietInv
    <2>9. ASSUME NEW q \in Callers, call'[q].ends
          PROVE  /\ ~Has(call'[q].todo, "get") /\ ~Has(call'[q].todo, "save_local")
                 /\ call'[q].quiet => Ending(call[q])'
      <3>1. CASE q # p
        BY <2>3, <2>7, <2>9, <3>1 DEF QuietInv
      <3>2. CASE q = p
        <4>1. todo # << >> /\ now.ends
          BY <1>0, <2>3, <2>5, <2>9, <3>2
        <4>2. ~Has(todo, "get") /\ ~Has(todo, "save_local")
          BY <2>1, <4>1 DEF Proceeds
        <4>3. ASSUME now.quiet, NEW t \in Tokens, PairOf(t) = PairOf(call[p].token)
              PROVE  /\ Has(todo, "delete_both") \/ gone'[t] >= 0
                     /\ Has(todo, "drop_both") \/ ~local'[call[p].at][t].found
          BY <1>2, <2>1, <4>1, <4>3, EndingGoesOn
        <4>4. now.quiet => Ending(call[p])'
          BY <2>3, <2>5, <4>1, <4>3 DEF Ending, Honoured
        <4> QED
          BY <2>3, <2>5, <3>2, <4>1, <4>2, <4>4
      <3> QED
        BY <3>1, <3>2
    <2>10. ASSUME NEW q \in Callers, call'[q].ends \/ Has(call'[q].todo, "find")
           PROVE  /\ ~Has(call'[q].todo, "create_shop")
                  /\ call'[q].quiet => ~Has(call'[q].todo, "load_shop")
      <3>1. CASE q # p
        BY <2>3, <2>10, <3>1 DEF QuietInv
      <3>2. CASE q = p
        <4>1. todo # << >>
          BY <1>0, <2>3, <2>10, <3>2
        <4>2. now.ends => call[p].ends \/ Has(call[p].todo, "find")
          BY <2>1, <2>2 DEF Proceeds, Doing
        <4>3. call[p].ends \/ Has(call[p].todo, "find")
          <5>1. Has(todo, "find") => Has(call[p].todo, "find")
            BY <2>1 DEF Proceeds
          <5> QED
            BY <2>3, <2>5, <2>10, <3>2, <4>1, <4>2, <5>1
        <4>4. ~Has(call[p].todo, "create_shop") /\ (call[p].quiet => ~Has(call[p].todo, "load_shop"))
          BY <4>3 DEF QuietInv
        <4>5. /\ Has(todo, "create_shop") => Has(call[p].todo, "create_shop")
              /\ Has(todo, "load_shop") => Has(call[p].todo, "load_shop") \/ ~now.quiet
          BY <2>1 DEF Proceeds
        <4> QED
          BY <2>3, <2>5, <2>6, <3>2, <4>1, <4>4, <4>5
      <3> QED
        BY <3>1, <3>2
    <2>11. ASSUME NEW i \in Instances, NEW t \in Tokens, PairOf(t) \in ended'[i]
           PROVE  /\ gone'[t] >= 0 /\ ~Honoured(i, t)'
                  /\ \A q \in Callers :
                       call'[q].at = i /\ call'[q].token = t => ~Has(call'[q].todo, "save_local")
      <3>1. ended' = IF todo = << >> /\ now.ends /\ now.quiet
                     THEN [ended EXCEPT ![now.at] = @ \cup {PairOf(now.token)}] ELSE ended
        BY <2>1 DEF Continue
      <3>2. CASE PairOf(t) \in ended[i]
        <4>1. /\ gone[t] >= 0 /\ ~local[i][t].found
              /\ \A q \in Callers : call[q].at = i /\ call[q].token = t => ~Has(call[q].todo, "save_local")
          BY <3>2 DEF QuietInv, Honoured
        <4>2. gone'[t] >= 0
          BY <1>2, <4>1, GoneStays
        <4>3. PairOf(t) # call[p].pair
          BY <4>1 DEF PairsInv
        <4>4. ~local'[i][t].found
          BY <1>2, <4>1, <4>3, LocalStep
        <4>5. ASSUME NEW q \in Callers, call'[q].at = i, call'[q].token = t, Has(call'[q].todo, "save_local")
              PROVE  FALSE
          <5>1. CASE q # p
            BY <2>3, <4>1, <4>5, <5>1
          <5>2. CASE q = p
            <6>1. todo # << >> /\ Has(todo, "save_local")
              BY <1>0, <2>3, <4>5, <5>2
            <6>2. redis[t] >= 0
              BY <2>1, <2>5, <4>5, <5>2, <6>1 DEF Proceeds
            <6>3. redis[t] < 0 /\ redis[t] \in Int
              BY <4>1 DEF PairsInv, SessionTypeOK
            <6> QED
              BY <6>2, <6>3
          <5> QED
            BY <5>1, <5>2
        <4> QED
          BY <4>2, <4>4, <4>5 DEF Honoured
      <3>3. CASE PairOf(t) \notin ended[i]
        <4>1. /\ todo = << >> /\ now.ends /\ now.quiet /\ ended' # ended
              /\ i = now.at /\ PairOf(t) = PairOf(now.token)
          BY <2>11, <3>1, <3>3 DEF SessionTypeOK
        <4>2. now.at = call[p].at /\ now.token = call[p].token /\ call[p].quiet
          BY <2>1, <4>1 DEF Proceeds
        <4>3. ~Has(todo, "delete_both") /\ ~Has(todo, "drop_both")
          BY <4>1, NothingIs
        <4>4. gone'[t] >= 0 /\ ~Honoured(i, t)'
          BY <1>2, <2>1, <4>1, <4>2, <4>3, EndingGoesOn DEF Honoured
        <4>5. \A q \in Callers : ~Has(call'[q].todo, "save_local")
          <5>1. \A q \in Callers \ {p} : ~Busy(q)
            BY <4>2 DEF QuietInv
          <5>2. \A q \in Callers \ {p} : call[q] = Idle
            BY <5>1 DEF CallsInv
          <5> QED
            BY <1>0, <2>3, <4>1, <5>2
        <4> QED
          BY <4>4, <4>5
      <3> QED
        BY <3>2, <3>3
    <2> QED
      BY <2>8, <2>9, <2>10, <2>11 DEF QuietInv
  <1>3. ASSUME \A p \in Callers :
                 \/ call'[p] = Idle
                 \/ /\ call'[p].at = call[p].at /\ call'[p].todo = call[p].todo /\ call'[p].token = call[p].token
                    /\ call'[p].ends = call[p].ends /\ call'[p].quiet = call[p].quiet,
               ended' = ended,
               \A t \in Tokens : gone[t] >= 0 => gone'[t] >= 0,
               \A i \in Instances, t \in Tokens : local'[i][t].found => local[i][t].found
        PROVE  QuietInv'
    <2>1. \A q, r \in Callers : call'[q].quiet /\ Busy(r)' => r = q
      BY <1>0, <1>3 DEF QuietInv, Busy
    <2>2. ASSUME NEW q \in Callers, call'[q].ends
          PROVE  /\ ~Has(call'[q].todo, "get") /\ ~Has(call'[q].todo, "save_local")
                 /\ call'[q].quiet => Ending(call[q])'
      <3>1. /\ call'[q].at = call[q].at /\ call'[q].todo = call[q].todo /\ call'[q].token = call[q].token
            /\ call[q].ends /\ call'[q].quiet = call[q].quiet
        BY <1>0, <1>3, <2>2
      <3>2. ~Has(call[q].todo, "get") /\ ~Has(call[q].todo, "save_local") /\ (call[q].quiet => Ending(call[q]))
        BY <3>1 DEF QuietInv
      <3>3. call[q].at \in Instances
        <4>1. call[q] # Idle
          BY <1>0, <3>1
        <4> QED
          BY <4>1 DEF CallsInv
      <3>4. Ending(call[q]) => Ending(call[q])'
        BY <1>3, <3>1, <3>3 DEF Ending, Honoured
      <3> QED
        BY <3>1, <3>2, <3>4
    <2>3. \A q \in Callers : call'[q].ends \/ Has(call'[q].todo, "find") =>
             /\ ~Has(call'[q].todo, "create_shop")
             /\ call'[q].quiet => ~Has(call'[q].todo, "load_shop")
      BY <1>0, <1>3 DEF QuietInv
    <2>4. \A j \in Instances, u \in Tokens : PairOf(u) \in ended'[j] =>
             /\ gone'[u] >= 0 /\ ~Honoured(j, u)'
             /\ \A q \in Callers :
                  call'[q].at = j /\ call'[q].token = u => ~Has(call'[q].todo, "save_local")
      BY <1>0, <1>3 DEF QuietInv, Honoured
    <2> QED
      BY <2>1, <2>2, <2>3, <2>4 DEF QuietInv
  <1>4. CASE Tick
    <2>1. \A p \in Callers :
            /\ call'[p].at = call[p].at /\ call'[p].todo = call[p].todo /\ call'[p].token = call[p].token
            /\ call'[p].ends = call[p].ends /\ call'[p].quiet = call[p].quiet
      BY <1>4, Ticked
    <2>2. /\ gone' = [u \in Tokens |-> IF gone[u] \in 0 .. Grace(u) THEN gone[u] + 1 ELSE gone[u]]
          /\ local' = [i \in Instances |-> [t \in Tokens |-> Aged(local[i][t])]] /\ ended' = ended
      BY <1>4 DEF Tick
    <2>3. \A t \in Tokens : gone[t] >= 0 => gone'[t] >= 0
      BY <2>2 DEF SessionTypeOK
    <2>4. ASSUME NEW i \in Instances, NEW t \in Tokens, local'[i][t].found PROVE local[i][t].found
      <3>1. local[i][t] \in [found : BOOLEAN, left : Int] /\ ~Miss.found /\ local'[i][t] = Aged(local[i][t])
        BY <2>2 DEF SessionTypeOK, Miss
      <3> QED
        BY <2>4, <3>1 DEF Aged
    <2> QED
      BY <1>3, <2>1, <2>2, <2>3, <2>4
  <1>5. ASSUME NEW i \in Instances, NEW t \in Tokens, DropExpired(i, t) PROVE QuietInv'
    <2>1. /\ local' = [local EXCEPT ![i][t] = Miss] /\ ~Miss.found
          /\ UNCHANGED <<call, gone, ended>>
      BY <1>5 DEF DropExpired, history, Miss
    <2>2. \A j \in Instances, u \in Tokens : local'[j][u].found => local[j][u].found
      BY <2>1 DEF SessionTypeOK
    <2> QED
      BY <1>3, <2>1, <2>2
  <1>6. ASSUME NEW i \in Instances, Restart(i) PROVE QuietInv'
    <2>1. \A p \in Callers : call'[p] = IF call[p].at = i THEN Idle ELSE call[p]
      BY <1>6, Restarted
    <2>2. /\ UNCHANGED <<gone, ended>> /\ ~Miss.found
          /\ local' = [local EXCEPT ![i] = [t \in Tokens |-> Miss]]
      BY <1>6 DEF Restart, history, Miss
    <2>3. \A j \in Instances, u \in Tokens : local'[j][u].found => local[j][u].found
      BY <2>2 DEF SessionTypeOK
    <2> QED
      BY <1>3, <2>1, <2>2, <2>3
  <1>7. CASE UNCHANGED vars
    BY <1>3, <1>7 DEF vars, caches, history
  <1> QED
    BY <1>1, <1>2, <1>4, <1>5, <1>6, <1>7, StepKinds

-----------------------------------------------------------------------------
(* Shops *)

LEMMA ShopInit == Init => ShopInv
  <1> SUFFICES ASSUME Init PROVE ShopInv
    OBVIOUS
  <1>1. \A p \in Callers : call[p] = Idle /\ call[p].todo = << >> /\ \A w : ~Has(call[p].todo, w)
    BY IdleOK DEF Init, Idle
  <1>2. (\A i \in Instances : shops[i] # "none") /\ (\A t \in Tokens : redis[t] < 0) /\ given = {}
    BY DEF Init
  <1> QED
    BY <1>1, <1>2 DEF ShopInv, Busy, Init

\* A shop is put somewhere after it was read.
LEMMA ReadyToUse ==
  ASSUME SessionTypeOK, CallsInv, ShopInv, ~misled, NEW p \in Callers, Busy(p),
         Todo(p).what \in Uses \cup {"save_local"}
  PROVE  call[p].shop = "shop"
  <1>1. Has(call[p].todo, Todo(p).what)
    BY RestIs
  <1>2. CASE Todo(p).what = "save_local"
    BY <1>1, <1>2 DEF ShopInv
  <1>3. CASE Todo(p).what \in Uses
    <2>1. ~Has(Rest(p), "read_owner") /\ Todo(p).what # "read_owner"
      BY <1>3, RestIs DEF Uses
    <2>2. ~Has(call[p].todo, "read_owner")
      BY <2>1, RestIs
    <2> QED
      BY <1>1, <1>3, <2>2 DEF ShopInv
  <1> QED
    BY <1>2, <1>3

LEMMA ShopStep ==
  SessionTypeOK /\ CallsInv /\ QuietInv /\ PairsInv /\ ShopInv /\ [Next]_vars => ShopInv'
  <1> SUFFICES ASSUME SessionTypeOK, CallsInv, QuietInv, PairsInv, ShopInv, [Next]_vars, ~misled'
               PROVE  /\ \A i \in Instances : shops'[i] # "none"
                      /\ \A t \in Tokens : redis'[t] >= 0 => record'[PairOf(t)] = "shop"
                      /\ \A p \in Callers :
                           /\ Has(call'[p].todo, "save_local") => call'[p].shop = "shop"
                           /\ \A what \in Uses : Has(call'[p].todo, what) =>
                                call'[p].shop = "shop" \/ Has(call'[p].todo, "read_owner")
                      /\ account' # "merchant" =>
                           /\ given' = {}
                           /\ \A p \in Callers : call'[p].todo # << >> =>
                                Head(call'[p].todo).what = "create_shop" /\ call'[p].pair = 0
    BY DEF ShopInv, Busy, Todo
  <1> DEFINE Shops == \A i \in Instances : shops'[i] # "none"
             Records == \A t \in Tokens : redis'[t] >= 0 => record'[PairOf(t)] = "shop"
             Caller(p) == /\ Has(call'[p].todo, "save_local") => call'[p].shop = "shop"
                          /\ \A what \in Uses : Has(call'[p].todo, what) =>
                               call'[p].shop = "shop" \/ Has(call'[p].todo, "read_owner")
             Early == account' # "merchant" =>
                        /\ given' = {}
                        /\ \A p \in Callers : call'[p].todo # << >> =>
                             Head(call'[p].todo).what = "create_shop" /\ call'[p].pair = 0
             Goal == Shops /\ Records /\ (\A p \in Callers : Caller(p)) /\ Early
  <1>0. Idle.todo = << >> /\ \A w : ~Has(Idle.todo, w)
    BY IdleOK DEF Idle
  <1>1. ASSUME ~misled
        PROVE  /\ \A i \in Instances : shops[i] # "none"
               /\ \A t \in Tokens : redis[t] >= 0 => record[PairOf(t)] = "shop"
               /\ \A p \in Callers :
                    /\ Has(call[p].todo, "save_local") => call[p].shop = "shop"
                    /\ \A what \in Uses : Has(call[p].todo, what) =>
                         call[p].shop = "shop" \/ Has(call[p].todo, "read_owner")
               /\ account # "merchant" =>
                    /\ given = {}
                    /\ \A p \in Callers : call[p].todo # << >> =>
                         Head(call[p].todo).what = "create_shop" /\ call[p].pair = 0
    BY <1>1 DEF ShopInv, Busy, Todo
  <1>2. ASSUME NEW p \in Callers, Starts(p) PROVE Goal
    <2>1. PICK i \in Instances, t \in Tokens \cup {None}, todo \in Seq(Accesses) : Begins(p, i, t, todo)
      BY <1>2, StartBegins
    <2>2. /\ call'[p].todo = todo /\ call'[p].pair = 0
          /\ \A q \in Callers \ {p} :
              /\ call'[q].todo = call[q].todo /\ call'[q].pair = call[q].pair
              /\ call'[q].shop = call[q].shop
      BY <2>1, Started
    <2>3. /\ UNCHANGED <<redis, record, shops, given>> /\ ~Has(todo, "save_local")
          /\ \A what \in Uses : Has(todo, what) => Has(todo, "read_owner")
          /\ account' = account \/ (account = "none" /\ account' = "user")
          /\ t \in Tokens => PairOf(t) \in given
          /\ account' = "merchant" \/ misled' \/ t \in Tokens \/ Head(todo).what = "create_shop"
          /\ misled => misled'
      BY <2>1 DEF Begins, Begin, caches
    <2>4. ~misled
      BY <2>3, Zenon
    <2>5. Shops /\ Records
      BY <1>1, <2>3, <2>4
    <2>6. \A q \in Callers : Caller(q)
      BY <1>1, <2>2, <2>3, <2>4
    <2>7. Early
      <3>1. ASSUME account' # "merchant"
            PROVE  /\ given' = {}
                   /\ \A q \in Callers : call'[q].todo # << >> =>
                        Head(call'[q].todo).what = "create_shop" /\ call'[q].pair = 0
        <4>1. account # "merchant" /\ given = {}
          BY <1>1, <2>3, <2>4, <3>1
        <4>2. Head(todo).what = "create_shop"
          BY <2>3, <3>1, <4>1
        <4> QED
          BY <1>1, <2>2, <2>3, <2>4, <4>1, <4>2
      <3> QED
        BY <3>1
    <2> QED
      BY <2>5, <2>6, <2>7
  <1>3. ASSUME NEW p \in Callers, AccessStep(p) PROVE Goal
    <2>1. PICK todo \in Seq(Accesses), now \in Calls : Continue(p, todo, now) /\ Proceeds(p, todo, now)
      BY <1>3, AccessProceeds
    <2>2. Busy(p) /\ call[p].at \in Instances /\ call[p].todo # << >>
          /\ \A w : Has(call[p].todo, w) <=> Todo(p).what = w \/ Has(Rest(p), w)
      BY <1>3, StepIsBusy, RestIs DEF Busy
    <2>3. /\ \A q \in Callers \ {p} : call'[q] = call[q]
          /\ call'[p].todo = todo /\ (todo = << >> => call'[p] = Idle)
          /\ todo # << >> => call'[p].shop = now.shop
      <3>1. [now EXCEPT !.todo = todo].shop = now.shop
        BY DEF Calls
      <3>2. /\ \A q \in Callers \ {p} : call'[q] = call[q]
            /\ call'[p].todo = todo /\ (todo = << >> => call'[p] = Idle)
            /\ todo # << >> => call'[p] = [now EXCEPT !.todo = todo]
        BY <2>1, Continued
      <3> QED
        BY <3>1, <3>2
    <2>4. ~misled
      <3>1. misled' = misled \/ misled' = TRUE
        BY <1>3 DEF AccessStep, CreateShop, ReadOwner, LoadShop, SaveShop, SavePair, SaveLocal, SaveNegative,
               DropLocal, DropBoth, GetRecord, FindRecord, DeleteRecords, ReadShop
      <3> QED
        BY <3>1
    <2>5. account = "merchant" \/ (Todo(p).what = "create_shop" /\ call[p].pair = 0)
      BY <2>2, <2>4 DEF ShopInv
    <2>6. Shops
      <3>1. CASE shops' = shops
        BY <1>1, <2>4, <3>1
      <3>2. CASE shops' = [shops EXCEPT ![call[p].at] = call[p].shop] /\ Todo(p).what \in Uses \cup {"save_local"}
        <4>1. call[p].shop = "shop"
          BY <2>2, <2>4, <3>2, ReadyToUse
        <4> QED
          BY <1>1, <2>4, <3>2, <4>1 DEF SessionTypeOK
      <3>3. CASE SaveShop(p) \/ SaveLocal(p)
        BY <3>2, <3>3 DEF SaveShop, SaveLocal, Doing, Uses
      <3>4. CASE ~(SaveShop(p) \/ SaveLocal(p))
        <4>1. shops' = shops
          BY <1>3, <3>4 DEF AccessStep, CreateShop, ReadOwner, LoadShop, SavePair, SaveNegative,
               DropLocal, DropBoth, GetRecord, FindRecord, DeleteRecords, caches
        <4> QED
          BY <3>1, <4>1
      <3> QED
        BY <3>3, <3>4
    <2>7. Records
      <3>1. CASE SavePair(p)
        <4>1. record' = [record EXCEPT ![call[p].pair] = call[p].shop] /\ Todo(p).what = "save_pair"
          BY <3>1 DEF SavePair, Doing
        <4>2. call[p].shop = "shop"
          BY <2>2, <2>4, <4>1, ReadyToUse DEF Uses
        <4>3. \A t \in Tokens : redis'[t] = redis[t] \/ PairOf(t) = call[p].pair
          <5>1. ~DeleteRecords(p)
            BY <4>1 DEF DeleteRecords, Doing
          <5> QED
            BY <1>3, <5>1, RecordsStep
        <4>4. \A t \in Tokens : PairOf(t) \in Pairs /\ record \in [Pairs -> {"none", "shop"}]
          BY PairFacts DEF SessionTypeOK
        <4>5. ASSUME NEW t \in Tokens, redis'[t] >= 0 PROVE record'[PairOf(t)] = "shop"
          <5>1. CASE PairOf(t) = call[p].pair
            BY <4>1, <4>2, <4>4, <5>1
          <5>2. CASE PairOf(t) # call[p].pair
            <6>1. redis'[t] = redis[t]
              BY <4>3, <5>2
            <6> QED
              BY <1>1, <2>4, <4>1, <4>4, <4>5, <5>2, <6>1
          <5> QED
            BY <5>1, <5>2
        <4> QED
          BY <4>5
      <3>2. CASE ~SavePair(p)
        <4>1. record' = record
          BY <1>3, <3>2 DEF AccessStep, CreateShop, ReadOwner, LoadShop, SaveShop, SaveLocal, SaveNegative,
               DropLocal, DropBoth, GetRecord, FindRecord, DeleteRecords, stores
        <4>2. \/ redis' = redis
              \/ \E keys \in SUBSET Tokens : redis' = [t \in Tokens |-> IF t \in keys THEN -1 ELSE redis[t]]
          BY <1>3, <3>2, RecordsStep
        <4>3. \A t \in Tokens : redis'[t] >= 0 => redis[t] >= 0
          <5>1. ASSUME NEW keys \in SUBSET Tokens,
                       redis' = [t \in Tokens |-> IF t \in keys THEN -1 ELSE redis[t]]
                PROVE  \A t \in Tokens : redis'[t] >= 0 => redis[t] >= 0
            BY <5>1
          <5> QED
            BY <4>2, <5>1
        <4> QED
          BY <1>1, <2>4, <4>1, <4>3
      <3> QED
        BY <3>1, <3>2
    <2>8. ASSUME NEW q \in Callers PROVE Caller(q)
      <3>1. CASE q # p
        BY <1>1, <2>3, <2>4, <3>1
      <3>2. CASE q = p /\ todo = << >>
        BY <1>0, <2>3, <3>2
      <3>3. CASE q = p /\ todo # << >>
        <4>1. redis[call[p].token] >= 0 /\ call[p].token \in Tokens => record[PairOf(call[p].token)] = "shop"
          BY <1>1, <2>4
        <4>2. Has(todo, "save_local") => now.shop = "shop"
          BY <2>1, <4>1 DEF Proceeds
        <4>3. ASSUME NEW what \in Uses, Has(todo, what) PROVE now.shop = "shop" \/ Has(todo, "read_owner")
          <5>1. CASE now.shop = call[p].shop /\ Has(call[p].todo, what)
                     /\ (Has(call[p].todo, "read_owner") => Has(todo, "read_owner"))
            BY <1>1, <2>4, <5>1
          <5>2. CASE /\ now.shop = record[PairOf(call[p].token)]
                     /\ redis[call[p].token] >= 0 /\ call[p].token \in Tokens
            BY <4>1, <5>2
          <5>3. CASE now.shop = Shop /\ ~Doing(p, "create_shop")
            <6>1. account = "merchant"
              BY <2>2, <2>5, <5>3 DEF Doing
            <6> QED
              BY <5>3, <6>1 DEF Shop
          <5> QED
            BY <2>1, <4>3, <5>1, <5>2, <5>3 DEF Proceeds
        <4> QED
          BY <2>3, <3>3, <4>2, <4>3
      <3> QED
        BY <3>1, <3>2, <3>3
    <2>9. Early
      <3>1. ASSUME account' # "merchant"
            PROVE  /\ given' = {}
                   /\ \A q \in Callers : call'[q].todo # << >> =>
                        Head(call'[q].todo).what = "create_shop" /\ call'[q].pair = 0
        <4>1. account # "merchant"
          <5>1. account' = account \/ account' = "merchant"
            BY <1>3 DEF AccessStep, CreateShop, ReadOwner, LoadShop, SaveShop, SavePair, SaveLocal, SaveNegative,
                 DropLocal, DropBoth, GetRecord, FindRecord, DeleteRecords, stores
          <5> QED
            BY <3>1, <5>1
        <4>2. Todo(p).what = "create_shop" /\ call[p].pair = 0
          BY <2>5, <4>1
        <4>3. Stop(p)
          BY <1>3, <3>1, <4>2 DEF AccessStep, CreateShop, ReadOwner, LoadShop, SaveShop, SavePair, SaveLocal,
               SaveNegative, DropLocal, DropBoth, GetRecord, FindRecord, DeleteRecords, Doing
        <4>4. Continue(p, << >>, call[p])
          BY <4>3 DEF Stop
        <4>5. given' = given
          BY <4>2, <4>4 DEF Continue
        <4>6. call'[p] = Idle /\ \A q \in Callers \ {p} : call'[q] = call[q]
          BY <4>4 DEF Continue, SessionTypeOK
        <4> QED
          BY <1>0, <1>1, <2>4, <4>1, <4>5, <4>6
      <3> QED
        BY <3>1
    <2> QED
      BY <2>6, <2>7, <2>8, <2>9
  <1>4. CASE Tick
    <2>1. \A p \in Callers : /\ call'[p].todo = call[p].todo /\ call'[p].pair = call[p].pair
                             /\ call'[p].shop = call[p].shop
      BY <1>4, Ticked
    <2>2. /\ redis' = [t \in Tokens |-> IF redis[t] >= 0 THEN redis[t] - 1 ELSE -1]
          /\ UNCHANGED <<account, record, shops, given, misled>>
      BY <1>4 DEF Tick
    <2>3. \A t \in Tokens : redis'[t] >= 0 => redis[t] >= 0
      BY <2>2
    <2> QED
      BY <1>1, <2>1, <2>2, <2>3
  <1>5. ASSUME NEW i \in Instances, NEW t \in Tokens, DropExpired(i, t) PROVE Goal
    BY <1>1, <1>5 DEF DropExpired, stores, history
  <1>6. ASSUME NEW i \in Instances, Restart(i) PROVE Goal
    <2>1. \A p \in Callers : call'[p] = IF call[p].at = i THEN Idle ELSE call[p]
      BY <1>6, Restarted
    <2>2. /\ UNCHANGED <<account, redis, record, given, misled>>
          /\ shops' = [shops EXCEPT ![i] = "unknown"]
      BY <1>6 DEF Restart, stores, history
    <2>3. Shops
      BY <1>1, <2>2 DEF SessionTypeOK
    <2>4. Records
      BY <1>1, <2>2
    <2>5. \A p \in Callers : Caller(p)
      BY <1>0, <1>1, <2>1, <2>2
    <2>6. Early
      BY <1>0, <1>1, <2>1, <2>2
    <2> QED
      BY <2>3, <2>4, <2>5, <2>6
  <1>7. CASE UNCHANGED vars
    BY <1>1, <1>7 DEF vars, stores, caches, history
  <1> QED
    BY <1>2, <1>3, <1>4, <1>5, <1>6, <1>7, StepKinds

-----------------------------------------------------------------------------
(* The theorems *)

SessionInvariant == SessionTypeOK /\ CallsInv /\ PairsInv /\ RevocationInv /\ QuietInv /\ ShopInv

LEMMA SessionInvariance == Spec => []SessionInvariant
  <1>1. Init => SessionInvariant
    BY TypeInit, CallsInit, PairsInit, RevocationInit, QuietInit, ShopInit DEF SessionInvariant
  <1>2. SessionInvariant /\ [Next]_vars => SessionInvariant'
    BY TypeStep, CallsStep, PairsStep, RevocationStep, QuietStep, ShopStep DEF SessionInvariant
  <1> QED
    BY <1>1, <1>2, PTL DEF Spec

\* Every variable of the sessions keeps its type, and no entry of any cache ever
\* has more than a life left.
THEOREM SessionsTyped == Spec => []SessionTypeOK
  <1>1. SessionInvariant => SessionTypeOK
    BY DEF SessionInvariant
  <1> QED
    BY <1>1, SessionInvariance, PTL

\* DeleteSession: a token whose record is deleted is honoured for one more life
\* and the time of a call, at most, whatever the instances do.
THEOREM RevocationTheorem == Spec => []RevocationIsBounded
  <1>1. SessionInvariant => RevocationIsBounded
    <2> SUFFICES ASSUME SessionInvariant, NEW t \in Tokens, gone[t] >= 0
                 PROVE  /\ redis[t] < 0
                        /\ \A i \in Instances : local[i][t].found => gone[t] <= Grace(t)
      BY DEF RevocationIsBounded, Honoured
    <2>1. redis[t] < 0
      BY DEF SessionInvariant, PairsInv
    <2>2. ASSUME NEW i \in Instances, local[i][t].found PROVE gone[t] <= Grace(t)
      <3>1. local[i][t].left >= 0 /\ gone[t] + local[i][t].left <= Grace(t)
        BY <2>2 DEF SessionInvariant, RevocationInv
      <3>2. local[i][t].left \in Int /\ gone[t] \in Int /\ Grace(t) \in Nat
        BY PairFacts DEF SessionInvariant, SessionTypeOK
      <3> QED
        BY <3>1, <3>2
    <2> QED
      BY <2>1, <2>2
  <1> QED
    BY <1>1, SessionInvariance, PTL

\* Logout and the rotation: an undisturbed end is final, in Redis and on the
\* instance that did it, for both tokens.
THEOREM QuietEndTheorem == Spec => []QuietEndIsFinal
  <1>1. SessionInvariant => QuietEndIsFinal
    BY DEF SessionInvariant, QuietInv, PairsInv, QuietEndIsFinal
  <1> QED
    BY <1>1, SessionInvariance, PTL

\* GetMerchantByUserID and SaveSession: a shop is taken for missing only after a
\* login before there was one, or a failed query.
THEOREM ShopTheorem == Spec => []ShopIsNotForgotten
  <1>1. SessionInvariant => ShopIsNotForgotten
    BY DEF SessionInvariant, ShopInv, ShopIsNotForgotten
  <1> QED
    BY <1>1, SessionInvariance, PTL

=============================================================================
