------------------------- MODULE OrderService_proofs -------------------------
(***************************************************************************)
(* The order service is correct for any clients, orders, SKUs, baskets and *)
(* faults: types, locks, legal steps, and then what the orders remember,   *)
(* their timestamps, their idempotency keys, and that an answer "ok" is    *)
(* true.  All of it rests on one inductive invariant, Consistent.          *)
(***************************************************************************)
EXTENDS OrderInvariant, SequenceTheorems, TLAPS

-----------------------------------------------------------------------------
LEMMA InitConsistent == Init => Consistent
  <1> SUFFICES ASSUME Init PROVE Consistent
    OBVIOUS
  <1> USE StoreAssumption, ServiceAssumption
  <1>1. StoreTypeOK
    <2>1. skuRow \in [SKUs -> Row] /\ skuDraft \in [SKUs -> Row]
      BY DEF Init, Row
    <2>2. orders \in [OrderIds -> Order]
      BY DEF Init, Order, NoOrder
    <2>3. locks \in [OrderIds -> Seq(Lock)] /\ journal \in [Tables -> [OrderIds -> Seq(Events)]]
      BY DEF Init
    <2>4. /\ skuHolder \in [SKUs -> Clients \cup {None}]
          /\ online \subseteq Products
          /\ orderHolder \in [OrderIds -> Clients \cup {None}]
      BY DEF Init
    <2> QED
      BY <2>1, <2>2, <2>3, <2>4 DEF StoreTypeOK
  <1>2. ClientTypeOK
    <2>1. NoReq \in Request
      BY DEF NoReq, Request
    <2> QED
      BY <2>1 DEF Init, ClientTypeOK, Statement, NoRow, Row
  <1>3. faults \in 0 .. MaxFaults
    BY DEF Init
  <1>4. ASSUME NEW c \in Clients PROVE Right(c) /\ ~Placing(c)
    BY DEF Init, Right, RightStatement, RightRequest, RightLines, RightOrder, Placing, Moving,
           NoReq, StatusOps
  <1> QED
    BY <1>1, <1>2, <1>3, <1>4 DEF Consistent, TypeOK, DistinctIds

-----------------------------------------------------------------------------
(* What a step of client c leaves of the other handlers *)

\* Their control state and requests, and the rows they hold.
OthersStay(c) ==
  \A d \in Clients \ {c} :
    /\ pc'[d] = pc[d] /\ req'[d] = req[d] /\ todo'[d] = todo[d] /\ pending'[d] = pending[d]
    /\ pc[d] \in {"side", "save", "commit"} => orderHolder'[req[d].order] = d

LEMMA Bystanders ==
  ASSUME Consistent, NEW c \in Clients, OthersStay(c), UNCHANGED <<orders, locks>>,
         NEW d \in Clients \ {c}
  PROVE  Right(d)' /\ (Placing(d)' <=> Placing(d))
  <1> USE DEF OthersStay
  <1>1. Right(d)
    BY DEF Consistent
  <1>2. RightStatement(d)' /\ RightRequest(d)' /\ RightLines(d)'
    BY <1>1 DEF Right, RightStatement, RightRequest, RightLines
  <1>3. RightOrder(d)' /\ (Placing(d)' <=> Placing(d))
    BY <1>1 DEF Right, RightOrder, Placing, Moving
  <1> QED
    BY <1>2, <1>3 DEF Right

\* A step that starts no checkout and moves no order keeps the invariant when
\* it keeps the types and what client c itself relies on.
LEMMA OwnStep ==
  ASSUME Consistent, NEW c \in Clients, OthersStay(c), UNCHANGED <<orders, locks>>,
         TypeOK', Right(c)', Placing(c)' => Placing(c) /\ req'[c] = req[c]
  PROVE  Consistent'
  <1>1. \A d \in Clients : Right(d)'
    BY Bystanders
  <1>2. DistinctIds'
    BY Bystanders DEF DistinctIds, Consistent, OthersStay
  <1> QED
    BY <1>1, <1>2 DEF Consistent

-----------------------------------------------------------------------------
(* The ends of a handler *)

\* A handler that has stopped touching the store has nothing to rely on.
Resting == Answers \cup {"idle"}

LEMMA RestRight ==
  ASSUME NEW c \in Clients, Right(c),
         \/ pc'[c] \in Resting /\ req'[c] \in {req[c], NoReq}
         \/ pc'[c] = "reread" /\ req[c].op \in StatusOps /\ req'[c] = req[c]
  PROVE  Right(c)' /\ ~Placing(c)'
  <1> USE DEF Resting, Answers
  <1>1. ~Placing(c)' /\ ~Moving(c)'
    BY DEF Placing, Moving
  <1>2. RightStatement(c)' /\ RightLines(c)'
    BY DEF Right, RightStatement, RightLines, NoReq
  <1>3. RightRequest(c)'
    <2>1. CASE req'[c] = req[c]
      BY <2>1 DEF Right, RightRequest
    <2>2. CASE req'[c] = NoReq
      BY <2>2 DEF RightRequest, NoReq, StatusOps
    <2> QED
      BY <2>1, <2>2
  <1>4. RightOrder(c)'
    BY <1>1 DEF RightOrder
  <1> QED
    BY <1>1, <1>2, <1>3, <1>4 DEF Right

LEMMA RestEnds ==
  ASSUME Consistent, NEW c \in Clients, OthersStay(c), UNCHANGED <<orders, locks>>, TypeOK',
         \/ pc'[c] \in Resting /\ req'[c] \in {req[c], NoReq}
         \/ pc'[c] = "reread" /\ req[c].op \in StatusOps /\ req'[c] = req[c]
  PROVE  Consistent'
  <1>1. Right(c)' /\ ~Placing(c)'
    BY RestRight DEF Consistent
  <1> QED
    BY <1>1, OwnStep

LEMMA SettleType ==
  ASSUME TypeOK, NEW c \in Clients, Settle(c)
  PROVE  /\ todo' \in [Clients -> SUBSET (Nat \ {0})] /\ row' \in [Clients -> Row]
         /\ \A d \in Clients \ {c} : todo'[d] = todo[d]
  BY DEF TypeOK, ClientTypeOK, Settle, NoRow, Row

\* ROLLBACK keeps the types, the committed rows and what the others hold.
LEMMA RollbackEffect ==
  ASSUME TypeOK, NEW c \in Clients, Rollback(c)
  PROVE  /\ StoreTypeOK'
         /\ UNCHANGED <<orders, locks, skuRow, journal>>
         /\ \A o \in OrderIds, d \in Clients \ {c} : orderHolder[o] = d => orderHolder'[o] = d
  <1> USE DEF TypeOK, StoreTypeOK, Rollback, ReleaseRows
  <1>1. /\ skuDraft' \in [SKUs -> Row]
        /\ skuHolder' \in [SKUs -> Clients \cup {None}]
        /\ orderHolder' \in [OrderIds -> Clients \cup {None}]
    OBVIOUS
  <1>2. UNCHANGED <<skuRow, online, orders, locks, journal>>
    OBVIOUS
  <1>3. \A o \in OrderIds, d \in Clients \ {c} : orderHolder[o] = d => orderHolder'[o] = d
    OBVIOUS
  <1> QED
    BY <1>1, <1>2, <1>3

\* The order of a handler between two statements of a transaction is an order id.
LEMMA HeldOrder ==
  ASSUME Consistent, NEW d \in Clients, pc[d] \in {"side", "save", "commit"}
  PROVE  req[d].order \in OrderIds /\ orderHolder[req[d].order] = d
  BY DEF Consistent, Right, RightStatement, RightRequest, RightOrder, InventoryOps, StatusOps

LEMMA AbortStep ==
  ASSUME Consistent, NEW c \in Clients, NEW where, Abort(c, where),
         where \in Answers \/ (where = "reread" /\ req[c].op \in StatusOps),
         faults' \in 0 .. MaxFaults
  PROVE  Consistent'
  <1>1. TypeOK /\ Rollback(c) /\ Goto(c, where) /\ Settle(c) /\ UNCHANGED <<req, pending>>
    BY DEF Consistent, Abort
  <1>2. pc' \in [Clients -> Statement] /\ pc'[c] = where /\ \A d \in Clients \ {c} : pc'[d] = pc[d]
    BY <1>1 DEF Goto, TypeOK, ClientTypeOK, Statement
  <1>3. TypeOK'
    BY <1>1, <1>2, RollbackEffect, SettleType DEF TypeOK, ClientTypeOK
  <1>4. OthersStay(c)
    BY <1>1, <1>2, RollbackEffect, SettleType, HeldOrder DEF OthersStay
  <1>5. UNCHANGED <<orders, locks>>
    BY <1>1, RollbackEffect
  <1> QED
    BY <1>1, <1>2, <1>3, <1>4, <1>5, RestEnds DEF Resting

LEMMA AnswerStep ==
  ASSUME Consistent, NEW c \in Clients, NEW answer \in Answers, Answer(c, answer),
         UNCHANGED <<store, faults>>
  PROVE  Consistent'
  <1>1. TypeOK /\ Goto(c, answer) /\ Settle(c) /\ UNCHANGED <<req, pending>>
    BY DEF Consistent, Answer
  <1>2. pc' \in [Clients -> Statement] /\ pc'[c] = answer /\ \A d \in Clients \ {c} : pc'[d] = pc[d]
    BY <1>1 DEF Goto, TypeOK, ClientTypeOK, Statement
  <1>3. TypeOK'
    BY <1>1, <1>2, SettleType DEF TypeOK, StoreTypeOK, ClientTypeOK, store
  <1>4. OthersStay(c) /\ UNCHANGED <<orders, locks>>
    BY <1>1, <1>2, SettleType, HeldOrder DEF OthersStay, store
  <1> QED
    BY <1>1, <1>2, <1>3, <1>4, RestEnds DEF Resting

-----------------------------------------------------------------------------
(* Step by step *)

LEMMA Elements ==
  ASSUME NEW S, NEW seq \in Seq(S), NEW i \in DOMAIN seq
  PROVE  seq[i] \in S /\ i \in Nat \ {0}
  OBVIOUS

LEMMA ReturnStep ==
  ASSUME Consistent, NEW c \in Clients, Return(c)
  PROVE  Consistent'
  <1>1. NoReq \in Request
    BY DEF NoReq, Request
  <1>2. /\ pc' \in [Clients -> Statement] /\ pc'[c] = "idle"
        /\ req' \in [Clients -> Request] /\ req'[c] = NoReq
        /\ \A d \in Clients \ {c} : pc'[d] = pc[d] /\ req'[d] = req[d]
    BY <1>1 DEF Return, Goto, Consistent, TypeOK, ClientTypeOK, Statement
  <1>3. TypeOK'
    BY <1>2 DEF Return, Consistent, TypeOK, StoreTypeOK, ClientTypeOK, store
  <1>4. OthersStay(c) /\ UNCHANGED <<orders, locks>>
    BY <1>2, HeldOrder DEF Return, OthersStay, store
  <1> QED
    BY <1>2, <1>3, <1>4, RestEnds DEF Resting

LEMMA RereadStep ==
  ASSUME Consistent, NEW c \in Clients, Reread(c)
  PROVE  Consistent'
  <1>1. /\ pc' \in [Clients -> Statement] /\ pc'[c] \in Answers
        /\ \A d \in Clients \ {c} : pc'[d] = pc[d]
    BY DEF Reread, Goto, Consistent, TypeOK, ClientTypeOK, Statement, Answers
  <1>2. TypeOK'
    BY <1>1 DEF Reread, Consistent, TypeOK, StoreTypeOK, ClientTypeOK, store
  <1>3. OthersStay(c) /\ UNCHANGED <<orders, locks>>
    BY <1>1, HeldOrder DEF Reread, OthersStay, store
  <1> QED
    BY <1>1, <1>2, <1>3, RestEnds DEF Resting, Reread

LEMMA CheckLineStep ==
  ASSUME Consistent, NEW c \in Clients, CheckLine(c)
  PROVE  Consistent'
  <1>1. PICK i \in todo[c] :
          \/ /\ \/ Goto(c, "reserve") /\ todo' = [todo EXCEPT ![c] = DOMAIN req[c].items]
                \/ todo[c] # {i} /\ LineDone(c, i, "check", "check")
             /\ UNCHANGED <<req, row, pending>>
          \/ \E verdict \in {"invalid", "conflict"} : Answer(c, verdict)
    BY DEF CheckLine, LineVerdict
  <1>2. UNCHANGED <<store, faults>> /\ pc[c] = "check"
    BY DEF CheckLine
  <1>3. CASE \E verdict \in {"invalid", "conflict"} : Answer(c, verdict)
    BY <1>2, <1>3, AnswerStep DEF Answers
  <1>4. CASE /\ \/ Goto(c, "reserve") /\ todo' = [todo EXCEPT ![c] = DOMAIN req[c].items]
                \/ todo[c] # {i} /\ LineDone(c, i, "check", "check")
             /\ UNCHANGED <<req, row, pending>>
    <2>1. req[c].op = "CreateOrder" /\ req[c].items \in Seq(Item)
      BY <1>2, ServiceAssumption DEF Consistent, Right, RightStatement, RightRequest
    <2>2. /\ pc' \in [Clients -> Statement] /\ pc'[c] \in {"check", "reserve"}
          /\ \A d \in Clients \ {c} : pc'[d] = pc[d]
      BY <1>4 DEF Goto, LineDone, Consistent, TypeOK, ClientTypeOK, Statement, InTx
    <2>3. /\ todo' \in [Clients -> SUBSET (Nat \ {0})]
          /\ todo'[c] \subseteq DOMAIN req[c].items
          /\ \A d \in Clients \ {c} : todo'[d] = todo[d]
      <3>1. todo[c] \subseteq DOMAIN req[c].items /\ DOMAIN req[c].items \subseteq Nat \ {0}
        BY <1>2, <2>1, Elements DEF Consistent, Right, RightLines
      <3> QED
        BY <1>4, <3>1 DEF LineDone, Consistent, TypeOK, ClientTypeOK
    <2>4. TypeOK'
      BY <1>2, <1>4, <2>2, <2>3 DEF Consistent, TypeOK, StoreTypeOK, ClientTypeOK, store
    <2>5. OthersStay(c) /\ UNCHANGED <<orders, locks>>
      BY <1>2, <1>4, <2>2, <2>3, HeldOrder DEF OthersStay, store
    <2>6. Right(c)' /\ Placing(c)
      BY <1>2, <1>4, <2>1, <2>2, <2>3
         DEF Consistent, Right, RightStatement, RightRequest, RightLines, RightOrder, Placing, Moving, store
    <2> QED
      BY <1>4, <2>4, <2>5, <2>6, OwnStep
  <1> QED
    BY <1>1, <1>3, <1>4

LEMMA VisibleType ==
  ASSUME TypeOK, NEW c \in Clients, NEW s \in SKUs
  PROVE  Visible(c, s) \in Row
  BY DEF TypeOK, StoreTypeOK, Visible

LEMMA ReserveSKUStep ==
  ASSUME Consistent, NEW c \in Clients, ReserveSKU(c)
  PROVE  Consistent'
  <1>1. PICK i \in todo[c] :
          \/ Abort(c, "conflict")
          \/ LET s == req[c].items[i].sku
             IN  /\ WriteSKU(c, s, [Visible(c, s) EXCEPT !.locked = @ + req[c].items[i].qty])
                 /\ LineDone(c, i, "reserve", "insert")
                 /\ UNCHANGED <<skuRow, online, orders, orderHolder, locks, journal>>
                 /\ UNCHANGED <<req, row, pending>>
    BY DEF ReserveSKU
  <1>2. UNCHANGED faults /\ pc[c] = "reserve"
    BY DEF ReserveSKU
  <1>3. CASE Abort(c, "conflict")
    BY <1>2, <1>3, AbortStep DEF Answers, Consistent, TypeOK
  <1>4. CASE ~Abort(c, "conflict")
    <2> DEFINE s == req[c].items[i].sku
               r == [Visible(c, s) EXCEPT !.locked = @ + req[c].items[i].qty]
    <2>1. /\ WriteSKU(c, s, r) /\ LineDone(c, i, "reserve", "insert")
          /\ UNCHANGED <<skuRow, online, orders, orderHolder, locks, journal>>
          /\ UNCHANGED <<req, row, pending>>
      BY <1>1, <1>4
    <2>2. req[c].op = "CreateOrder" /\ req[c].items[i] \in Item
      <3>1. req[c].op = "CreateOrder" /\ req[c].items \in Seq(Item)
        BY <1>2, ServiceAssumption DEF Consistent, Right, RightStatement, RightRequest
      <3>2. i \in DOMAIN req[c].items
        BY <1>2 DEF Consistent, Right, RightLines
      <3> QED
        BY <3>1, <3>2, Elements
    <2>3. r \in Row
      <3>1. s \in SKUs /\ req[c].items[i].qty \in Int
        BY <2>2 DEF Item
      <3>2. Visible(c, s) \in Row
        BY <3>1, VisibleType DEF Consistent
      <3> QED
        BY <3>1, <3>2 DEF Row
    <2>4. skuDraft' \in [SKUs -> Row] /\ skuHolder' \in [SKUs -> Clients \cup {None}]
      BY <2>1, <2>3 DEF WriteSKU, Consistent, TypeOK, StoreTypeOK
    <2>5. /\ pc' \in [Clients -> Statement] /\ pc'[c] \in {"reserve", "insert"}
          /\ todo' \in [Clients -> SUBSET (Nat \ {0})] /\ todo'[c] \subseteq todo[c]
          /\ \A d \in Clients \ {c} : pc'[d] = pc[d] /\ todo'[d] = todo[d]
      BY <2>1 DEF Goto, LineDone, Consistent, TypeOK, ClientTypeOK, Statement, InTx
    <2>6. TypeOK'
      BY <1>2, <2>1, <2>4, <2>5 DEF Consistent, TypeOK, StoreTypeOK, ClientTypeOK
    <2>7. OthersStay(c)
      BY <2>1, <2>5, HeldOrder DEF OthersStay
    <2>8. Right(c)' /\ Placing(c)
      BY <1>2, <2>1, <2>2, <2>5
         DEF Consistent, Right, RightStatement, RightRequest, RightLines, RightOrder, Placing, Moving
    <2> QED
      BY <2>1, <2>6, <2>7, <2>8, OwnStep
  <1> QED
    BY <1>3, <1>4

\* An order with a checkout on its way to it is held by no other handler.
LEMMA FreshIsUnheld ==
  ASSUME Consistent, NEW c \in Clients, NEW d \in Clients \ {c},
         pc[c] \in {"check", "reserve", "insert"}, pc[d] \in {"side", "save", "commit"}
  PROVE  req[c].order # req[d].order
  <1>1. Placing(c) /\ orders[req[c].order].status = "NONE"
    BY DEF Placing, Consistent, Right, RightOrder
  <1>2. CASE Placing(d)
    BY <1>1, <1>2 DEF Consistent, DistinctIds
  <1>3. CASE Moving(d)
    BY <1>1, <1>3 DEF Consistent, Right, RightOrder, CanTransition, legalTransitions
  <1> QED
    BY <1>2, <1>3 DEF Placing, Moving, Consistent, Right, RightStatement

LEMMA InsertOrderStep ==
  ASSUME Consistent, NEW c \in Clients, InsertOrder(c)
  PROVE  Consistent'
  <1>1. UNCHANGED faults /\ pc[c] = "insert"
    BY DEF InsertOrder
  <1>2. CASE Abort(c, "error")
    BY <1>1, <1>2, AbortStep DEF Answers, Consistent, TypeOK
  <1>3. CASE ~Abort(c, "error")
    <2>1. /\ orderHolder' = [orderHolder EXCEPT ![req[c].order] = c]
          /\ Goto(c, "commit")
          /\ UNCHANGED <<skuRow, skuDraft, skuHolder, online, orders, locks, journal>>
          /\ UNCHANGED <<req, todo, row, pending>>
      BY <1>3 DEF InsertOrder
    <2>2. req[c].op = "CreateOrder" /\ req[c].order \in OrderIds
      BY <1>1 DEF Consistent, Right, RightStatement, RightRequest
    <2>3. /\ pc' \in [Clients -> Statement] /\ pc'[c] = "commit"
          /\ \A d \in Clients \ {c} : pc'[d] = pc[d]
      BY <2>1 DEF Goto, Consistent, TypeOK, ClientTypeOK, Statement, InTx
    <2>4. TypeOK'
      BY <1>1, <2>1, <2>2, <2>3 DEF Consistent, TypeOK, StoreTypeOK, ClientTypeOK
    <2>5. OthersStay(c)
      BY <1>1, <2>1, <2>2, <2>3, HeldOrder, FreshIsUnheld DEF OthersStay, Consistent, TypeOK, StoreTypeOK
    <2>6. Right(c)' /\ Placing(c)
      BY <1>1, <2>1, <2>2, <2>3
         DEF Consistent, TypeOK, StoreTypeOK, Right, RightStatement, RightRequest, RightLines, RightOrder,
             Placing, Moving, StatusOps
    <2> QED
      BY <2>1, <2>4, <2>5, <2>6, OwnStep
  <1> QED
    BY <1>2, <1>3

LEMMA LockOrderStep ==
  ASSUME Consistent, NEW c \in Clients, LockOrder(c)
  PROVE  Consistent'
  <1> DEFINE o == req[c].order
  <1>1. UNCHANGED faults /\ pc[c] = "lock" /\ req[c].op \in StatusOps /\ o \in OrderIds
    BY DEF LockOrder, Consistent, Right, RightStatement, RightRequest
  <1>2. CASE Abort(c, "reread")
    BY <1>1, <1>2, AbortStep DEF Consistent, TypeOK
  <1>3. CASE ~Abort(c, "reread")
    <2>1. /\ Free(orderHolder[o], c)
          /\ orders[o].status = req[c].from
          /\ orderHolder' = [orderHolder EXCEPT ![o] = c]
          /\ \/ /\ req[c].op \in InventoryOps
                /\ todo' = [todo EXCEPT ![c] = DOMAIN locks[o]]
                /\ Goto(c, "side")
             \/ /\ req[c].op \notin InventoryOps
                /\ UNCHANGED todo
                /\ Goto(c, "commit")
          /\ UNCHANGED <<skuRow, skuDraft, skuHolder, online, orders, locks, journal>>
          /\ UNCHANGED <<req, row, pending>>
      BY <1>3 DEF LockOrder, Stale
    <2>2. DOMAIN locks[o] \subseteq Nat \ {0}
      BY <1>1, Elements DEF Consistent, TypeOK, StoreTypeOK
    <2>3. /\ pc' \in [Clients -> Statement]
          /\ todo' \in [Clients -> SUBSET (Nat \ {0})]
          /\ \/ pc'[c] = "side" /\ req[c].op \in InventoryOps /\ todo'[c] = DOMAIN locks[o]
             \/ pc'[c] = "commit"
          /\ \A d \in Clients \ {c} : pc'[d] = pc[d] /\ todo'[d] = todo[d]
      BY <2>1, <2>2 DEF Goto, Consistent, TypeOK, ClientTypeOK, Statement, InTx
    <2>4. TypeOK'
      BY <1>1, <2>1, <2>3 DEF Consistent, TypeOK, StoreTypeOK, ClientTypeOK
    <2>5. OthersStay(c)
      <3>1. \A d \in Clients \ {c} : pc[d] \in {"side", "save", "commit"} => req[d].order # o
        BY <2>1, HeldOrder, StoreAssumption DEF Free
      <3> QED
        BY <1>1, <2>1, <2>3, <3>1, HeldOrder DEF OthersStay, Consistent, TypeOK, StoreTypeOK
    <2>6. orderHolder'[o] = c /\ ~Placing(c)'
      BY <1>1, <2>1, <2>3 DEF Consistent, TypeOK, StoreTypeOK, Placing, StatusOps
    <2>7. RightStatement(c)' /\ RightRequest(c)' /\ RightLines(c)'
      BY <1>1, <2>1, <2>3 DEF Consistent, Right, RightStatement, RightRequest, RightLines
    <2>8. RightOrder(c)'
      BY <1>1, <2>1, <2>3, <2>6 DEF Consistent, Right, RightOrder
    <2> QED
      BY <2>1, <2>4, <2>5, <2>6, <2>7, <2>8, OwnStep DEF Right
  <1> QED
    BY <1>2, <1>3

\* The lock a handler works on next.
LEMMA NextLock ==
  ASSUME Consistent, NEW c \in Clients, pc[c] \in {"side", "save"}, NEW i \in todo[c]
  PROVE  /\ req[c].op \in InventoryOps /\ req[c].order \in OrderIds
         /\ locks[req[c].order][i] \in Lock
  <1>1. req[c].op \in InventoryOps /\ req[c].order \in OrderIds
    BY DEF Consistent, Right, RightStatement, RightRequest, InventoryOps, StatusOps
  <1>2. i \in DOMAIN locks[req[c].order]
    BY DEF Consistent, Right, RightLines
  <1>3. locks[req[c].order] \in Seq(Lock)
    BY <1>1 DEF Consistent, TypeOK, StoreTypeOK
  <1> QED
    BY <1>1, <1>2, <1>3, Elements

LEMMA ReadSKUStep ==
  ASSUME Consistent, NEW c \in Clients, ReadSKU(c)
  PROVE  Consistent'
  <1>1. PICK i \in todo[c] : row' = [row EXCEPT ![c] = Visible(c, locks[req[c].order][i].sku)]
    BY DEF ReadSKU
  <1>2. pc[c] = "side" /\ Goto(c, "save") /\ UNCHANGED <<store, req, todo, pending, faults>>
    BY DEF ReadSKU
  <1>3. Visible(c, locks[req[c].order][i].sku) \in Row
    BY <1>2, NextLock, VisibleType DEF Lock, Consistent
  <1>4. /\ pc' \in [Clients -> Statement] /\ pc'[c] = "save"
        /\ \A d \in Clients \ {c} : pc'[d] = pc[d]
        /\ row' \in [Clients -> Row]
    BY <1>1, <1>2, <1>3 DEF Goto, Consistent, TypeOK, ClientTypeOK, Statement, InTx
  <1>5. TypeOK'
    BY <1>2, <1>4 DEF Consistent, TypeOK, StoreTypeOK, ClientTypeOK, store
  <1>6. OthersStay(c) /\ UNCHANGED <<orders, locks>>
    BY <1>2, <1>4, HeldOrder DEF OthersStay, store
  <1>7. Right(c)' /\ ~Placing(c)'
    BY <1>2, <1>4
       DEF Consistent, Right, RightStatement, RightRequest, RightLines, RightOrder, Placing, Moving, store
  <1> QED
    BY <1>5, <1>6, <1>7, OwnStep

LEMMA MovedType ==
  ASSUME NEW op, NEW r \in Row, NEW lock \in Lock
  PROVE  Moved(op, r, lock) \in Row
  <1>1. CASE op = "PayOrder"
    <2>1. Moved(op, r, lock) = [r EXCEPT !.stock = @ - lock.qty, !.locked = @ - lock.qty]
      BY <1>1 DEF Moved
    <2>2. r.stock - lock.qty \in Int /\ r.locked - lock.qty \in Int
      BY DEF Row, Lock
    <2> QED
      BY <2>1, <2>2 DEF Row
  <1>2. CASE op = "CancelOrder" /\ lock.status = "locked"
    BY <1>2 DEF Moved, Row, Lock
  <1>3. CASE op = "MerchantApproveRefund" /\ lock.status = "confirmed"
    BY <1>3 DEF Moved, Row, Lock
  <1> QED
    BY <1>1, <1>2, <1>3 DEF Moved

LEMMA SaveSKUStep ==
  ASSUME Consistent, NEW c \in Clients, SaveSKU(c)
  PROVE  Consistent'
  <1> DEFINE lock(i) == locks[req[c].order][i]
  <1>1. PICK i \in todo[c] :
          \/ Abort(c, "reread")
          \/ /\ WriteSKU(c, lock(i).sku, Moved(req[c].op, row[c], lock(i)))
             /\ LineDone(c, i, "side", "commit")
             /\ row' = [row EXCEPT ![c] = NoRow]
             /\ UNCHANGED <<skuRow, online, orders, orderHolder, locks, journal>>
             /\ UNCHANGED <<req, pending>>
    BY DEF SaveSKU
  <1>2. UNCHANGED faults /\ pc[c] = "save"
    BY DEF SaveSKU
  <1>3. req[c].op \in InventoryOps /\ lock(i) \in Lock
    BY <1>2, NextLock
  <1>4. CASE Abort(c, "reread")
    BY <1>2, <1>3, <1>4, AbortStep DEF Consistent, TypeOK, InventoryOps, StatusOps
  <1>5. CASE ~Abort(c, "reread")
    <2>1. /\ WriteSKU(c, lock(i).sku, Moved(req[c].op, row[c], lock(i)))
          /\ LineDone(c, i, "side", "commit")
          /\ row' = [row EXCEPT ![c] = NoRow]
          /\ UNCHANGED <<skuRow, online, orders, orderHolder, locks, journal>>
          /\ UNCHANGED <<req, pending>>
      BY <1>1, <1>5
    <2>2. Moved(req[c].op, row[c], lock(i)) \in Row /\ lock(i).sku \in SKUs
      BY <1>3, MovedType DEF Consistent, TypeOK, ClientTypeOK, Lock
    <2>3. skuDraft' \in [SKUs -> Row] /\ skuHolder' \in [SKUs -> Clients \cup {None}]
      BY <2>1, <2>2 DEF WriteSKU, Consistent, TypeOK, StoreTypeOK
    <2>4. /\ pc' \in [Clients -> Statement] /\ pc'[c] \in {"side", "commit"}
          /\ todo' \in [Clients -> SUBSET (Nat \ {0})] /\ todo'[c] \subseteq todo[c]
          /\ row' \in [Clients -> Row]
          /\ \A d \in Clients \ {c} : pc'[d] = pc[d] /\ todo'[d] = todo[d]
      BY <2>1 DEF Goto, LineDone, NoRow, Row, Consistent, TypeOK, ClientTypeOK, Statement, InTx
    <2>5. TypeOK'
      BY <1>2, <2>1, <2>3, <2>4 DEF Consistent, TypeOK, StoreTypeOK, ClientTypeOK
    <2>6. OthersStay(c)
      BY <2>1, <2>4, HeldOrder DEF OthersStay
    <2>7. ~Placing(c)'
      BY <1>3, <2>1, <2>4 DEF Placing, InventoryOps
    <2>8. RightStatement(c)' /\ RightRequest(c)' /\ RightLines(c)'
      BY <1>2, <1>3, <2>1, <2>4
         DEF Consistent, Right, RightStatement, RightRequest, RightLines, InventoryOps, StatusOps
    <2>9. RightOrder(c)'
      BY <1>2, <2>1, <2>4, <2>7 DEF Consistent, Right, RightOrder, Moving
    <2> QED
      BY <2>1, <2>5, <2>6, <2>7, <2>8, <2>9, OwnStep DEF Right
  <1> QED
    BY <1>4, <1>5

-----------------------------------------------------------------------------
(* COMMIT *)

LEMMA PublishSKUsEffect ==
  ASSUME TypeOK, NEW c \in Clients, PublishSKUs(c)
  PROVE  /\ skuRow' \in [SKUs -> Row] /\ skuDraft' \in [SKUs -> Row]
         /\ skuHolder' \in [SKUs -> Clients \cup {None}]
         /\ orderHolder' \in [OrderIds -> Clients \cup {None}]
         /\ online' \subseteq Products
         /\ \A o \in OrderIds, d \in Clients \ {c} : orderHolder[o] = d => orderHolder'[o] = d
  <1> USE DEF TypeOK, StoreTypeOK, PublishSKUs, ReleaseRows
  <1>1. skuRow' \in [SKUs -> Row]
    BY VisibleType
  <1>2. /\ skuHolder' \in [SKUs -> Clients \cup {None}]
        /\ orderHolder' \in [OrderIds -> Clients \cup {None}]
        /\ \A o \in OrderIds, d \in Clients \ {c} : orderHolder[o] = d => orderHolder'[o] = d
    OBVIOUS
  <1> QED
    BY <1>1, <1>2

LEMMA FunctionSeq ==
  ASSUME NEW S, NEW n \in Nat, NEW f \in [1 .. n -> S]
  PROVE  f \in Seq(S)
  OBVIOUS

LEMMA AppendToType ==
  ASSUME journal \in [Tables -> [OrderIds -> Seq(Events)]],
         NEW tables, NEW o \in OrderIds, NEW event \in Events, AppendTo(tables, o, event)
  PROVE  journal' \in [Tables -> [OrderIds -> Seq(Events)]]
  <1>1. \A t \in Tables : Append(journal[t][o], event) \in Seq(Events)
    OBVIOUS
  <1>2. \A t \in Tables : [journal[t] EXCEPT ![o] = Append(@, event)] \in [OrderIds -> Seq(Events)]
    BY <1>1
  <1> QED
    BY <1>2 DEF AppendTo

LEMMA PlacedOrderType ==
  ASSUME NEW r \in Request, r.actor \in Users, r.key \in Keys, r.items \in Baskets
  PROVE  /\ PlacedOrder(r) \in Order
         /\ PlacedOrder(r).status = "CREATED" /\ PlacedOrder(r).stamps = {}
         /\ PlacedOrder(r).user = r.actor /\ PlacedOrder(r).key = r.key
  <1>1. r.items[1] \in Item
    BY ServiceAssumption
  <1>2. SkuMerchant(r.items[1].sku) \in Merchants
    BY <1>1, StoreAssumption, ServiceAssumption DEF SkuMerchant, Item
  <1> QED
    BY <1>2 DEF PlacedOrder, Order, OrderStatuses

LEMMA PlacedLocksType ==
  ASSUME NEW items \in Seq(Item)
  PROVE  /\ PlacedLocks(items) \in Seq(Lock)
         /\ DOMAIN PlacedLocks(items) = DOMAIN items
         /\ \A i \in DOMAIN items :
              /\ PlacedLocks(items)[i].sku = items[i].sku
              /\ PlacedLocks(items)[i].qty = items[i].qty
              /\ PlacedLocks(items)[i].status = "locked"
  <1> DEFINE lock(i) == [sku |-> items[i].sku, qty |-> items[i].qty, status |-> "locked"]
  <1>1. ASSUME NEW i \in 1 .. Len(items) PROVE lock(i) \in Lock
    <2>1. items[i] \in Item
      OBVIOUS
    <2> QED
      BY <2>1 DEF Item, Lock
  <1>2. PlacedLocks(items) = [i \in 1 .. Len(items) |-> lock(i)]
    BY DEF PlacedLocks
  <1> HIDE DEF lock
  <1>3. PlacedLocks(items) \in [1 .. Len(items) -> Lock]
    BY <1>1, <1>2
  <1>4. PlacedLocks(items) \in Seq(Lock)
    BY <1>3, FunctionSeq
  <1> QED
    BY <1>4 DEF PlacedLocks

LEMMA AdvanceType ==
  ASSUME NEW order \in Order, NEW to \in OrderStatuses
  PROVE  /\ Advance(order, to) \in Order
         /\ Advance(order, to).status = to
         /\ Advance(order, to).stamps = order.stamps \cup ({to} \cap Stamped)
         /\ Advance(order, to).user = order.user /\ Advance(order, to).key = order.key
  BY DEF Advance, Order

LEMMA RelockType ==
  ASSUME NEW held \in Seq(Lock), NEW op
  PROVE  /\ Relock(held, op) \in Seq(Lock)
         /\ DOMAIN Relock(held, op) = DOMAIN held
         /\ \A i \in DOMAIN held :
              /\ Relock(held, op)[i].sku = held[i].sku /\ Relock(held, op)[i].qty = held[i].qty
              /\ Relock(held, op)[i].status = LockStatusAfter(op, held[i].status)
  <1> DEFINE lock(i) == [held[i] EXCEPT !.status = LockStatusAfter(op, @)]
  <1>1. ASSUME NEW i \in 1 .. Len(held)
        PROVE  /\ lock(i) \in Lock
               /\ lock(i).sku = held[i].sku /\ lock(i).qty = held[i].qty
               /\ lock(i).status = LockStatusAfter(op, held[i].status)
    <2>1. held[i] \in Lock
      OBVIOUS
    <2>2. LockStatusAfter(op, held[i].status) \in {"locked", "confirmed", "released"}
      BY <2>1 DEF LockStatusAfter, Lock
    <2> QED
      BY <2>1, <2>2 DEF Lock
  <1>2. Relock(held, op) = [i \in 1 .. Len(held) |-> lock(i)]
    BY DEF Relock
  <1> HIDE DEF lock
  <1>3. Relock(held, op) \in [1 .. Len(held) -> Lock]
    BY <1>1, <1>2
  <1>4. Relock(held, op) \in Seq(Lock)
    BY <1>3, FunctionSeq
  <1> QED
    BY <1>1, <1>2, <1>4

\* What COMMIT publishes: only the order of the handler and its locks change,
\* along the state machine.
LEMMA PublishOrderEffect ==
  ASSUME Consistent, NEW c \in Clients, pc[c] = "commit", req[c].op = "CreateOrder", PublishOrder(c)
  PROVE  LET o == req[c].order
         IN  /\ StoreTypeOK'
             /\ o \in OrderIds /\ req[c].items \in Baskets
             /\ orders[o].status = "NONE"
             /\ orders'[o] = PlacedOrder(req[c]) /\ orders'[o].status = "CREATED"
             /\ locks'[o] = PlacedLocks(req[c].items)
             /\ \A p \in OrderIds \ {o} : orders'[p] = orders[p] /\ locks'[p] = locks[p]
  <1> DEFINE o == req[c].order
  <1>1. /\ o \in OrderIds /\ req[c].actor \in Users /\ req[c].key \in Keys
        /\ req[c].items \in Baskets /\ req[c].items \in Seq(Item) /\ req[c] \in Request
        /\ orders[o].status = "NONE"
    BY ServiceAssumption DEF Consistent, TypeOK, ClientTypeOK, Right, RightRequest, RightOrder, Placing
  <1>2. /\ PublishSKUs(c)
        /\ orders' = [orders EXCEPT ![o] = PlacedOrder(req[c])]
        /\ locks' = [locks EXCEPT ![o] = PlacedLocks(req[c].items)]
        /\ UNCHANGED journal
    BY DEF PublishOrder
  <1>3. StoreTypeOK'
    BY <1>1, <1>2, PlacedOrderType, PlacedLocksType, PublishSKUsEffect DEF Consistent, TypeOK, StoreTypeOK
  <1> QED
    BY <1>1, <1>2, <1>3, PlacedOrderType DEF Consistent, TypeOK, StoreTypeOK

LEMMA PublishStatusEffect ==
  ASSUME Consistent, NEW c \in Clients, pc[c] = "commit", req[c].op \in StatusOps, PublishStatus(c)
  PROVE  LET o == req[c].order
             to == ToStatus(req[c].op)
         IN  /\ StoreTypeOK'
             /\ o \in OrderIds /\ to \in OrderStatuses
             /\ CanTransition(orders[o].status, to)
             /\ orders'[o] = Advance(orders[o], to) /\ orders'[o].status = to
             /\ locks'[o] = Relock(locks[o], req[c].op)
             /\ \A p \in OrderIds \ {o} : orders'[p] = orders[p] /\ locks'[p] = locks[p]
  <1> DEFINE o == req[c].order
             to == ToStatus(req[c].op)
  <1>1. o \in OrderIds /\ CanTransition(orders[o].status, to)
    BY DEF Consistent, Right, RightRequest, RightOrder, Moving
  <1>2. orders[o] \in Order /\ locks[o] \in Seq(Lock) /\ to \in OrderStatuses
    <2>1. to \in OrderStatuses
      BY <1>1 DEF CanTransition, legalTransitions, OrderStatuses
    <2> QED
      BY <1>1, <2>1 DEF Consistent, TypeOK, StoreTypeOK
  <1>3. /\ PublishSKUs(c)
        /\ orders' = [orders EXCEPT ![o] = Advance(orders[o], to)]
        /\ locks' = [locks EXCEPT ![o] = Relock(locks[o], req[c].op)]
    BY DEF PublishStatus
  <1>4. journal' \in [Tables -> [OrderIds -> Seq(Events)]]
    BY <1>1, <1>2, AppendToType DEF PublishStatus, Events, Consistent, TypeOK, StoreTypeOK
  <1>5. StoreTypeOK'
    BY <1>1, <1>2, <1>3, <1>4, AdvanceType, RelockType, PublishSKUsEffect DEF Consistent, TypeOK, StoreTypeOK
  <1> QED
    BY <1>1, <1>2, <1>3, <1>5, AdvanceType DEF Consistent, TypeOK, StoreTypeOK

\* A step that publishes leaves the order of every other handler as it knows it.
LEMMA PublishEffect ==
  ASSUME Consistent, NEW c \in Clients, pc[c] = "commit", Publish(c)
  PROVE  LET o == req[c].order
         IN  /\ StoreTypeOK'
             /\ o \in OrderIds
             /\ orders'[o].status # "NONE"
             /\ \/ orders[o].status = "NONE" /\ orders'[o].status = "CREATED"
                \/ CanTransition(orders[o].status, orders'[o].status)
             /\ \A p \in OrderIds \ {o} : orders'[p] = orders[p] /\ locks'[p] = locks[p]
             /\ \A p \in OrderIds, d \in Clients \ {c} : orderHolder[p] = d => orderHolder'[p] = d
             /\ UNCHANGED <<skuDraft, online>>
             /\ orderHolder[o] = c
  <1>1. req[c].op = "CreateOrder" \/ req[c].op \in StatusOps
    BY DEF Consistent, Right, RightStatement
  <1>2. orderHolder[req[c].order] = c
    BY DEF Consistent, Right, RightOrder
  <1>3. CASE req[c].op = "CreateOrder"
    <2>1. PublishOrder(c)
      BY <1>3 DEF Publish
    <2> QED
      BY <1>2, <1>3, <2>1, PublishOrderEffect, PublishSKUsEffect DEF PublishOrder, PublishSKUs, Consistent
  <1>4. CASE req[c].op \in StatusOps
    <2>1. PublishStatus(c)
      BY <1>4 DEF Publish, StatusOps
    <2>2. \A to \in OrderStatuses : to # "NONE"
      BY DEF OrderStatuses
    <2>3. PublishSKUs(c) /\ TypeOK
      BY <2>1 DEF PublishStatus, Consistent
    <2>4. UNCHANGED <<skuDraft, online>>
      BY <2>3 DEF PublishSKUs
    <2>5. \A p \in OrderIds, d \in Clients \ {c} : orderHolder[p] = d => orderHolder'[p] = d
      BY <2>3, PublishSKUsEffect
    <2> QED
      BY <1>2, <1>4, <2>1, <2>2, <2>4, <2>5, PublishStatusEffect
  <1> QED
    BY <1>1, <1>3, <1>4

LEMMA PublishBystanders ==
  ASSUME Consistent, NEW c \in Clients, pc[c] = "commit", Publish(c), OthersStay(c),
         NEW d \in Clients \ {c}
  PROVE  Right(d)' /\ (Placing(d)' <=> Placing(d))
  <1> DEFINE o == req[d].order
  <1> USE DEF OthersStay
  <1>1. Right(d) /\ (Placing(d)' <=> Placing(d)) /\ (Moving(d)' <=> Moving(d))
    BY DEF Consistent, Placing, Moving
  <1>2. RightStatement(d)' /\ RightRequest(d)'
    BY <1>1 DEF Right, RightStatement, RightRequest
  <1>3. pc[d] \in {"side", "save", "commit"} => o \in OrderIds \ {req[c].order}
    BY HeldOrder, PublishEffect
  <1>4. pc[d] \in {"check", "reserve", "insert"} => o \in OrderIds \ {req[c].order}
    BY <1>1, FreshIsUnheld DEF Right, RightStatement, RightRequest
  <1>5. RightLines(d)'
    BY <1>1, <1>3, PublishEffect DEF Right, RightLines
  <1>6. pc[d] = "lock" => orders'[o].status # "NONE"
    <2>1. pc[d] = "lock" => orders[o].status # "NONE" /\ o \in OrderIds
      BY <1>1 DEF Right, RightStatement, RightRequest, RightOrder
    <2> QED
      BY <2>1, PublishEffect
  <1>7. RightOrder(d)'
    <2>1. Placing(d) \/ Moving(d) => orders'[o] = orders[o]
      BY <1>3, <1>4, PublishEffect DEF Placing, Moving
    <2> QED
      BY <1>1, <1>3, <1>6, <2>1 DEF Right, RightOrder
  <1> QED
    BY <1>1, <1>2, <1>5, <1>7 DEF Right

LEMMA PublishStep ==
  ASSUME Consistent, NEW c \in Clients, pc[c] = "commit", Publish(c), OthersStay(c), TypeOK',
         Right(c)', ~Placing(c)'
  PROVE  Consistent'
  <1>1. \A d \in Clients : Right(d)'
    BY PublishBystanders
  <1>2. DistinctIds'
    BY PublishBystanders DEF DistinctIds, Consistent, OthersStay
  <1> QED
    BY <1>1, <1>2 DEF Consistent

LEMMA CommitStep ==
  ASSUME Consistent, NEW c \in Clients, Commit(c)
  PROVE  Consistent'
  <1>1. /\ pc[c] = "commit" /\ Publish(c) /\ Goto(c, "after")
        /\ pending' = [pending EXCEPT ![c] = AppendsAfter(req[c].op)]
        /\ UNCHANGED <<req, todo, row, faults>>
    BY DEF Commit
  <1>2. AppendsAfter(req[c].op) \in Seq(Tables) /\ AppendsAfter(req[c].op) # <<>>
    <2>1. \A t1, t2, t3 \in Tables : <<t1>> \in Seq(Tables) /\ <<t1, t2>> \in Seq(Tables) /\ <<t1, t2, t3>> \in Seq(Tables)
      OBVIOUS
    <2>2. "order_events" \in Tables /\ "outbox" \in Tables /\ "behavior_events" \in Tables
      BY DEF Tables
    <2> QED
      BY <2>1, <2>2 DEF AppendsAfter
  <1>3. /\ pc' \in [Clients -> Statement] /\ pc'[c] = "after"
        /\ pending' \in [Clients -> Seq(Tables)] /\ pending'[c] # <<>>
        /\ \A d \in Clients \ {c} : pc'[d] = pc[d] /\ pending'[d] = pending[d]
    BY <1>1, <1>2 DEF Goto, Consistent, TypeOK, ClientTypeOK, Statement
  <1>4. TypeOK'
    BY <1>1, <1>3, PublishEffect DEF Consistent, TypeOK, ClientTypeOK
  <1>5. OthersStay(c)
    <2>1. \A p \in OrderIds, d \in Clients \ {c} : orderHolder[p] = d => orderHolder'[p] = d
      BY <1>1, PublishEffect
    <2> QED
      BY <1>1, <1>3, <2>1, HeldOrder DEF OthersStay
  <1>6. ~Placing(c)' /\ ~Moving(c)'
    BY <1>3 DEF Placing, Moving
  <1>7. Right(c)'
    BY <1>1, <1>3, <1>6 DEF Consistent, Right, RightStatement, RightRequest, RightLines, RightOrder
  <1> QED
    BY <1>1, <1>4, <1>5, <1>6, <1>7, PublishStep

LEMMA CommitAnswerLostStep ==
  ASSUME Consistent, NEW c \in Clients, CommitAnswerLost(c)
  PROVE  Consistent'
  <1>1. /\ pc[c] = "commit" /\ Publish(c) /\ Goto(c, AfterFailure(req[c].op)) /\ Settle(c)
        /\ UNCHANGED <<req, pending>> /\ faults' \in 0 .. MaxFaults
    BY ServiceAssumption DEF CommitAnswerLost, Consistent, TypeOK
  <1>2. req[c].op = "CreateOrder" \/ req[c].op \in StatusOps
    BY <1>1 DEF Consistent, Right, RightStatement
  <1>3. AfterFailure(req[c].op) = "error" \/ (AfterFailure(req[c].op) = "reread" /\ req[c].op \in StatusOps)
    BY <1>2 DEF AfterFailure, StatusOps
  <1>4. /\ pc' \in [Clients -> Statement] /\ pc'[c] = AfterFailure(req[c].op)
        /\ \A d \in Clients \ {c} : pc'[d] = pc[d]
    BY <1>1, <1>3 DEF Goto, Consistent, TypeOK, ClientTypeOK, Statement, Answers
  <1>5. TypeOK'
    BY <1>1, <1>4, SettleType, PublishEffect DEF Consistent, TypeOK, ClientTypeOK
  <1>6. OthersStay(c)
    BY <1>1, <1>4, HeldOrder, SettleType, PublishEffect DEF OthersStay, Consistent
  <1>7. Right(c)' /\ ~Placing(c)'
    BY <1>1, <1>3, <1>4, RestRight DEF Resting, Answers, Consistent
  <1> QED
    BY <1>1, <1>5, <1>6, <1>7, PublishStep

LEMMA AppendAfterCommitStep ==
  ASSUME Consistent, NEW c \in Clients, AppendAfterCommit(c)
  PROVE  Consistent'
  <1>1. /\ pc[c] = "after"
        /\ pending' = [pending EXCEPT ![c] = Tail(@)]
        /\ Goto(c, IF Len(pending[c]) = 1 THEN "ok" ELSE "after")
        /\ UNCHANGED <<skuRow, skuDraft, skuHolder, online, orders, orderHolder, locks>>
        /\ UNCHANGED <<req, todo, row>>
    BY DEF AppendAfterCommit
  <1>2. /\ req[c].op \in StatusOps \cup {"CreateOrder"} /\ req[c].order \in OrderIds
        /\ pending[c] \in Seq(Tables) /\ pending[c] # <<>>
    BY <1>1 DEF Consistent, TypeOK, ClientTypeOK, Right, RightStatement, RightRequest
  <1>3. Tail(pending[c]) \in Seq(Tables) /\ (Len(pending[c]) # 1 => Tail(pending[c]) # <<>>)
    <2>1. Len(pending[c]) \in Nat /\ Len(pending[c]) # 0
      BY <1>2, EmptySeq
    <2>2. Tail(pending[c]) \in Seq(Tables) /\ Len(Tail(pending[c])) = Len(pending[c]) - 1
      BY <1>2, HeadTailProperties
    <2>3. Len(pending[c]) # 1 => Len(Tail(pending[c])) # 0
      BY <2>1, <2>2
    <2>4. Tail(pending[c]) = <<>> => Len(Tail(pending[c])) = 0
      BY EmptySeq
    <2> QED
      BY <2>2, <2>3, <2>4
  <1>4. /\ pc' \in [Clients -> Statement]
        /\ pc'[c] = "ok" \/ (pc'[c] = "after" /\ pending'[c] # <<>>)
        /\ pending' \in [Clients -> Seq(Tables)]
        /\ \A d \in Clients \ {c} : pc'[d] = pc[d] /\ pending'[d] = pending[d]
    BY <1>1, <1>3 DEF Goto, Consistent, TypeOK, ClientTypeOK, Statement, Answers
  <1>5. journal' \in [Tables -> [OrderIds -> Seq(Events)]] /\ faults' \in 0 .. MaxFaults
    <2>1. EventOf(req[c].op) \in Events
      BY <1>2 DEF EventOf, ToStatus, Events, OrderStatuses, StatusOps
    <2> QED
      BY <1>2, <2>1, AppendToType, ServiceAssumption DEF AppendAfterCommit, Consistent, TypeOK, StoreTypeOK
  <1>6. TypeOK'
    BY <1>1, <1>4, <1>5 DEF Consistent, TypeOK, StoreTypeOK, ClientTypeOK
  <1>7. OthersStay(c)
    BY <1>1, <1>4, HeldOrder DEF OthersStay
  <1>8. ~Placing(c)' /\ ~Moving(c)'
    BY <1>4 DEF Placing, Moving
  <1>9. Right(c)'
    BY <1>1, <1>2, <1>4, <1>8 DEF Consistent, Right, RightStatement, RightRequest, RightLines, RightOrder
  <1> QED
    BY <1>1, <1>6, <1>7, <1>8, <1>9, OwnStep

-----------------------------------------------------------------------------
(* Calls *)

\* A call that changes nothing but the control state and the request of c.
LEMMA CallStep ==
  ASSUME Consistent, NEW c \in Clients, pc[c] = "idle", NEW r \in Request, NEW where \in Statement,
         req' = [req EXCEPT ![c] = r], Goto(c, where), UNCHANGED <<store, pending, faults>>,
         row' \in [Clients -> Row], todo' \in [Clients -> SUBSET (Nat \ {0})],
         \A d \in Clients \ {c} : todo'[d] = todo[d]
  PROVE  /\ TypeOK' /\ OthersStay(c) /\ UNCHANGED <<orders, locks>>
         /\ pc'[c] = where /\ req'[c] = r
  <1>1. /\ pc' \in [Clients -> Statement] /\ pc'[c] = where
        /\ req' \in [Clients -> Request] /\ req'[c] = r
        /\ \A d \in Clients \ {c} : pc'[d] = pc[d] /\ req'[d] = req[d]
    BY DEF Goto, Consistent, TypeOK, ClientTypeOK
  <1>2. TypeOK'
    BY <1>1 DEF Consistent, TypeOK, StoreTypeOK, ClientTypeOK, store
  <1>3. OthersStay(c)
    BY <1>1, HeldOrder DEF OthersStay, store
  <1> QED
    BY <1>1, <1>2, <1>3 DEF store

LEMMA ChangeStatusStep ==
  ASSUME Consistent, NEW op \in StatusOps, NEW c \in Clients, NEW actor \in Users \cup Merchants,
         NEW o \in OrderIds, ChangeStatus(op, c, actor, o)
  PROVE  Consistent'
  <1> DEFINE r == [op |-> op, order |-> o, actor |-> actor, key |-> None, items |-> <<>>,
                   from |-> orders[o].status]
  <1>1. PICK where \in Answers \cup {"lock"} :
          /\ Goto(c, where)
          /\ where = "lock" => orders[o].status # "NONE" /\ CanTransition(orders[o].status, ToStatus(op))
    <2>1. /\ Goto(c, CASE ~Authorized(op, o, actor) -> "not_found"
                      [] Authorized(op, o, actor) /\ AlreadyApplied(op, orders[o]) -> "ok"
                      [] OTHER -> IF CanTransition(orders[o].status, ToStatus(op))
                                    THEN "lock" ELSE "conflict")
      BY DEF ChangeStatus
    <2>2. Authorized(op, o, actor) => orders[o].status # "NONE"
      BY DEF Authorized
    <2> HIDE DEF ChangeStatus
    <2>3. CASE ~Authorized(op, o, actor)
      BY <2>1, <2>3 DEF Answers
    <2>4. CASE Authorized(op, o, actor) /\ AlreadyApplied(op, orders[o])
      BY <2>1, <2>4 DEF Answers
    <2>5. CASE Authorized(op, o, actor) /\ ~AlreadyApplied(op, orders[o])
      BY <2>1, <2>2, <2>5 DEF Answers
    <2> QED
      BY <2>3, <2>4, <2>5
  <1>2. /\ pc[c] = "idle" /\ req' = [req EXCEPT ![c] = r]
        /\ UNCHANGED <<store, todo, row, pending, faults>>
    BY DEF ChangeStatus
  <1>3. r \in Request
    <2>1. orders[o].status \in OrderStatuses \cup {"NONE"}
      BY DEF Consistent, TypeOK, StoreTypeOK, Order
    <2>2. <<>> \in Seq(Item)
      OBVIOUS
    <2> QED
      BY <2>1, <2>2 DEF Request
  <1>4. where \in Statement
    BY DEF Statement, Answers, InTx
  <1> HIDE DEF r
  <1>5. TypeOK' /\ OthersStay(c) /\ UNCHANGED <<orders, locks>> /\ pc'[c] = where /\ req'[c] = r
    BY <1>1, <1>2, <1>3, <1>4, CallStep DEF Consistent, TypeOK, ClientTypeOK
  <1>6. r.op = op /\ r.order = o /\ r.from = orders[o].status
    BY DEF r
  <1>7. ~Placing(c)' /\ ~Moving(c)'
    BY <1>1, <1>5 DEF Placing, Moving, Answers
  <1>8. RightStatement(c)' /\ RightRequest(c)' /\ RightLines(c)'
    BY <1>1, <1>5, <1>6 DEF RightStatement, RightRequest, RightLines, StatusOps, Answers
  <1>9. RightOrder(c)'
    BY <1>1, <1>5, <1>6, <1>7 DEF RightOrder, Answers
  <1> QED
    BY <1>5, <1>7, <1>8, <1>9, OwnStep DEF Right

LEMMA CreateOrderStep ==
  ASSUME Consistent, NEW c \in Clients, NEW u \in Users, NEW k \in Keys, NEW items \in Baskets,
         CreateOrder(c, u, k, items)
  PROVE  Consistent'
  <1> DEFINE r(o) == [op |-> "CreateOrder", order |-> o, actor |-> u, key |-> k, items |-> items,
                      from |-> "NONE"]
  <1>1. PICK o \in OrderIds :
          /\ req' = [req EXCEPT ![c] = r(o)]
          /\ \/ Goto(c, "ok") /\ UNCHANGED todo
             \/ /\ Goto(c, "check") /\ todo' = [todo EXCEPT ![c] = DOMAIN items]
                /\ o \notin Reserved /\ orders[o].status = "NONE"
    BY DEF CreateOrder, OrdersWithKey
  <1>2. pc[c] = "idle" /\ UNCHANGED <<store, row, pending, faults>>
    BY DEF CreateOrder
  <1>3. items \in Seq(Item) /\ items # <<>>
    BY ServiceAssumption
  <1>4. r(o) \in Request
    BY <1>3 DEF Request
  <1>5. r(o).op = "CreateOrder" /\ r(o).order = o /\ r(o).actor = u /\ r(o).key = k /\ r(o).items = items
    OBVIOUS
  <1> HIDE DEF r
  <1>6. /\ todo' \in [Clients -> SUBSET (Nat \ {0})]
        /\ \A d \in Clients \ {c} : todo'[d] = todo[d]
    <2>1. DOMAIN items \subseteq Nat \ {0}
      BY <1>3, Elements
    <2> QED
      BY <1>1, <2>1 DEF Consistent, TypeOK, ClientTypeOK
  <1>7. ASSUME NEW where \in Statement, Goto(c, where)
        PROVE  /\ TypeOK' /\ OthersStay(c) /\ UNCHANGED <<orders, locks>>
               /\ pc'[c] = where /\ req'[c] = r(o)
    <2>1. row' \in [Clients -> Row]
      BY <1>2 DEF Consistent, TypeOK, ClientTypeOK
    <2>2. pc[c] = "idle" /\ req' = [req EXCEPT ![c] = r(o)] /\ UNCHANGED <<store, pending, faults>>
      BY <1>1, <1>2
    <2> QED
      BY <1>4, <1>6, <1>7, <2>1, <2>2, CallStep
  <1>8. CASE Goto(c, "ok") /\ UNCHANGED todo
    <2>1. TypeOK' /\ OthersStay(c) /\ UNCHANGED <<orders, locks>> /\ pc'[c] = "ok" /\ req'[c] = r(o)
      <3>1. "ok" \in Statement
        BY DEF Statement, Answers
      <3> QED
        BY <1>7, <1>8, <3>1
    <2>2. ~Placing(c)' /\ Right(c)'
      BY <1>5, <2>1
         DEF Right, RightStatement, RightRequest, RightLines, RightOrder, Placing, Moving, StatusOps
    <2> QED
      BY <2>1, <2>2, OwnStep
  <1>9. CASE /\ Goto(c, "check") /\ todo' = [todo EXCEPT ![c] = DOMAIN items]
             /\ o \notin Reserved /\ orders[o].status = "NONE"
    <2>1. TypeOK' /\ OthersStay(c) /\ UNCHANGED <<orders, locks>> /\ pc'[c] = "check" /\ req'[c] = r(o)
      <3>1. "check" \in Statement
        BY DEF Statement
      <3> QED
        BY <1>7, <1>9, <3>1
    <2>2. todo'[c] = DOMAIN items
      BY <1>9 DEF Consistent, TypeOK, ClientTypeOK
    <2>3. Right(c)'
      BY <1>5, <1>9, <2>1, <2>2
         DEF Right, RightStatement, RightRequest, RightLines, RightOrder, Placing, Moving, StatusOps
    <2>4. \A d \in Clients : Right(d)'
      BY <2>1, <2>3, Bystanders
    <2>5. \A d \in Clients \ {c} : req'[d].order # req'[c].order
      BY <1>5, <1>9, <2>1 DEF Reserved, OthersStay
    <2>6. DistinctIds'
      BY <2>1, <2>5, Bystanders DEF DistinctIds, Consistent, OthersStay
    <2> QED
      BY <2>1, <2>4, <2>6 DEF Consistent
  <1> QED
    BY <1>1, <1>8, <1>9

LEMMA MerchantUpdateSKUStep ==
  ASSUME Consistent, NEW c \in Clients, NEW s \in SKUs, NEW stock \in StockInputs, NEW active \in BOOLEAN,
         MerchantUpdateSKU(c, s, stock, active)
  PROVE  Consistent'
  <1> DEFINE items == <<[sku |-> s, qty |-> stock]>>
             r == [NoReq EXCEPT !.op = "MerchantUpdateSKU", !.items = items]
             new == [stock |-> IF stock >= 0 THEN stock ELSE skuRow[s].stock,
                     locked |-> skuRow[s].locked, active |-> active]
  <1>1. /\ pc[c] = "idle" /\ Goto(c, "update") /\ UNCHANGED <<store, todo, pending, faults>>
        /\ req' = [req EXCEPT ![c] = r] /\ row' = [row EXCEPT ![c] = new]
    BY DEF MerchantUpdateSKU
  <1>2. stock \in Int
    BY ServiceAssumption
  <1>3. items \in Seq(Item) /\ items # <<>>
    BY <1>2 DEF Item
  <1>4. new \in Row
    BY <1>2 DEF Consistent, TypeOK, StoreTypeOK, Row
  <1> HIDE DEF items, new
  <1>5. r \in Request /\ r.op = "MerchantUpdateSKU" /\ r.items = items
    BY <1>3 DEF NoReq, Request
  <1> HIDE DEF r
  <1>6. TypeOK' /\ OthersStay(c) /\ UNCHANGED <<orders, locks>> /\ pc'[c] = "update" /\ req'[c] = r
    BY <1>1, <1>4, <1>5, CallStep DEF Consistent, TypeOK, ClientTypeOK, Statement
  <1>7. ~Placing(c)' /\ Right(c)'
    BY <1>3, <1>5, <1>6
       DEF Right, RightStatement, RightRequest, RightLines, RightOrder, Placing, Moving, StatusOps
  <1> QED
    BY <1>6, <1>7, OwnStep

LEMMA UpdateSKUStep ==
  ASSUME Consistent, NEW c \in Clients, UpdateSKU(c)
  PROVE  Consistent'
  <1> DEFINE s == req[c].items[1].sku
  <1>1. /\ pc[c] = "update" /\ Answer(c, "ok")
        /\ skuRow' = [skuRow EXCEPT ![s] = row[c]] /\ skuDraft' = [skuDraft EXCEPT ![s] = row[c]]
        /\ UNCHANGED <<skuHolder, online, orders, orderHolder, locks, journal, faults>>
    BY DEF UpdateSKU
  <1>2. Goto(c, "ok") /\ Settle(c) /\ UNCHANGED <<req, pending>>
    BY <1>1 DEF Answer
  <1>3. skuRow' \in [SKUs -> Row] /\ skuDraft' \in [SKUs -> Row]
    BY <1>1 DEF Consistent, TypeOK, StoreTypeOK, ClientTypeOK
  <1>4. pc' \in [Clients -> Statement] /\ pc'[c] = "ok" /\ \A d \in Clients \ {c} : pc'[d] = pc[d]
    BY <1>2 DEF Goto, Consistent, TypeOK, ClientTypeOK, Statement, Answers
  <1>5. TypeOK'
    BY <1>1, <1>2, <1>3, <1>4, SettleType DEF Consistent, TypeOK, StoreTypeOK, ClientTypeOK
  <1>6. OthersStay(c)
    BY <1>1, <1>2, <1>4, SettleType, HeldOrder DEF OthersStay, Consistent
  <1> QED
    BY <1>1, <1>2, <1>4, <1>5, <1>6, RestEnds DEF Resting, Answers

LEMMA MerchantSetProductStatusStep ==
  ASSUME Consistent, NEW p \in Products, MerchantSetProductStatus(p)
  PROVE  Consistent'
  <1> USE DEF MerchantSetProductStatus, client
  <1>1. TypeOK'
    BY DEF Consistent, TypeOK, StoreTypeOK, ClientTypeOK
  <1>2. ASSUME NEW c \in Clients PROVE Right(c)' /\ (Placing(c)' <=> Placing(c))
    BY DEF Consistent, Right, RightStatement, RightRequest, RightLines, RightOrder, Placing, Moving
  <1> QED
    BY <1>1, <1>2 DEF Consistent, DistinctIds

-----------------------------------------------------------------------------
(* Failures *)

\* Where a handler goes when its transaction fails.
LEMMA FailureExit ==
  ASSUME Consistent, NEW c \in Clients, pc[c] \in InTx \cup {"update"}
  PROVE  \/ AfterFailure(req[c].op) = "error"
         \/ AfterFailure(req[c].op) = "reread" /\ req[c].op \in StatusOps
  <1>1. req[c].op \in {"CreateOrder", "MerchantUpdateSKU"} \cup StatusOps
    BY DEF Consistent, Right, RightStatement, InTx, InventoryOps, StatusOps
  <1> QED
    BY <1>1 DEF AfterFailure, StatusOps

LEMMA DeadlockVictimStep ==
  ASSUME Consistent, NEW c \in Clients, DeadlockVictim(c)
  PROVE  Consistent'
  <1>1. Abort(c, AfterFailure(req[c].op)) /\ UNCHANGED faults
    BY DEF DeadlockVictim
  <1>2. \E d \in Clients : WaitsFor(c, d)
    BY DEF DeadlockVictim, OnWaitCycle
  <1>3. pc[c] \in InTx \cup {"update"}
    BY <1>2 DEF WaitsFor, InTx
  <1> QED
    BY <1>1, <1>3, FailureExit, AbortStep DEF Answers, Consistent, TypeOK

LEMMA StatementFailsStep ==
  ASSUME Consistent, NEW c \in Clients, StatementFails(c)
  PROVE  Consistent'
  <1>1. Abort(c, AfterFailure(req[c].op)) /\ pc[c] \in InTx \cup {"update"} /\ faults' \in 0 .. MaxFaults
    BY ServiceAssumption DEF StatementFails, Consistent, TypeOK
  <1> QED
    BY <1>1, FailureExit, AbortStep DEF Answers

LEMMA CrashStep ==
  ASSUME Consistent, NEW c \in Clients, Crash(c)
  PROVE  Consistent'
  <1>1. /\ TypeOK /\ Rollback(c) /\ Goto(c, "idle") /\ Settle(c)
        /\ req' = [req EXCEPT ![c] = NoReq] /\ pending' = [pending EXCEPT ![c] = <<>>]
        /\ faults' \in 0 .. MaxFaults
    BY ServiceAssumption DEF Crash, Consistent, TypeOK
  <1>2. NoReq \in Request /\ <<>> \in Seq(Tables)
    BY DEF NoReq, Request
  <1>3. /\ pc' \in [Clients -> Statement] /\ pc'[c] = "idle"
        /\ req' \in [Clients -> Request] /\ req'[c] = NoReq
        /\ pending' \in [Clients -> Seq(Tables)]
        /\ \A d \in Clients \ {c} : pc'[d] = pc[d] /\ req'[d] = req[d] /\ pending'[d] = pending[d]
    BY <1>1, <1>2 DEF Goto, TypeOK, ClientTypeOK, Statement
  <1>4. TypeOK'
    BY <1>1, <1>3, RollbackEffect, SettleType DEF TypeOK, ClientTypeOK
  <1>5. OthersStay(c) /\ UNCHANGED <<orders, locks>>
    BY <1>1, <1>3, RollbackEffect, SettleType, HeldOrder DEF OthersStay
  <1> QED
    BY <1>3, <1>4, <1>5, RestEnds DEF Resting

-----------------------------------------------------------------------------
(* Every step *)

LEMMA StutterStep ==
  ASSUME Consistent, UNCHANGED vars
  PROVE  Consistent'
  <1> USE DEF vars, store, client
  <1>1. TypeOK'
    BY DEF Consistent, TypeOK, StoreTypeOK, ClientTypeOK
  <1>2. ASSUME NEW c \in Clients PROVE Right(c)' /\ (Placing(c)' <=> Placing(c))
    BY DEF Consistent, Right, RightStatement, RightRequest, RightLines, RightOrder, Placing, Moving
  <1> QED
    BY <1>1, <1>2 DEF Consistent, DistinctIds

LEMMA NextConsistent == Consistent /\ [Next]_vars => Consistent'
  <1> SUFFICES ASSUME Consistent, [Next]_vars PROVE Consistent'
    OBVIOUS
  <1>1. ASSUME NEW c \in Clients, Call(c) PROVE Consistent'
    <2>1. CASE \E u \in Users, k \in Keys, items \in Baskets : CreateOrder(c, u, k, items)
      BY <2>1, CreateOrderStep
    <2>2. CASE \E op \in StatusOps, actor \in Users \cup Merchants, o \in OrderIds : ChangeStatus(op, c, actor, o)
      BY <2>2, ChangeStatusStep
    <2>3. CASE \E s \in SKUs, stock \in StockInputs, active \in BOOLEAN : MerchantUpdateSKU(c, s, stock, active)
      BY <2>3, MerchantUpdateSKUStep
    <2> QED
      BY <1>1, <2>1, <2>2, <2>3
         DEF Call, OrderCall, PayOrder, CancelOrder, FinishOrder, RequestRefund, MerchantShipOrder,
             MerchantApproveRefund, StatusOps
  <1>2. ASSUME NEW c \in Clients, Step(c) PROVE Consistent'
    BY <1>2, CheckLineStep, ReserveSKUStep, InsertOrderStep, LockOrderStep, ReadSKUStep, SaveSKUStep,
       CommitStep, AppendAfterCommitStep, RereadStep, UpdateSKUStep, DeadlockVictimStep, ReturnStep
       DEF Step, OrderStep
  <1>3. ASSUME NEW c \in Clients, Fault(c) PROVE Consistent'
    BY <1>3, StatementFailsStep, CommitAnswerLostStep, CrashStep DEF Fault
  <1>4. ASSUME NEW p \in Products, MerchantSetProductStatus(p) PROVE Consistent'
    BY <1>4, MerchantSetProductStatusStep
  <1> QED
    BY <1>1, <1>2, <1>3, <1>4, StutterStep DEF Next

\* What a handler knows at each of its statements is true in every execution:
\* the inductive invariant of OrderService.
THEOREM Invariance == Spec => []Consistent
  BY InitConsistent, NextConsistent, PTL DEF Spec

\* Every variable keeps its type, for any number of handlers, orders, SKUs and
\* failures.
THEOREM TypeCorrect == Spec => []TypeOK
  <1>1. Consistent => TypeOK
    BY DEF Consistent
  <1> QED
    BY <1>1, Invariance, PTL

-----------------------------------------------------------------------------
(* Orders and their inventory locks *)

\* Orders and locks change at COMMIT only.
LEMMA OnlyCommitMoves ==
  ASSUME Consistent, [Next]_vars
  PROVE  \/ UNCHANGED <<orders, locks>>
         \/ \E c \in Clients : (Commit(c) \/ CommitAnswerLost(c)) /\ pc[c] = "commit" /\ Publish(c)
  <1>1. ASSUME NEW c \in Clients, Call(c) PROVE UNCHANGED <<orders, locks>>
    <2>1. ASSUME NEW op, NEW actor, NEW o, ChangeStatus(op, c, actor, o) PROVE UNCHANGED <<orders, locks>>
      BY <2>1 DEF ChangeStatus, store
    <2>2. ASSUME NEW u, NEW k, NEW items, CreateOrder(c, u, k, items) PROVE UNCHANGED <<orders, locks>>
      BY <2>2 DEF CreateOrder, store
    <2>3. ASSUME NEW s, NEW stock, NEW active, MerchantUpdateSKU(c, s, stock, active) PROVE UNCHANGED <<orders, locks>>
      BY <2>3 DEF MerchantUpdateSKU, store
    <2> QED
      BY <1>1, <2>1, <2>2, <2>3
         DEF Call, OrderCall, PayOrder, CancelOrder, FinishOrder, RequestRefund, MerchantShipOrder,
             MerchantApproveRefund
  <1>2. ASSUME NEW c \in Clients, NEW where, Abort(c, where) PROVE UNCHANGED <<orders, locks>>
    BY <1>2 DEF Abort, Rollback
  <1>3. ASSUME NEW c \in Clients, Step(c), ~Commit(c) PROVE UNCHANGED <<orders, locks>>
    <2>1. CASE ReserveSKU(c) \/ InsertOrder(c) \/ LockOrder(c)
      BY <1>2, <2>1 DEF ReserveSKU, InsertOrder, LockOrder
    <2>2. CASE SaveSKU(c) \/ DeadlockVictim(c)
      BY <1>2, <2>2 DEF SaveSKU, DeadlockVictim
    <2>3. CASE CheckLine(c) \/ ReadSKU(c) \/ AppendAfterCommit(c) \/ Reread(c) \/ UpdateSKU(c) \/ Return(c)
      BY <2>3 DEF CheckLine, ReadSKU, AppendAfterCommit, Reread, UpdateSKU, Return, store
    <2> QED
      BY <1>3, <2>1, <2>2, <2>3 DEF Step, OrderStep
  <1>4. ASSUME NEW c \in Clients, Fault(c), ~CommitAnswerLost(c) PROVE UNCHANGED <<orders, locks>>
    BY <1>4, <1>2 DEF Fault, StatementFails, Crash, Rollback
  <1>5. ASSUME NEW p \in Products, MerchantSetProductStatus(p) PROVE UNCHANGED <<orders, locks>>
    BY <1>5 DEF MerchantSetProductStatus
  <1>6. ASSUME NEW c \in Clients, Commit(c) \/ CommitAnswerLost(c) PROVE pc[c] = "commit" /\ Publish(c)
    BY <1>6 DEF Commit, CommitAnswerLost
  <1> QED
    BY <1>1, <1>3, <1>4, <1>5, <1>6 DEF Next, vars, store

\* An order's status only ever moves along the state machine: the status a
\* handler read before its transaction is never overwritten once it is stale.
THEOREM Legality == Spec => LegalSteps
  <1> DEFINE Legal ==
               \A o \in OrderIds :
                 orders'[o].status # orders[o].status =>
                   \/ orders[o].status = "NONE" /\ orders'[o].status = "CREATED"
                   \/ CanTransition(orders[o].status, orders'[o].status)
  <1>1. Consistent /\ [Next]_vars => [Legal]_vars
    <2> SUFFICES ASSUME Consistent, [Next]_vars, NEW o \in OrderIds, orders'[o].status # orders[o].status
                 PROVE  \/ orders[o].status = "NONE" /\ orders'[o].status = "CREATED"
                        \/ CanTransition(orders[o].status, orders'[o].status)
      OBVIOUS
    <2>1. PICK c \in Clients : pc[c] = "commit" /\ Publish(c)
      BY OnlyCommitMoves
    <2>2. o = req[c].order
      BY <2>1, PublishEffect
    <2> QED
      BY <2>1, <2>2, PublishEffect
  <1> QED
    BY <1>1, Invariance, PTL DEF Spec, LegalSteps

\* The locks of one order are what its status calls for, and an order that is
\* not placed has none to be in another state.
LEMMA LocksStep == LocksFollowStatus /\ Consistent /\ [Next]_vars => LocksFollowStatus'
  <1> SUFFICES ASSUME LocksFollowStatus, Consistent, [Next]_vars, NEW o \in OrderIds
               PROVE  /\ orders'[o].status = "CREATED" => Range(locks'[o]) # {}
                      /\ \A i \in DOMAIN locks'[o] :
                           locks'[o][i].status =
                             CASE orders'[o].status = "CREATED" -> "locked"
                               [] orders'[o].status \in {"CANCELLED", "REFUNDED"} -> "released"
                               [] OTHER -> "confirmed"
    BY DEF LocksFollowStatus
  <1>1. CASE orders'[o] = orders[o] /\ locks'[o] = locks[o]
    BY <1>1 DEF LocksFollowStatus
  <1>2. CASE ~(orders'[o] = orders[o] /\ locks'[o] = locks[o])
    <2>1. PICK c \in Clients : pc[c] = "commit" /\ Publish(c)
      BY <1>2, OnlyCommitMoves
    <2>2. o = req[c].order /\ (req[c].op = "CreateOrder" \/ req[c].op \in StatusOps)
      BY <1>2, <2>1, PublishEffect DEF Consistent, Right, RightStatement
    <2>3. CASE req[c].op = "CreateOrder"
      <3>1. req[c].items \in Baskets /\ orders'[o].status = "CREATED" /\ locks'[o] = PlacedLocks(req[c].items)
        BY <2>1, <2>2, <2>3, PublishOrderEffect DEF Publish
      <3>2. req[c].items \in Seq(Item) /\ 1 \in DOMAIN req[c].items
        BY <3>1, ServiceAssumption
      <3>3. DOMAIN locks'[o] = DOMAIN req[c].items /\ \A i \in DOMAIN locks'[o] : locks'[o][i].status = "locked"
        BY <3>1, <3>2, PlacedLocksType
      <3> QED
        BY <3>1, <3>2, <3>3 DEF Range
    <2>4. CASE req[c].op \in StatusOps
      <3> DEFINE op == req[c].op
                 to == ToStatus(op)
      <3>1. /\ CanTransition(orders[o].status, to) /\ orders'[o].status = to
            /\ locks'[o] = Relock(locks[o], op)
        BY <2>1, <2>2, <2>4, PublishStatusEffect DEF Publish, StatusOps
      <3>2. locks[o] \in Seq(Lock)
        BY DEF Consistent, TypeOK, StoreTypeOK
      <3>3. \A i \in DOMAIN locks'[o] :
              i \in DOMAIN locks[o] /\ locks'[o][i].status = LockStatusAfter(op, locks[o][i].status)
        BY <3>1, <3>2, RelockType
      <3>4. to # "CREATED"
        BY <2>4 DEF ToStatus, StatusOps
      <3>5. ASSUME NEW i \in DOMAIN locks[o]
            PROVE  LockStatusAfter(op, locks[o][i].status) =
                     IF to \in {"CANCELLED", "REFUNDED"} THEN "released" ELSE "confirmed"
        <4>1. locks[o][i].status =
                CASE orders[o].status = "CREATED" -> "locked"
                  [] orders[o].status \in {"CANCELLED", "REFUNDED"} -> "released"
                  [] OTHER -> "confirmed"
          BY DEF LocksFollowStatus
        <4>2. CASE op \in {"PayOrder", "CancelOrder", "MerchantApproveRefund"}
          BY <4>2 DEF ToStatus, LockStatusAfter
        <4>3. CASE op \in {"FinishOrder", "RequestRefund", "MerchantShipOrder"}
          BY <3>1, <4>1, <4>3 DEF ToStatus, LockStatusAfter, CanTransition, legalTransitions
        <4> QED
          BY <2>4, <4>2, <4>3 DEF StatusOps
      <3> QED
        BY <3>1, <3>3, <3>4, <3>5
    <2> QED
      BY <2>2, <2>3, <2>4
  <1> QED
    BY <1>1, <1>2

\* The inventory locks of every order, all of them, are in the state its status
\* calls for, whatever handlers race for it and wherever one fails.
THEOREM LocksTheorem == Spec => []LocksFollowStatus
  <1>1. Init => LocksFollowStatus
    BY DEF Init, LocksFollowStatus, NoOrder
  <1> QED
    BY <1>1, LocksStep, Invariance, PTL DEF Spec


-----------------------------------------------------------------------------
(* Timestamps *)

\* A placed order has no timestamp, and each transition adds its own.
LEMMA StampsStep == StampsFollowStatus /\ Consistent /\ [Next]_vars => StampsFollowStatus'
  <1> DEFINE Told(order) ==
        /\ "PAID" \in order.stamps
             <=> order.status \in {"PAID", "SHIPPED", "FINISHED", "REFUNDING", "REFUNDED"}
        /\ "SHIPPED" \in order.stamps =>
             order.status \in {"SHIPPED", "FINISHED", "REFUNDING", "REFUNDED"}
        /\ order.status \in {"SHIPPED", "FINISHED"} => "SHIPPED" \in order.stamps
        /\ "CANCELLED" \in order.stamps <=> order.status = "CANCELLED"
        /\ "FINISHED" \in order.stamps <=> order.status = "FINISHED"
  <1> SUFFICES ASSUME StampsFollowStatus, Consistent, [Next]_vars, NEW o \in OrderIds
               PROVE  Told(orders'[o])
    BY DEF StampsFollowStatus
  <1>1. Told(orders[o])
    BY DEF StampsFollowStatus
  <1>2. CASE orders'[o] = orders[o]
    BY <1>1, <1>2
  <1>3. CASE orders'[o] # orders[o]
    <2>1. PICK c \in Clients : pc[c] = "commit" /\ Publish(c)
      BY <1>3, OnlyCommitMoves
    <2>2. o = req[c].order /\ (req[c].op = "CreateOrder" \/ req[c].op \in StatusOps)
      BY <1>3, <2>1, PublishEffect DEF Consistent, Right, RightStatement
    <2>3. CASE req[c].op = "CreateOrder"
      <3>1. orders'[o] = PlacedOrder(req[c])
        BY <2>1, <2>2, <2>3, PublishOrderEffect DEF Publish
      <3>2. orders'[o].status = "CREATED" /\ orders'[o].stamps = {}
        BY <3>1 DEF PlacedOrder
      <3> QED
        BY <3>2
    <2>4. CASE req[c].op \in StatusOps
      <3> DEFINE to == ToStatus(req[c].op)
      <3>1. CanTransition(orders[o].status, to) /\ orders'[o] = Advance(orders[o], to)
        BY <2>1, <2>2, <2>4, PublishStatusEffect DEF Publish, StatusOps
      <3>2. orders'[o].status = to /\ orders'[o].stamps = orders[o].stamps \cup ({to} \cap Stamped)
        BY <3>1 DEF Advance, Consistent, TypeOK, StoreTypeOK, Order
      <3> QED
        BY <1>1, <3>1, <3>2 DEF CanTransition, legalTransitions, Stamped
    <2> QED
      BY <2>2, <2>3, <2>4
  <1> QED
    BY <1>2, <1>3

\* The timestamps of every order tell its history, whatever handlers race on it
\* and wherever they fail.
THEOREM StampsTheorem == Spec => []StampsFollowStatus
  <1>1. Init => StampsFollowStatus
    BY DEF Init, StampsFollowStatus, NoOrder
  <1> QED
    BY <1>1, StampsStep, Invariance, PTL DEF Spec

-----------------------------------------------------------------------------
(* How a handler gets to its COMMIT and to its answer *)

\* The steps of one handler leave the control state and the request of every
\* other handler alone.
LEMMA OthersKeep ==
  ASSUME TypeOK, NEW d \in Clients, Call(d) \/ Step(d) \/ Fault(d), NEW c \in Clients \ {d}
  PROVE  pc'[c] = pc[c] /\ req'[c] = req[c]
  <1> USE DEF TypeOK, ClientTypeOK, Goto
  <1>1. CASE Call(d)
    <2>1. CASE \E u \in Users, k \in Keys, items \in Baskets : CreateOrder(d, u, k, items)
      BY <2>1 DEF CreateOrder
    <2>2. CASE \E op \in StatusOps, actor \in Users \cup Merchants, o \in OrderIds : ChangeStatus(op, d, actor, o)
      BY <2>2 DEF ChangeStatus
    <2>3. CASE \E s \in SKUs, stock \in StockInputs, active \in BOOLEAN : MerchantUpdateSKU(d, s, stock, active)
      BY <2>3 DEF MerchantUpdateSKU
    <2> QED
      BY <1>1, <2>1, <2>2, <2>3
         DEF Call, OrderCall, PayOrder, CancelOrder, FinishOrder, RequestRefund, MerchantShipOrder,
             MerchantApproveRefund, StatusOps
  <1>2. ASSUME NEW where, Abort(d, where) \/ Answer(d, where)
        PROVE  pc'[c] = pc[c] /\ req'[c] = req[c]
    BY <1>2 DEF Abort, Answer
  <1>3. CASE Step(d)
    <2>1. CASE CheckLine(d) \/ ReserveSKU(d) \/ InsertOrder(d)
      BY <1>2, <2>1 DEF CheckLine, ReserveSKU, InsertOrder, LineDone
    <2>2. CASE LockOrder(d) \/ ReadSKU(d) \/ SaveSKU(d)
      BY <1>2, <2>2 DEF LockOrder, ReadSKU, SaveSKU, LineDone
    <2>3. CASE Commit(d) \/ AppendAfterCommit(d) \/ Reread(d)
      BY <2>3 DEF Commit, AppendAfterCommit, Reread
    <2>4. CASE UpdateSKU(d) \/ DeadlockVictim(d) \/ Return(d)
      BY <1>2, <2>4 DEF UpdateSKU, DeadlockVictim, Return
    <2> QED
      BY <1>3, <2>1, <2>2, <2>3, <2>4 DEF Step, OrderStep
  <1>4. CASE Fault(d)
    BY <1>2, <1>4 DEF Fault, StatementFails, CommitAnswerLost, Crash
  <1> QED
    BY <1>1, <1>3, <1>4

\* A step is a step of one handler, or it is no handler's.
LEMMA Actors ==
  ASSUME [Next]_vars
  PROVE  \/ \E d \in Clients : Call(d) \/ Step(d) \/ Fault(d)
         \/ UNCHANGED <<pc, req, orders>>
  BY DEF Next, MerchantSetProductStatus, client, vars, store

\* A checkout comes to its COMMIT by its INSERTs.
LEMMA ArrivesAtCommit ==
  ASSUME Consistent, NEW c \in Clients, Call(c) \/ Step(c) \/ Fault(c),
         pc'[c] = "commit", req'[c].op = "CreateOrder"
  PROVE  InsertOrder(c) /\ ~KeyTaken(c) /\ UNCHANGED <<req, orders>>
  <1> USE DEF TypeOK, ClientTypeOK, Goto
  <1>1. TypeOK /\ RightStatement(c)
    BY DEF Consistent, Right
  <1>2. ASSUME NEW where, Abort(c, where) \/ Answer(c, where), where # "commit"
        PROVE  FALSE
    BY <1>1, <1>2 DEF Abort, Answer
  <1>3. ~Call(c)
    <2>1. ASSUME NEW u \in Users, NEW k \in Keys, NEW items \in Baskets PROVE ~CreateOrder(c, u, k, items)
      BY <1>1 DEF CreateOrder
    <2>2. ASSUME NEW op \in StatusOps, NEW actor, NEW o \in OrderIds PROVE ~ChangeStatus(op, c, actor, o)
      BY <1>1 DEF ChangeStatus, StatusOps
    <2>3. ASSUME NEW s \in SKUs, NEW stock \in StockInputs, NEW active \in BOOLEAN
          PROVE  ~MerchantUpdateSKU(c, s, stock, active)
      BY <1>1 DEF MerchantUpdateSKU
    <2> QED
      BY <2>1, <2>2, <2>3
         DEF Call, OrderCall, PayOrder, CancelOrder, FinishOrder, RequestRefund, MerchantShipOrder,
             MerchantApproveRefund, StatusOps
  <1>4. ~Fault(c)
    BY <1>1, <1>2 DEF Fault, StatementFails, CommitAnswerLost, Crash, AfterFailure
  <1>5. Step(c)
    BY <1>3, <1>4
  <1>6. ~(CheckLine(c) \/ ReserveSKU(c))
    BY <1>1, <1>2 DEF CheckLine, ReserveSKU, LineDone, LineVerdict
  <1>7. ~(LockOrder(c) \/ ReadSKU(c) \/ SaveSKU(c))
    BY <1>1, <1>2 DEF LockOrder, ReadSKU, SaveSKU, LineDone, RightStatement, InventoryOps, StatusOps
  <1>8. ~(Commit(c) \/ AppendAfterCommit(c) \/ Reread(c))
    BY <1>1 DEF Commit, AppendAfterCommit, Reread
  <1>9. ~(UpdateSKU(c) \/ DeadlockVictim(c) \/ Return(c))
    BY <1>1, <1>2 DEF UpdateSKU, DeadlockVictim, Return, AfterFailure
  <1>10. InsertOrder(c)
    BY <1>5, <1>6, <1>7, <1>8, <1>9 DEF Step, OrderStep
  <1> QED
    BY <1>2, <1>10 DEF InsertOrder

-----------------------------------------------------------------------------
(* Idempotency keys *)

\* A checkout has inserted its order and has not committed it.
Inserting(c) == pc[c] = "commit" /\ req[c].op = "CreateOrder"

\* No order has the key of such a checkout, and no two of them have one key.
KeysApart ==
  /\ OneOrderPerKey
  /\ \A c \in Clients : Inserting(c) => OrdersWithKey(req[c].actor, req[c].key) = {}
  /\ \A c, d \in Clients :
       Inserting(c) /\ Inserting(d) /\ req[c].actor = req[d].actor /\ req[c].key = req[d].key => c = d

\* A checkout that is inserting did so before, or does so in this step.
LEMMA InsertersGrow ==
  ASSUME Consistent, [Next]_vars, NEW c \in Clients, Inserting(c)'
  PROVE  \/ Inserting(c) /\ req'[c] = req[c]
         \/ InsertOrder(c) /\ ~KeyTaken(c) /\ UNCHANGED <<req, orders>>
  <1>1. CASE UNCHANGED <<pc, req, orders>>
    BY <1>1 DEF Inserting
  <1>2. ASSUME NEW d \in Clients, Call(d) \/ Step(d) \/ Fault(d), d # c
        PROVE  Inserting(c) /\ req'[c] = req[c]
    BY <1>2, OthersKeep DEF Inserting, Consistent
  <1>3. CASE Call(c) \/ Step(c) \/ Fault(c)
    BY <1>3, ArrivesAtCommit DEF Inserting
  <1> QED
    BY <1>1, <1>2, <1>3, Actors

\* A change of status keeps the keys; a new order takes the one of its request.
LEMMA KeysAfterPublish ==
  ASSUME Consistent, NEW c \in Clients, pc[c] = "commit", Publish(c), NEW u \in Users, NEW k \in Keys
  PROVE  \/ OrdersWithKey(u, k)' = OrdersWithKey(u, k)
         \/ /\ Inserting(c) /\ u = req[c].actor /\ k = req[c].key
            /\ OrdersWithKey(u, k)' = OrdersWithKey(u, k) \cup {req[c].order}
  <1> DEFINE o == req[c].order
  <1>1. o \in OrderIds /\ \A p \in OrderIds \ {o} : orders'[p] = orders[p]
    BY PublishEffect
  <1>2. req[c].op = "CreateOrder" \/ req[c].op \in StatusOps
    BY DEF Consistent, Right, RightStatement
  <1>3. CASE req[c].op = "CreateOrder"
    <2>1. orders[o].status = "NONE" /\ orders'[o] = PlacedOrder(req[c]) /\ orders'[o].status = "CREATED"
      BY <1>3, PublishOrderEffect DEF Publish
    <2>2. orders'[o].user = req[c].actor /\ orders'[o].key = req[c].key
      BY <2>1 DEF PlacedOrder
    <2>3. CASE u = req[c].actor /\ k = req[c].key
      BY <1>1, <1>3, <2>1, <2>2, <2>3 DEF OrdersWithKey, Inserting
    <2>4. CASE ~(u = req[c].actor /\ k = req[c].key)
      BY <1>1, <2>1, <2>2, <2>4 DEF OrdersWithKey
    <2> QED
      BY <2>3, <2>4
  <1>4. CASE req[c].op \in StatusOps
    <2>1. /\ CanTransition(orders[o].status, ToStatus(req[c].op))
          /\ orders'[o] = Advance(orders[o], ToStatus(req[c].op))
      BY <1>4, PublishStatusEffect DEF Publish, StatusOps
    <2>2. orders[o].status # "NONE" /\ orders'[o].status # "NONE"
      BY <2>1, PublishEffect DEF CanTransition, legalTransitions
    <2>3. orders'[o].user = orders[o].user /\ orders'[o].key = orders[o].key
      BY <1>1, <2>1 DEF Advance, Consistent, TypeOK, StoreTypeOK, Order
    <2> QED
      BY <1>1, <2>2, <2>3 DEF OrdersWithKey
  <1> QED
    BY <1>2, <1>3, <1>4

LEMMA KeysStep == KeysApart /\ Consistent /\ [Next]_vars => KeysApart'
  <1> SUFFICES ASSUME KeysApart, Consistent, [Next]_vars PROVE KeysApart'
    OBVIOUS
  <1>1. ASSUME NEW c \in Clients, Inserting(c)
        PROVE  req[c].actor \in Users /\ req[c].key \in Keys
    BY <1>1 DEF Consistent, Right, RightRequest, Inserting
  <1>2. CASE UNCHANGED orders
    <2>1. \A u, k : OrdersWithKey(u, k)' = OrdersWithKey(u, k)
      BY <1>2 DEF OrdersWithKey
    <2>2. OneOrderPerKey'
      BY <2>1 DEF KeysApart, OneOrderPerKey
    <2>3. ASSUME NEW c \in Clients, Inserting(c)'
          PROVE  OrdersWithKey(req[c].actor, req[c].key)' = {}
      BY <2>1, <2>3, InsertersGrow DEF KeysApart, KeyTaken
    <2>4. ASSUME NEW c \in Clients, NEW d \in Clients, Inserting(c)', Inserting(d)',
                 req'[c].actor = req'[d].actor, req'[c].key = req'[d].key, c # d
          PROVE  FALSE
      <3>1. ~(Inserting(c) /\ InsertOrder(d) /\ UNCHANGED req)
        BY <2>4 DEF InsertOrder, KeyInFlight, Inserting
      <3>2. ~(Inserting(d) /\ InsertOrder(c) /\ UNCHANGED req)
        BY <2>4 DEF InsertOrder, KeyInFlight, Inserting
      <3>3. ~(InsertOrder(c) /\ InsertOrder(d))
        BY <2>4 DEF InsertOrder, Inserting, Goto, Abort, Consistent, TypeOK, ClientTypeOK
      <3> QED
        BY <2>4, <3>1, <3>2, <3>3, InsertersGrow DEF KeysApart
    <2> QED
      BY <2>2, <2>3, <2>4 DEF KeysApart
  <1>3. CASE ~UNCHANGED orders
    <2>1. PICK c \in Clients : (Commit(c) \/ CommitAnswerLost(c)) /\ pc[c] = "commit" /\ Publish(c)
      BY <1>3, OnlyCommitMoves
    <2>2. ~Inserting(c)'
      BY <2>1 DEF Commit, CommitAnswerLost, AfterFailure, Goto, Inserting, Consistent, TypeOK, ClientTypeOK
    <2>3. ASSUME NEW d \in Clients, Inserting(d)'
          PROVE  d # c /\ Inserting(d) /\ req'[d] = req[d]
      BY <1>3, <2>2, <2>3, InsertersGrow
    <2>4. OneOrderPerKey'
      <3> SUFFICES ASSUME NEW u \in Users, NEW k \in Keys,
                          NEW o1 \in OrdersWithKey(u, k)', NEW o2 \in OrdersWithKey(u, k)'
                   PROVE  o1 = o2
        BY DEF OneOrderPerKey
      <3> QED
        BY <2>1, KeysAfterPublish DEF KeysApart, OneOrderPerKey
    <2>5. ASSUME NEW d \in Clients, Inserting(d)'
          PROVE  OrdersWithKey(req[d].actor, req[d].key)' = {}
      <3>1. d # c /\ Inserting(d) /\ req'[d] = req[d]
        BY <2>3, <2>5
      <3>2. OrdersWithKey(req[d].actor, req[d].key) = {} /\ req[d].actor \in Users /\ req[d].key \in Keys
        BY <1>1, <3>1 DEF KeysApart
      <3>3. ~(Inserting(c) /\ req[d].actor = req[c].actor /\ req[d].key = req[c].key)
        BY <3>1 DEF KeysApart
      <3> DEFINE u == req[d].actor
                 k == req[d].key
      <3>4. (OrdersWithKey(u, k))' = {}
        BY <2>1, <3>1, <3>2, <3>3, KeysAfterPublish DEF OrdersWithKey
      <3> QED
        BY <3>4
    <2> QED
      BY <2>3, <2>4, <2>5 DEF KeysApart
  <1> QED
    BY <1>2, <1>3

\* Two checkouts of a user with one idempotency key never both leave an order:
\* the look for the key before the transaction may miss the other, the unique
\* index does not.
THEOREM KeysTheorem == Spec => []OneOrderPerKey
  <1>1. Init => KeysApart
    BY DEF Init, KeysApart, OneOrderPerKey, OrdersWithKey, NoOrder, Inserting
  <1>2. KeysApart => OneOrderPerKey
    BY DEF KeysApart
  <1> QED
    BY <1>1, <1>2, KeysStep, Invariance, PTL DEF Spec

-----------------------------------------------------------------------------
(* Answers *)

\* What the handler of request r was asked for has happened to its order.
Done(r, order) ==
  /\ order.status # "NONE"
  /\ r.op = "CreateOrder" => order.user = r.actor /\ order.key = r.key
  /\ r.op \in StatusOps /\ ToStatus(r.op) \in Stamped => ToStatus(r.op) \in order.stamps
  /\ r.op = "RequestRefund" => order.status \in {"REFUNDING", "REFUNDED"}
  /\ r.op = "MerchantApproveRefund" => order.status = "REFUNDED"

\* It has happened once the transaction is committed, and when "ok" is said.
DoneWhenAnswered ==
  \A c \in Clients :
    pc[c] \in {"after", "ok"} /\ req[c].op # "MerchantUpdateSKU" =>
      req[c].order \in OrderIds /\ Done(req[c], orders[req[c].order])

\* What has happened to an order is never undone.
LEMMA DoneStays ==
  ASSUME Consistent, [Next]_vars, NEW r, NEW o \in OrderIds, Done(r, orders[o])
  PROVE  Done(r, orders'[o])
  <1>1. CASE orders'[o] = orders[o]
    BY <1>1 DEF Done
  <1>2. CASE orders'[o] # orders[o]
    <2>1. PICK c \in Clients : pc[c] = "commit" /\ Publish(c)
      BY <1>2, OnlyCommitMoves
    <2>2. o = req[c].order
      BY <1>2, <2>1, PublishEffect
    <2>3. req[c].op \in StatusOps
      BY <2>1, <2>2, PublishOrderEffect DEF Publish, Done, Consistent, Right, RightStatement
    <2> DEFINE to == ToStatus(req[c].op)
    <2>4. CanTransition(orders[o].status, to) /\ orders'[o] = Advance(orders[o], to)
      BY <2>1, <2>2, <2>3, PublishStatusEffect DEF Publish, StatusOps
    <2>5. /\ orders'[o].status = to /\ orders[o].stamps \subseteq orders'[o].stamps
          /\ orders'[o].user = orders[o].user /\ orders'[o].key = orders[o].key
      BY <2>4 DEF Advance, Consistent, TypeOK, StoreTypeOK, Order
    <2> QED
      BY <2>4, <2>5 DEF Done, CanTransition, legalTransitions
  <1> QED
    BY <1>1, <1>2

\* An order on which a guard of a repeated call holds has been through the call.
LEMMA AppliedIsDone ==
  ASSUME StampsFollowStatus, NEW o \in OrderIds, NEW r, r.op \in StatusOps, AlreadyApplied(r.op, orders[o])
  PROVE  Done(r, orders[o])
  BY DEF StampsFollowStatus, Done, StatusOps, ToStatus, Stamped, AlreadyApplied, payAlreadyApplied,
         cancelAlreadyApplied, finishAlreadyApplied, refundRequestAlreadyApplied, shipAlreadyApplied,
         refundApprovalAlreadyApplied

\* COMMIT does what the handler was asked for.
LEMMA CommitDoes ==
  ASSUME Consistent, NEW c \in Clients, pc[c] = "commit", Publish(c)
  PROVE  Done(req[c], orders'[req[c].order])
  <1> DEFINE o == req[c].order
  <1>1. o \in OrderIds /\ (req[c].op = "CreateOrder" \/ req[c].op \in StatusOps)
    BY PublishEffect DEF Consistent, Right, RightStatement
  <1>2. CASE req[c].op = "CreateOrder"
    <2>1. orders'[o] = PlacedOrder(req[c])
      BY <1>2, PublishOrderEffect DEF Publish
    <2> QED
      BY <1>2, <2>1 DEF Done, PlacedOrder, StatusOps
  <1>3. CASE req[c].op \in StatusOps
    <2> DEFINE to == ToStatus(req[c].op)
    <2>1. to \in OrderStatuses /\ orders'[o] = Advance(orders[o], to)
      BY <1>3, PublishStatusEffect DEF Publish, StatusOps
    <2>2. orders'[o].status = to /\ {to} \cap Stamped \subseteq orders'[o].stamps
      BY <1>1, <2>1 DEF Advance, Consistent, TypeOK, StoreTypeOK, Order
    <2> QED
      BY <1>3, <2>1, <2>2 DEF Done, StatusOps, ToStatus, OrderStatuses
  <1> QED
    BY <1>1, <1>2, <1>3

\* The ways to an answer "ok".
LEMMA ArrivesAtAnswer ==
  ASSUME Consistent, NEW c \in Clients, Call(c) \/ Step(c) \/ Fault(c),
         pc'[c] \in {"after", "ok"}, req'[c].op # "MerchantUpdateSKU"
  PROVE  \/ Commit(c) /\ UNCHANGED req
         \/ pc[c] = "after" /\ UNCHANGED <<req, orders>>
         \/ /\ req'[c].op \in StatusOps /\ req'[c].order \in OrderIds
            /\ AlreadyApplied(req'[c].op, orders[req'[c].order])
            /\ UNCHANGED orders
         \/ /\ req'[c].op = "CreateOrder"
            /\ req'[c].order \in OrdersWithKey(req'[c].actor, req'[c].key)
            /\ UNCHANGED orders
  <1> USE DEF TypeOK, ClientTypeOK, Goto
  <1>1. TypeOK /\ RightStatement(c) /\ RightRequest(c)
    BY DEF Consistent, Right
  <1>2. ASSUME NEW where, Abort(c, where) \/ Answer(c, where)
        PROVE  pc'[c] = where
    BY <1>1, <1>2 DEF Abort, Answer
  <1>3. CASE Call(c)
    <2>1. ASSUME NEW u \in Users, NEW k \in Keys, NEW items \in Baskets, CreateOrder(c, u, k, items)
          PROVE  /\ req'[c].op = "CreateOrder"
                 /\ req'[c].order \in OrdersWithKey(req'[c].actor, req'[c].key)
                 /\ UNCHANGED orders
      BY <1>1, <2>1 DEF CreateOrder, store
    <2>2. ASSUME NEW op \in StatusOps, NEW actor \in Users \cup Merchants, NEW o \in OrderIds,
                 ChangeStatus(op, c, actor, o)
          PROVE  /\ req'[c].op \in StatusOps /\ req'[c].order \in OrderIds
                 /\ AlreadyApplied(req'[c].op, orders[req'[c].order])
                 /\ UNCHANGED orders
      <3>1. req'[c].op = op /\ req'[c].order = o /\ UNCHANGED orders
        BY <1>1, <2>2 DEF ChangeStatus, store
      <3>2. AlreadyApplied(op, orders[o])
        BY <1>1, <2>2 DEF ChangeStatus
      <3> QED
        BY <3>1, <3>2
    <2>3. ASSUME NEW s \in SKUs, NEW stock \in StockInputs, NEW active \in BOOLEAN,
                 MerchantUpdateSKU(c, s, stock, active)
          PROVE  FALSE
      BY <1>1, <2>3 DEF MerchantUpdateSKU
    <2> QED
      BY <1>3, <2>1, <2>2, <2>3
         DEF Call, OrderCall, PayOrder, CancelOrder, FinishOrder, RequestRefund, MerchantShipOrder,
             MerchantApproveRefund, StatusOps
  <1>4. ~Fault(c)
    BY <1>1, <1>2 DEF Fault, StatementFails, CommitAnswerLost, Crash, AfterFailure
  <1>5. CASE Step(c)
    <2>1. ~(CheckLine(c) \/ ReserveSKU(c) \/ InsertOrder(c))
      <3>1. ~CheckLine(c)
        BY <1>1, <1>2 DEF CheckLine, LineDone, LineVerdict
      <3>2. ~ReserveSKU(c)
        BY <1>1, <1>2 DEF ReserveSKU, LineDone
      <3>3. ~InsertOrder(c)
        BY <1>1, <1>2 DEF InsertOrder
      <3> QED
        BY <3>1, <3>2, <3>3
    <2>2. ~(LockOrder(c) \/ ReadSKU(c) \/ SaveSKU(c))
      <3>1. ~LockOrder(c)
        BY <1>1, <1>2 DEF LockOrder
      <3>2. ~ReadSKU(c)
        BY <1>1 DEF ReadSKU
      <3>3. ~SaveSKU(c)
        BY <1>1, <1>2 DEF SaveSKU, LineDone
      <3> QED
        BY <3>1, <3>2, <3>3
    <2>3. ~(UpdateSKU(c) \/ DeadlockVictim(c) \/ Return(c))
      <3>1. ~UpdateSKU(c)
        BY <1>1 DEF UpdateSKU, Answer, RightStatement
      <3>2. ~DeadlockVictim(c)
        BY <1>1, <1>2 DEF DeadlockVictim, AfterFailure
      <3>3. ~Return(c)
        BY <1>1 DEF Return
      <3> QED
        BY <3>1, <3>2, <3>3
    <2>4. CASE Commit(c)
      BY <2>4 DEF Commit
    <2>5. CASE AppendAfterCommit(c)
      BY <2>5 DEF AppendAfterCommit
    <2>6. CASE Reread(c)
      BY <1>1, <2>6 DEF Reread, RightStatement, RightRequest, store
    <2> QED
      BY <1>5, <2>1, <2>2, <2>3, <2>4, <2>5, <2>6 DEF Step, OrderStep
  <1> QED
    BY <1>3, <1>4, <1>5

LEMMA DoneStep ==
  DoneWhenAnswered /\ StampsFollowStatus /\ Consistent /\ [Next]_vars => DoneWhenAnswered'
  <1> SUFFICES ASSUME DoneWhenAnswered, StampsFollowStatus, Consistent, [Next]_vars, NEW c \in Clients,
                      pc'[c] \in {"after", "ok"}, req'[c].op # "MerchantUpdateSKU"
               PROVE  req'[c].order \in OrderIds /\ Done(req'[c], orders'[req'[c].order])
    BY DEF DoneWhenAnswered
  <1> DEFINE o == req'[c].order
  <1>1. CASE pc[c] \in {"after", "ok"} /\ req'[c] = req[c]
    <2>1. o \in OrderIds /\ Done(req[c], orders[o])
      BY <1>1 DEF DoneWhenAnswered
    <2> QED
      BY <1>1, <2>1, DoneStays
  <1>2. CASE Call(c) \/ Step(c) \/ Fault(c)
    <2>1. CASE Commit(c) /\ UNCHANGED req
      <3>1. pc[c] = "commit" /\ Publish(c)
        BY <2>1 DEF Commit
      <3> QED
        BY <2>1, <3>1, CommitDoes, PublishEffect
    <2>2. CASE pc[c] = "after" /\ UNCHANGED <<req, orders>>
      BY <1>1, <2>2
    <2>3. CASE /\ req'[c].op \in StatusOps /\ o \in OrderIds
               /\ AlreadyApplied(req'[c].op, orders[o])
               /\ UNCHANGED orders
      BY <2>3, AppliedIsDone
    <2>4. CASE /\ req'[c].op = "CreateOrder"
               /\ o \in OrdersWithKey(req'[c].actor, req'[c].key)
               /\ UNCHANGED orders
      BY <2>4 DEF OrdersWithKey, Done, StatusOps
    <2> QED
      BY <1>2, <2>1, <2>2, <2>3, <2>4, ArrivesAtAnswer
  <1>3. CASE ~(Call(c) \/ Step(c) \/ Fault(c))
    <2>1. pc'[c] = pc[c] /\ req'[c] = req[c]
      BY <1>3, Actors, OthersKeep DEF Consistent
    <2> QED
      BY <1>1, <2>1
  <1> QED
    BY <1>2, <1>3

\* An "ok" is true, whether it answers the first call or a repeated one, and
\* whether the transaction succeeded or was looked into after it failed.
THEOREM AnswersAreTrue == Spec => []AckedIsApplied
  <1>1. Init => DoneWhenAnswered
    BY DEF Init, DoneWhenAnswered
  <1>2. DoneWhenAnswered => AckedIsApplied
    BY DEF DoneWhenAnswered, Done, AckedIsApplied, StatusOps
  <1> QED
    BY <1>1, <1>2, DoneStep, StampsTheorem, Invariance, PTL DEF Spec


=============================================================================
