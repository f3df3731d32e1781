-------------------------- MODULE OrderEffects_proofs --------------------------
(***************************************************************************)
(* What the order handlers leave behind: the stock columns, the journals,  *)
(* the life of an order they make together, and what a reader is shown of  *)
(* it.                                                                     *)
(***************************************************************************)
EXTENDS OrderService_proofs, OrderViews

-----------------------------------------------------------------------------
(***************************************************************************)
(* The stock columns never leave their bounds, however many handlers work  *)
(* on one SKU, and are never negative, whatever the merchants enter.       *)
(*                                                                         *)
(* Neither is inductive: the row a transaction writes back is one it has   *)
(* read, and how much it moves is what a checkout was told.  So the bounds *)
(* are kept for the drafts and for the rows in the hands of the handlers,  *)
(* and Quantities says that nobody moves nothing, or less.                 *)
(***************************************************************************)

-----------------------------------------------------------------------------
(* What the handlers do to their own variables *)

\* The steps of one handler leave the lines and the row of every other alone.
LEMMA OthersKeepRows ==
  ASSUME TypeOK, NEW d \in Clients, Call(d) \/ Step(d) \/ Fault(d), NEW c \in Clients \ {d}
  PROVE  todo'[c] = todo[c] /\ row'[c] = row[c]
  <1> USE DEF TypeOK, ClientTypeOK, Settle
  <1>1. CASE Call(d)
    <2>1. CASE \E u \in Users, k \in Keys, items \in Baskets : CreateOrder(d, u, k, items)
      BY <2>1 DEF CreateOrder
    <2>2. CASE \E op \in StatusOps, actor \in Users \cup Merchants, o \in OrderIds : ChangeStatus(op, d, actor, o)
      BY <2>2 DEF ChangeStatus
    <2>3. CASE \E s \in SKUs, stock \in StockInputs, active \in BOOLEAN : MerchantUpdateSKU(d, s, stock, active)
      BY <2>3 DEF MerchantUpdateSKU
    <2> QED
      BY <1>1, <2>1, <2>2, <2>3
         DEF Call, OrderCall, PayOrder, CancelOrder, FinishOrder, RequestRefund, MerchantShipOrder,
             MerchantApproveRefund, StatusOps
  <1>2. ASSUME NEW where, Abort(d, where) \/ Answer(d, where)
        PROVE  todo'[c] = todo[c] /\ row'[c] = row[c]
    BY <1>2 DEF Abort, Answer
  <1>3. CASE Step(d)
    <2>1. CASE CheckLine(d)
      BY <1>2, <2>1 DEF CheckLine, LineDone
    <2>2. CASE ReserveSKU(d) \/ InsertOrder(d)
      BY <1>2, <2>2 DEF ReserveSKU, InsertOrder, LineDone
    <2>3. CASE LockOrder(d) \/ ReadSKU(d) \/ SaveSKU(d)
      BY <1>2, <2>3 DEF LockOrder, ReadSKU, SaveSKU, LineDone
    <2>4. CASE Commit(d) \/ AppendAfterCommit(d) \/ Reread(d)
      BY <2>4 DEF Commit, AppendAfterCommit, Reread
    <2>5. CASE UpdateSKU(d) \/ DeadlockVictim(d) \/ Return(d)
      BY <1>2, <2>5 DEF UpdateSKU, DeadlockVictim, Return
    <2> QED
      BY <1>3, <2>1, <2>2, <2>3, <2>4, <2>5 DEF Step, OrderStep
  <1>4. CASE Fault(d)
    BY <1>2, <1>4 DEF Fault, StatementFails, CommitAnswerLost, Crash
  <1> QED
    BY <1>1, <1>3, <1>4

\* A step is a step of one handler, or leaves all of them and the SKUs as they are.
LEMMA ActorsOfRows ==
  ASSUME [Next]_vars
  PROVE  \/ \E d \in Clients : Call(d) \/ Step(d) \/ Fault(d)
         \/ UNCHANGED <<pc, req, todo, row, locks, skuRow, skuDraft>>
  BY DEF Next, MerchantSetProductStatus, client, vars, store

\* A handler that does nothing is as it was.
LEMMA Idle ==
  ASSUME Consistent, [Next]_vars, NEW c \in Clients, ~(Call(c) \/ Step(c) \/ Fault(c))
  PROVE  pc'[c] = pc[c] /\ req'[c] = req[c] /\ todo'[c] = todo[c] /\ row'[c] = row[c]
  BY ActorsOfRows, OthersKeep, OthersKeepRows DEF Consistent

\* Before its first statement a handler only reads.
LEMMA CallKeepsStore ==
  ASSUME NEW c \in Clients, Call(c)
  PROVE  UNCHANGED store
  <1>1. ASSUME NEW u, NEW k, NEW items, CreateOrder(c, u, k, items) PROVE UNCHANGED store
    BY <1>1 DEF CreateOrder
  <1>2. ASSUME NEW op, NEW actor, NEW o, ChangeStatus(op, c, actor, o) PROVE UNCHANGED store
    BY <1>2 DEF ChangeStatus
  <1>3. ASSUME NEW s, NEW stock, NEW active, MerchantUpdateSKU(c, s, stock, active) PROVE UNCHANGED store
    BY <1>3 DEF MerchantUpdateSKU
  <1> QED
    BY <1>1, <1>2, <1>3
       DEF Call, OrderCall, PayOrder, CancelOrder, FinishOrder, RequestRefund, MerchantShipOrder,
           MerchantApproveRefund

-----------------------------------------------------------------------------
(* Quantities *)

Positive(lines) == \A i \in DOMAIN lines : lines[i].qty > 0

\* A checkout has refused the lines it has looked at unless they ask for
\* something, and what it locks is what they ask for.
Checked(c) ==
  /\ pc[c] = "check" =>
       \A i \in DOMAIN req[c].items : i \notin todo[c] => req[c].items[i].qty > 0
  /\ pc[c] \in {"reserve", "insert"} \/ Inserting(c) => Positive(req[c].items)

Quantities ==
  /\ \A o \in OrderIds : Positive(locks[o])
  /\ \A c \in Clients : Checked(c)

\* How a handler gets to the lines of a checkout.
LEMMA ArrivesAtLines ==
  ASSUME Consistent, NEW c \in Clients, Call(c) \/ Step(c) \/ Fault(c),
         pc'[c] \in {"check", "reserve", "insert"}
  PROVE  \/ pc'[c] = "check" /\ todo'[c] = DOMAIN req'[c].items
         \/ CheckLine(c)
         \/ ReserveSKU(c) /\ pc'[c] # "check"
  <1> USE DEF TypeOK, ClientTypeOK, Goto
  <1>1. TypeOK /\ RightStatement(c)
    BY DEF Consistent, Right
  <1>2. ASSUME NEW where, Abort(c, where) \/ Answer(c, where)
        PROVE  pc'[c] = where
    BY <1>1, <1>2 DEF Abort, Answer
  <1>3. CASE Call(c)
    <2>1. ASSUME NEW u \in Users, NEW k \in Keys, NEW items \in Baskets, CreateOrder(c, u, k, items)
          PROVE  pc'[c] = "check" /\ todo'[c] = DOMAIN req'[c].items
      <3>1. PICK o :
              /\ req' = [req EXCEPT ![c] = [op |-> "CreateOrder", order |-> o, actor |-> u,
                                            key |-> k, items |-> items, from |-> "NONE"]]
              /\ \/ Goto(c, "ok")
                 \/ Goto(c, "check") /\ todo' = [todo EXCEPT ![c] = DOMAIN items]
        BY <2>1 DEF CreateOrder
      <3>2. req'[c].items = items /\ pc'[c] # "ok"
        BY <1>1, <3>1
      <3> QED
        BY <1>1, <3>1, <3>2
    <2>2. ASSUME NEW op \in StatusOps, NEW actor, NEW o \in OrderIds PROVE ~ChangeStatus(op, c, actor, o)
      BY <1>1 DEF ChangeStatus, StatusOps
    <2>3. ASSUME NEW s \in SKUs, NEW stock \in StockInputs, NEW active \in BOOLEAN
          PROVE  ~MerchantUpdateSKU(c, s, stock, active)
      BY <1>1 DEF MerchantUpdateSKU
    <2> QED
      BY <1>3, <2>1, <2>2, <2>3
         DEF Call, OrderCall, PayOrder, CancelOrder, FinishOrder, RequestRefund, MerchantShipOrder,
             MerchantApproveRefund, StatusOps
  <1>4. ~Fault(c)
    BY <1>1, <1>2 DEF Fault, StatementFails, CommitAnswerLost, Crash, AfterFailure
  <1>5. CASE Step(c)
    <2>1. ~InsertOrder(c)
      BY <1>1, <1>2 DEF InsertOrder
    <2>2. ~(LockOrder(c) \/ ReadSKU(c) \/ SaveSKU(c))
      BY <1>1, <1>2 DEF LockOrder, ReadSKU, SaveSKU, LineDone
    <2>3. ~(Commit(c) \/ AppendAfterCommit(c) \/ Reread(c))
      BY <1>1 DEF Commit, AppendAfterCommit, Reread
    <2>4. ~(UpdateSKU(c) \/ DeadlockVictim(c) \/ Return(c))
      BY <1>1, <1>2 DEF UpdateSKU, DeadlockVictim, Return, AfterFailure
    <2>5. ReserveSKU(c) => pc'[c] # "check"
      BY <1>1, <1>2 DEF ReserveSKU, LineDone
    <2> QED
      BY <1>5, <2>1, <2>2, <2>3, <2>4, <2>5 DEF Step, OrderStep
  <1> QED
    BY <1>3, <1>4, <1>5

\* A line is left behind only when it asks for something.
LEMMA CheckLineChecks ==
  ASSUME Consistent, NEW c \in Clients, Checked(c), CheckLine(c)
  PROVE  Checked(c)'
  <1> USE DEF TypeOK, ClientTypeOK, Goto
  <1> DEFINE items == req[c].items
  <1>1. TypeOK /\ req[c].items \in Seq(Item) /\ pc[c] = "check"
    BY DEF Consistent, CheckLine, Request
  <1>2. PICK i \in todo[c] :
          \/ /\ LineVerdict(items, i) = "fine"
             /\ IF todo[c] = {i}
                  THEN Goto(c, "reserve") /\ todo' = [todo EXCEPT ![c] = DOMAIN items]
                  ELSE LineDone(c, i, "check", "check")
             /\ UNCHANGED <<req, row, pending>>
          \/ \E verdict \in {"invalid", "conflict"} : Answer(c, verdict)
    BY DEF CheckLine, LineVerdict
  <1>3. CASE \E verdict \in {"invalid", "conflict"} : Answer(c, verdict)
    BY <1>1, <1>3 DEF Answer, Checked, Inserting
  <1>4. CASE LineVerdict(items, i) = "fine" /\ UNCHANGED <<req, row, pending>>
             /\ IF todo[c] = {i}
                  THEN Goto(c, "reserve") /\ todo' = [todo EXCEPT ![c] = DOMAIN items]
                  ELSE LineDone(c, i, "check", "check")
    <2>1. i \in DOMAIN items
      BY <1>1 DEF Consistent, Right, RightLines
    <2>2. items[i] \in Item
      BY <1>1, <2>1, Elements
    <2>3. items[i].qty \in Int
      BY <2>2 DEF Item
    <2>4. items[i].qty > 0
      <3>1. items[i].qty <= 0 => LineVerdict(items, i) = "invalid"
        BY <2>3 DEF LineVerdict
      <3> QED
        BY <1>4, <2>3, <3>1
    <2>5. \A j \in DOMAIN items : j \notin todo[c] \/ j = i => items[j].qty > 0
      BY <1>1, <2>4 DEF Checked
    <2> HIDE DEF items
    <2>6. CASE todo[c] = {i}
      <3>1. pc'[c] = "reserve" /\ req'[c].items = items
        BY <1>1, <1>4, <2>6 DEF items
      <3>2. Positive(items)
        BY <2>5, <2>6 DEF Positive
      <3> QED
        BY <3>1, <3>2 DEF Checked, Inserting
    <2>7. CASE todo[c] # {i}
      <3>1. pc'[c] = "check" /\ todo'[c] = todo[c] \ {i} /\ req'[c].items = items
        BY <1>1, <1>4, <2>7 DEF LineDone, items
      <3> QED
        BY <2>5, <3>1 DEF Checked, Inserting
    <2> QED
      BY <2>6, <2>7
  <1> QED
    BY <1>2, <1>3, <1>4

LEMMA CheckedStep ==
  ASSUME Quantities, Consistent, [Next]_vars, NEW c \in Clients
  PROVE  Checked(c)'
  <1>1. TypeOK /\ Checked(c) /\ RightStatement(c)
    BY DEF Quantities, Consistent, Right
  <1>2. CASE ~(Call(c) \/ Step(c) \/ Fault(c))
    BY <1>1, <1>2, Idle DEF Checked, Inserting
  <1>3. CASE Call(c) \/ Step(c) \/ Fault(c)
    <2>1. CASE pc'[c] \in {"check", "reserve", "insert"}
      <3>1. CASE pc'[c] = "check" /\ todo'[c] = DOMAIN req'[c].items
        BY <3>1 DEF Checked, Inserting
      <3>2. CASE CheckLine(c)
        BY <1>1, <3>2, CheckLineChecks
      <3>3. CASE ReserveSKU(c) /\ pc'[c] # "check"
        <4>1. pc[c] = "reserve" /\ req' = req
          BY <3>3 DEF ReserveSKU, Abort
        <4>2. Positive(req[c].items)
          BY <1>1, <4>1 DEF Checked
        <4> QED
          BY <2>1, <3>3, <4>1, <4>2 DEF Checked, Inserting
      <3> QED
        BY <1>3, <2>1, <3>1, <3>2, <3>3, ArrivesAtLines
    <2>2. CASE Inserting(c)'
      <3>1. InsertOrder(c) /\ UNCHANGED req
        BY <1>3, <2>2, ArrivesAtCommit DEF Inserting
      <3>2. Positive(req[c].items)
        BY <1>1, <3>1 DEF Checked, InsertOrder
      <3> QED
        BY <2>2, <3>1, <3>2 DEF Checked, Inserting
    <2>3. CASE ~(pc'[c] \in {"check", "reserve", "insert"} \/ Inserting(c)')
      BY <2>3 DEF Checked
    <2> QED
      BY <2>1, <2>2, <2>3
  <1> QED
    BY <1>2, <1>3

LEMMA QuantitiesStep == Quantities /\ Consistent /\ [Next]_vars => Quantities'
  <1> SUFFICES ASSUME Quantities, Consistent, [Next]_vars PROVE Quantities'
    OBVIOUS
  <1>1. ASSUME NEW o \in OrderIds PROVE Positive(locks'[o])
    <2>1. Positive(locks[o])
      BY DEF Quantities
    <2>2. CASE locks'[o] = locks[o]
      BY <2>1, <2>2
    <2>3. CASE locks'[o] # locks[o]
      <3>1. PICK c \in Clients : pc[c] = "commit" /\ Publish(c)
        BY <2>3, OnlyCommitMoves
      <3>2. o = req[c].order /\ (req[c].op = "CreateOrder" \/ req[c].op \in StatusOps)
        BY <2>3, <3>1, PublishEffect DEF Consistent, Right, RightStatement
      <3>3. CASE req[c].op = "CreateOrder"
        <4>1. req[c].items \in Baskets /\ locks'[o] = PlacedLocks(req[c].items)
          BY <3>1, <3>2, <3>3, PublishOrderEffect DEF Publish
        <4>2. Positive(req[c].items)
          BY <3>1, <3>3 DEF Quantities, Checked, Inserting
        <4> QED
          BY <4>1, <4>2 DEF Positive, PlacedLocks
      <3>4. CASE req[c].op \in StatusOps
        <4>1. locks'[o] = Relock(locks[o], req[c].op)
          BY <3>1, <3>2, <3>4, PublishStatusEffect DEF Publish, StatusOps
        <4>2. locks[o] \in Seq(Lock)
          BY DEF Consistent, TypeOK, StoreTypeOK
        <4>3. /\ DOMAIN locks'[o] = DOMAIN locks[o]
              /\ \A i \in DOMAIN locks[o] : locks'[o][i].qty = locks[o][i].qty
          BY <4>1, <4>2, RelockType
        <4> QED
          BY <2>1, <4>3 DEF Positive
      <3> QED
        BY <3>2, <3>3, <3>4
    <2> QED
      BY <2>2, <2>3
  <1> QED
    BY <1>1, CheckedStep DEF Quantities

\* Nobody is sold, or gives back, nothing or less.
LEMMA QuantitiesInvariance == Spec => []Quantities
  <1>1. Init => Quantities
    BY DEF Init, Quantities, Checked, Positive, Inserting
  <1> QED
    BY <1>1, QuantitiesStep, Invariance, PTL DEF Spec

-----------------------------------------------------------------------------
(* What the handlers do to the stock rows *)

\* The row of SKU s after handler c reserved a line of it.
Reserves(c, s) ==
  \E q \in Int :
    /\ q > 0
    /\ Available(Visible(c, s), q)
    /\ skuDraft'[s] = [Visible(c, s) EXCEPT !.locked = @ + q]

\* The row of SKU s after handler c moved the stock of a lock.
Saves(c, s) ==
  \E lock \in Lock :
    /\ pc[c] = "save"
    /\ lock.qty > 0
    /\ skuDraft'[s] = Moved(req[c].op, row[c], lock)
    /\ ~Underflow(skuDraft'[s])

\* The row of SKU s after the merchant saved it.
Edits(c, s) == pc[c] = "update" /\ skuDraft'[s] = row[c]

Known(s) == {skuRow[s], skuDraft[s]}

LEMMA RollbackRows ==
  ASSUME NEW c \in Clients, Rollback(c), NEW s \in SKUs
  PROVE  skuRow'[s] \in Known(s) /\ skuDraft'[s] \in Known(s)
  BY DEF Rollback, Known

LEMMA PublishRows ==
  ASSUME NEW c \in Clients, Publish(c), NEW s \in SKUs
  PROVE  skuRow'[s] \in Known(s) /\ skuDraft'[s] \in Known(s)
  BY DEF Publish, PublishOrder, PublishStatus, PublishSKUs, Visible, Known

\* An UPDATE of one row leaves the others.
LEMMA WriteRows ==
  ASSUME TypeOK, NEW c \in Clients, NEW w \in SKUs, NEW new, WriteSKU(c, w, new), NEW s \in SKUs
  PROVE  (skuDraft'[s] = new /\ s = w) \/ skuDraft'[s] \in Known(s)
  BY DEF WriteSKU, Known, TypeOK, StoreTypeOK

LEMMA ReserveRows ==
  ASSUME Consistent, Quantities, NEW c \in Clients, ReserveSKU(c), NEW s \in SKUs
  PROVE  skuRow'[s] \in Known(s) /\ (skuDraft'[s] \in Known(s) \/ Reserves(c, s))
  <1>1. CASE Abort(c, "conflict")
    BY <1>1, RollbackRows DEF Abort
  <1>2. CASE ~Abort(c, "conflict")
    <2>1. PICK i \in todo[c] :
            /\ pc[c] = "reserve"
            /\ Available(Visible(c, req[c].items[i].sku), req[c].items[i].qty)
            /\ WriteSKU(c, req[c].items[i].sku,
                        [Visible(c, req[c].items[i].sku) EXCEPT !.locked = @ + req[c].items[i].qty])
            /\ skuRow' = skuRow
      BY <1>2 DEF ReserveSKU
    <2>2. i \in DOMAIN req[c].items /\ req[c].items \in Seq(Item)
      BY <2>1 DEF Consistent, Right, RightLines, TypeOK, ClientTypeOK, Request
    <2>3. req[c].items[i] \in Item
      BY <2>2, Elements
    <2>4. req[c].items[i].sku \in SKUs /\ req[c].items[i].qty \in Int
      BY <2>3 DEF Item
    <2>5. req[c].items[i].qty > 0
      BY <2>1, <2>2 DEF Quantities, Checked, Positive
    <2> DEFINE w == req[c].items[i].sku
               q == req[c].items[i].qty
    <2>6. Available(Visible(c, w), q) /\ WriteSKU(c, w, [Visible(c, w) EXCEPT !.locked = @ + q])
      BY <2>1
    <2>7. w \in SKUs /\ q \in Int /\ q > 0
      BY <2>4, <2>5
    <2> HIDE DEF w, q
    <2>8. \/ skuDraft'[s] \in Known(s)
          \/ s = w /\ skuDraft'[s] = [Visible(c, w) EXCEPT !.locked = @ + q]
      BY <2>6, <2>7, WriteRows DEF Consistent
    <2>9. s = w /\ skuDraft'[s] = [Visible(c, w) EXCEPT !.locked = @ + q] => Reserves(c, s)
      BY <2>6, <2>7 DEF Reserves
    <2> QED
      BY <2>1, <2>8, <2>9 DEF Known
  <1> QED
    BY <1>1, <1>2

LEMMA SaveRows ==
  ASSUME Consistent, Quantities, NEW c \in Clients, SaveSKU(c), NEW s \in SKUs
  PROVE  skuRow'[s] \in Known(s) /\ (skuDraft'[s] \in Known(s) \/ Saves(c, s))
  <1>1. CASE Abort(c, "reread")
    BY <1>1, RollbackRows DEF Abort
  <1>2. CASE ~Abort(c, "reread")
    <2> DEFINE lock(i) == locks[req[c].order][i]
    <2>1. PICK i \in todo[c] :
            /\ pc[c] = "save"
            /\ ~Underflow(Moved(req[c].op, row[c], lock(i)))
            /\ WriteSKU(c, lock(i).sku, Moved(req[c].op, row[c], lock(i)))
            /\ skuRow' = skuRow
      BY <1>2 DEF SaveSKU
    <2>2. req[c].order \in OrderIds /\ lock(i) \in Lock
      BY <2>1, NextLock
    <2>3. lock(i).qty > 0
      BY <2>1, <2>2 DEF Quantities, Positive, Consistent, Right, RightLines
    <2> DEFINE held == lock(i)
               moved == Moved(req[c].op, row[c], lock(i))
    <2>4. held \in Lock /\ held.qty > 0 /\ held.sku \in SKUs
      BY <2>2, <2>3 DEF Lock
    <2>5. moved = Moved(req[c].op, row[c], held) /\ ~Underflow(moved) /\ WriteSKU(c, held.sku, moved)
      BY <2>1
    <2> HIDE DEF held, moved
    <2>6. skuDraft'[s] \in Known(s) \/ skuDraft'[s] = moved
      BY <2>4, <2>5, WriteRows DEF Consistent
    <2>7. skuDraft'[s] = moved => Saves(c, s)
      BY <2>1, <2>4, <2>5 DEF Saves
    <2> QED
      BY <2>1, <2>6, <2>7 DEF Known
  <1> QED
    BY <1>1, <1>2

\* A committed row was there before, committed or written, or is the merchant's
\* edit; a row in a transaction was there, or is one a statement computed.
LEMMA RowsMove ==
  ASSUME Consistent, Quantities, [Next]_vars, NEW s \in SKUs
  PROVE  /\ skuRow'[s] \in Known(s) \/ \E c \in Clients : pc[c] = "update" /\ skuRow'[s] = row[c]
         /\ \/ skuDraft'[s] \in Known(s)
            \/ \E c \in Clients : Reserves(c, s) \/ Saves(c, s) \/ Edits(c, s)
  <1>1. UNCHANGED <<skuRow, skuDraft>> => skuRow'[s] \in Known(s) /\ skuDraft'[s] \in Known(s)
    BY DEF Known
  <1>2. ASSUME NEW c \in Clients, NEW where, Abort(c, where)
        PROVE  skuRow'[s] \in Known(s) /\ skuDraft'[s] \in Known(s)
    BY <1>2, RollbackRows DEF Abort
  <1>3. ASSUME NEW c \in Clients, ReserveSKU(c) \/ SaveSKU(c)
        PROVE  /\ skuRow'[s] \in Known(s)
               /\ skuDraft'[s] \in Known(s) \/ Reserves(c, s) \/ Saves(c, s)
    BY <1>3, ReserveRows, SaveRows
  <1>4. ASSUME NEW c \in Clients, UpdateSKU(c)
        PROVE  /\ skuRow'[s] \in Known(s) \/ (pc[c] = "update" /\ skuRow'[s] = row[c])
               /\ skuDraft'[s] \in Known(s) \/ Edits(c, s)
    <2>1. pc[c] = "update" /\ \E w : /\ skuRow' = [skuRow EXCEPT ![w] = row[c]]
                                    /\ skuDraft' = [skuDraft EXCEPT ![w] = row[c]]
      BY <1>4 DEF UpdateSKU
    <2> QED
      BY <2>1 DEF Edits, Known, Consistent, TypeOK, StoreTypeOK
  <1>5. ASSUME NEW c \in Clients, Call(c)
        PROVE  UNCHANGED <<skuRow, skuDraft>>
    BY <1>5, CallKeepsStore DEF store
  <1>6. ASSUME NEW c \in Clients, Fault(c)
        PROVE  skuRow'[s] \in Known(s) /\ skuDraft'[s] \in Known(s)
    <2>1. CASE StatementFails(c)
      BY <1>2, <2>1 DEF StatementFails
    <2>2. CASE CommitAnswerLost(c)
      BY <2>2, PublishRows DEF CommitAnswerLost
    <2>3. CASE Crash(c)
      BY <2>3, RollbackRows DEF Crash
    <2> QED
      BY <1>6, <2>1, <2>2, <2>3 DEF Fault
  <1>7. ASSUME NEW c \in Clients, Step(c)
        PROVE  /\ skuRow'[s] \in Known(s) \/ (pc[c] = "update" /\ skuRow'[s] = row[c])
               /\ skuDraft'[s] \in Known(s) \/ Reserves(c, s) \/ Saves(c, s) \/ Edits(c, s)
    <2>1. CASE ReserveSKU(c) \/ SaveSKU(c) \/ UpdateSKU(c)
      BY <1>3, <1>4, <2>1
    <2>2. CASE CheckLine(c) \/ ReadSKU(c) \/ Reread(c) \/ Return(c)
      BY <1>1, <2>2 DEF CheckLine, ReadSKU, Reread, Return, store
    <2>3. CASE InsertOrder(c) \/ LockOrder(c) \/ DeadlockVictim(c)
      BY <1>1, <1>2, <2>3 DEF InsertOrder, LockOrder, DeadlockVictim
    <2>4. CASE Commit(c)
      BY <2>4, PublishRows DEF Commit
    <2>5. CASE AppendAfterCommit(c)
      BY <1>1, <2>5 DEF AppendAfterCommit
    <2> QED
      BY <1>7, <2>1, <2>2, <2>3, <2>4, <2>5 DEF Step, OrderStep
  <1> QED
    BY <1>1, <1>5, <1>6, <1>7, ActorsOfRows

LEMMA Verdicts ==
  ASSUME NEW items, NEW i
  PROVE  LineVerdict(items, i) \in {"fine", "invalid", "conflict"}
  BY DEF LineVerdict

\* The row a handler is about to change is one it found ...
LEMMA FoundRow ==
  ASSUME Consistent, [Next]_vars, NEW c \in Clients, pc'[c] = "save"
  PROVE  \/ pc[c] = "save" /\ row'[c] = row[c]
         \/ \E s \in SKUs : row'[c] \in Known(s)
  <1> USE DEF Goto
  <1>1. TypeOK /\ RightStatement(c) /\ pc \in [Clients -> Statement]
    BY DEF Consistent, Right, TypeOK, ClientTypeOK
  <1>2. ASSUME NEW where, Abort(c, where) \/ Answer(c, where)
        PROVE  pc'[c] = where
    BY <1>1, <1>2 DEF Abort, Answer
  <1>3. CASE ~(Call(c) \/ Step(c) \/ Fault(c))
    BY <1>3, Idle
  <1>4. ~Call(c)
    <2>1. ASSUME NEW u \in Users, NEW k \in Keys, NEW items \in Baskets PROVE ~CreateOrder(c, u, k, items)
      BY <1>1 DEF CreateOrder
    <2>2. ASSUME NEW op \in StatusOps, NEW actor, NEW o \in OrderIds PROVE ~ChangeStatus(op, c, actor, o)
      BY <1>1 DEF ChangeStatus
    <2>3. ASSUME NEW s \in SKUs, NEW stock \in StockInputs, NEW active \in BOOLEAN
          PROVE  ~MerchantUpdateSKU(c, s, stock, active)
      BY <1>1 DEF MerchantUpdateSKU
    <2> QED
      BY <2>1, <2>2, <2>3
         DEF Call, OrderCall, PayOrder, CancelOrder, FinishOrder, RequestRefund, MerchantShipOrder,
             MerchantApproveRefund, StatusOps
  <1>5. ~Fault(c)
    BY <1>1, <1>2 DEF Fault, StatementFails, CommitAnswerLost, Crash, AfterFailure
  <1>6. CASE Step(c)
    <2>1. CASE ReadSKU(c)
      <3>1. pc[c] = "side" /\ row \in [Clients -> Row]
        BY <2>1 DEF ReadSKU, Consistent, TypeOK, ClientTypeOK
      <3>2. PICK i \in todo[c] : row'[c] = Visible(c, locks[req[c].order][i].sku)
        BY <2>1, <3>1 DEF ReadSKU
      <3>3. locks[req[c].order][i].sku \in SKUs
        BY <3>1, NextLock DEF Lock
      <3> QED
        BY <3>2, <3>3 DEF Visible, Known
    <2>2. ~(CheckLine(c) \/ ReserveSKU(c) \/ InsertOrder(c))
      BY <1>1, <1>2, Verdicts DEF CheckLine, ReserveSKU, InsertOrder, LineDone
    <2>3. ~(LockOrder(c) \/ SaveSKU(c))
      BY <1>1, <1>2 DEF LockOrder, SaveSKU, LineDone
    <2>4. ~(Commit(c) \/ AppendAfterCommit(c) \/ Reread(c))
      BY <1>1 DEF Commit, AppendAfterCommit, Reread
    <2>5. ~(UpdateSKU(c) \/ DeadlockVictim(c) \/ Return(c))
      BY <1>1, <1>2 DEF UpdateSKU, DeadlockVictim, Return, AfterFailure
    <2> QED
      BY <1>6, <2>1, <2>2, <2>3, <2>4, <2>5 DEF Step, OrderStep
  <1> QED
    BY <1>3, <1>4, <1>5, <1>6

\* ... or what the merchant entered beside what he found.
LEMMA EditedRow ==
  ASSUME Consistent, [Next]_vars, NEW c \in Clients, pc'[c] = "update"
  PROVE  \/ pc[c] = "update" /\ row'[c] = row[c]
         \/ \E s \in SKUs, stock \in StockInputs, active \in BOOLEAN :
              row'[c] = [stock  |-> IF stock >= 0 THEN stock ELSE skuRow[s].stock,
                         locked |-> skuRow[s].locked, active |-> active]
  <1> USE DEF Goto
  <1>1. TypeOK /\ RightStatement(c) /\ pc \in [Clients -> Statement] /\ row \in [Clients -> Row]
    BY DEF Consistent, Right, TypeOK, ClientTypeOK
  <1>2. ASSUME NEW where, Abort(c, where) \/ Answer(c, where)
        PROVE  pc'[c] = where
    BY <1>1, <1>2 DEF Abort, Answer
  <1>3. CASE ~(Call(c) \/ Step(c) \/ Fault(c))
    BY <1>3, Idle
  <1>4. CASE Call(c)
    <2>1. ASSUME NEW u \in Users, NEW k \in Keys, NEW items \in Baskets PROVE ~CreateOrder(c, u, k, items)
      BY <1>1 DEF CreateOrder
    <2>2. ASSUME NEW op \in StatusOps, NEW actor, NEW o \in OrderIds PROVE ~ChangeStatus(op, c, actor, o)
      BY <1>1 DEF ChangeStatus
    <2>3. PICK s \in SKUs, stock \in StockInputs, active \in BOOLEAN : MerchantUpdateSKU(c, s, stock, active)
      BY <1>4, <2>1, <2>2
         DEF Call, OrderCall, PayOrder, CancelOrder, FinishOrder, RequestRefund, MerchantShipOrder,
             MerchantApproveRefund, StatusOps
    <2> QED
      BY <1>1, <2>3 DEF MerchantUpdateSKU
  <1>5. ~Fault(c)
    BY <1>1, <1>2 DEF Fault, StatementFails, CommitAnswerLost, Crash, AfterFailure
  <1>6. ~Step(c)
    <2>1. ~(CheckLine(c) \/ ReserveSKU(c) \/ InsertOrder(c))
      BY <1>1, <1>2, Verdicts DEF CheckLine, ReserveSKU, InsertOrder, LineDone
    <2>2. ~(LockOrder(c) \/ ReadSKU(c) \/ SaveSKU(c))
      BY <1>1, <1>2 DEF LockOrder, ReadSKU, SaveSKU, LineDone
    <2>3. ~(Commit(c) \/ AppendAfterCommit(c) \/ Reread(c))
      BY <1>1 DEF Commit, AppendAfterCommit, Reread
    <2>4. ~(UpdateSKU(c) \/ DeadlockVictim(c) \/ Return(c))
      BY <1>1, <1>2 DEF UpdateSKU, DeadlockVictim, Return, AfterFailure
    <2> QED
      BY <2>1, <2>2, <2>3, <2>4 DEF Step, OrderStep
  <1> QED
    BY <1>3, <1>4, <1>5, <1>6

-----------------------------------------------------------------------------
(* Neither column is negative, whatever the merchants enter *)

Signed(r) == r.stock >= 0 /\ r.locked >= 0

RowsSigned ==
  /\ \A s \in SKUs : Signed(skuRow[s]) /\ Signed(skuDraft[s])
  /\ \A c \in Clients : pc[c] = "update" => Signed(row[c])

LEMMA ReserveSigned ==
  ASSUME NEW v \in Row, Signed(v), NEW q \in Int, q > 0
  PROVE  Signed([v EXCEPT !.locked = @ + q])
  BY DEF Signed, Row

LEMMA SignedStep == RowsSigned /\ Quantities /\ Consistent /\ [Next]_vars => RowsSigned'
  <1> SUFFICES ASSUME RowsSigned, Quantities, Consistent, [Next]_vars PROVE RowsSigned'
    OBVIOUS
  <1>1. ASSUME NEW s \in SKUs, NEW r \in Known(s) PROVE Signed(r) /\ r \in Row
    BY DEF Known, RowsSigned, Consistent, TypeOK, StoreTypeOK
  <1>2. ASSUME NEW s \in SKUs PROVE Signed(skuRow'[s])
    BY <1>1, RowsMove DEF RowsSigned
  <1>3. ASSUME NEW s \in SKUs PROVE Signed(skuDraft'[s])
    <2>1. ASSUME NEW c \in Clients, Reserves(c, s) PROVE Signed(skuDraft'[s])
      <3>1. Visible(c, s) \in Known(s)
        BY DEF Visible, Known
      <3> QED
        BY <1>1, <2>1, <3>1, ReserveSigned DEF Reserves
    <2>2. ASSUME NEW c \in Clients, Saves(c, s) PROVE Signed(skuDraft'[s])
      <3>1. PICK lock \in Lock : skuDraft'[s] = Moved(req[c].op, row[c], lock) /\ ~Underflow(skuDraft'[s])
        BY <2>2 DEF Saves
      <3>2. row[c] \in Row
        BY DEF Consistent, TypeOK, ClientTypeOK
      <3>3. skuDraft'[s] \in Row
        BY <3>1, <3>2, MovedType
      <3> QED
        BY <3>1, <3>3 DEF Underflow, Signed, Row
    <2>3. ASSUME NEW c \in Clients, Edits(c, s) PROVE Signed(skuDraft'[s])
      BY <2>3 DEF Edits, RowsSigned
    <2> QED
      BY <1>1, <2>1, <2>2, <2>3, RowsMove
  <1>4. ASSUME NEW c \in Clients, pc'[c] = "update" PROVE Signed(row'[c])
    <2>1. CASE pc[c] = "update" /\ row'[c] = row[c]
      BY <2>1 DEF RowsSigned
    <2>2. ASSUME NEW s \in SKUs, NEW stock \in StockInputs, NEW active,
                 row'[c] = [stock  |-> IF stock >= 0 THEN stock ELSE skuRow[s].stock,
                            locked |-> skuRow[s].locked, active |-> active]
          PROVE  Signed(row'[c])
      <3>1. Signed(skuRow[s])
        BY DEF RowsSigned
      <3>2. stock \in Int
        BY ServiceAssumption
      <3> QED
        BY <2>2, <3>1, <3>2 DEF Signed
    <2> QED
      BY <1>4, <2>1, <2>2, EditedRow
  <1> QED
    BY <1>2, <1>3, <1>4 DEF RowsSigned

\* Neither stock column of a SKU is ever negative: the reservation, the payment,
\* the cancellation and the refund of service_order.go against any number of
\* other handlers, failures and the whole-row saves of MerchantUpdateSKU.
THEOREM SignTheorem == Spec => []NoNegativeStock
  <1>1. Init => RowsSigned
    BY ServiceAssumption DEF Init, RowsSigned, Signed
  <1>2. RowsSigned => NoNegativeStock
    BY DEF RowsSigned, Signed, NoNegativeStock
  <1> QED
    BY <1>1, <1>2, SignedStep, QuantitiesInvariance, Invariance, PTL DEF Spec

-----------------------------------------------------------------------------
(* No more is locked than there is, as long as nobody edits the catalog *)

Bounded(r) == 0 <= r.locked /\ r.locked <= r.stock

RowsBounded ==
  /\ \A s \in SKUs : Bounded(skuRow[s]) /\ Bounded(skuDraft[s])
  /\ \A c \in Clients : pc[c] = "save" => Bounded(row[c])

NobodyEdits == \A c \in Clients : pc[c] # "update"

LEMMA ReserveBounded ==
  ASSUME NEW v \in Row, Bounded(v), NEW q \in Int, q > 0, Available(v, q)
  PROVE  Bounded([v EXCEPT !.locked = @ + q])
  BY DEF Bounded, Row, Available

LEMMA MovedBounded ==
  ASSUME NEW op, NEW r \in Row, Bounded(r), NEW lock \in Lock, lock.qty > 0,
         ~Underflow(Moved(op, r, lock))
  PROVE  Bounded(Moved(op, r, lock))
  <1> DEFINE q == lock.qty
  <1>1. q \in Int /\ q > 0
    BY DEF Lock
  <1>2. r.stock \in Int /\ r.locked \in Int
    BY DEF Row
  <1> DEFINE moved == Moved(op, r, lock)
  <1>3. moved \in Row /\ moved.locked >= 0
    <2>1. moved \in Row
      BY MovedType
    <2> QED
      BY <2>1 DEF Underflow, Row
  <1>4. CASE op = "PayOrder"
    <2>1. moved.stock = r.stock - q /\ moved.locked = r.locked - q
      BY <1>4 DEF Moved, Row
    <2> HIDE DEF moved, q
    <2>2. moved.locked <= moved.stock
      BY <1>1, <1>2, <2>1 DEF Bounded
    <2> QED
      BY <1>3, <2>2 DEF Bounded, moved
  <1>5. CASE op = "CancelOrder" /\ lock.status = "locked"
    <2>1. moved.stock = r.stock /\ moved.locked = r.locked - q
      BY <1>5 DEF Moved, Row
    <2> HIDE DEF moved, q
    <2>2. moved.locked <= moved.stock
      BY <1>1, <1>2, <2>1 DEF Bounded
    <2> QED
      BY <1>3, <2>2 DEF Bounded, moved
  <1>6. CASE op = "MerchantApproveRefund" /\ lock.status = "confirmed"
    <2>1. moved.stock = r.stock + q /\ moved.locked = r.locked
      BY <1>6 DEF Moved, Row
    <2> HIDE DEF moved, q
    <2>2. moved.locked <= moved.stock
      BY <1>1, <1>2, <2>1 DEF Bounded
    <2> QED
      BY <1>3, <2>2 DEF Bounded, moved
  <1>7. CASE ~(\/ op = "PayOrder"
               \/ op = "CancelOrder" /\ lock.status = "locked"
               \/ op = "MerchantApproveRefund" /\ lock.status = "confirmed")
    BY <1>7 DEF Moved
  <1> QED
    BY <1>4, <1>5, <1>6, <1>7

LEMMA OrdersStepIsStep == [OrdersNext]_vars => [Next]_vars
  BY DEF OrdersNext, Next, Call, Step

LEMMA NobodyEditsStep == NobodyEdits /\ Consistent /\ [OrdersNext]_vars => NobodyEdits'
  <1> SUFFICES ASSUME NobodyEdits, Consistent, [OrdersNext]_vars, NEW c \in Clients
               PROVE  pc'[c] # "update"
    BY DEF NobodyEdits
  <1> USE DEF Goto
  <1>1. TypeOK /\ RightStatement(c) /\ pc \in [Clients -> Statement] /\ pc[c] # "update"
    BY DEF Consistent, Right, TypeOK, ClientTypeOK, NobodyEdits
  <1>2. ASSUME NEW where, Abort(c, where) \/ Answer(c, where)
        PROVE  pc'[c] = where
    BY <1>1, <1>2 DEF Abort, Answer
  <1>3. CASE OrderCall(c)
    <2>1. ASSUME NEW u \in Users, NEW k \in Keys, NEW items \in Baskets, CreateOrder(c, u, k, items)
          PROVE  pc'[c] # "update"
      BY <1>1, <2>1 DEF CreateOrder
    <2>2. ASSUME NEW op \in StatusOps, NEW actor, NEW o \in OrderIds, ChangeStatus(op, c, actor, o)
          PROVE  pc'[c] # "update"
      BY <1>1, <2>2 DEF ChangeStatus
    <2> QED
      BY <1>3, <2>1, <2>2
         DEF OrderCall, PayOrder, CancelOrder, FinishOrder, RequestRefund, MerchantShipOrder,
             MerchantApproveRefund, StatusOps
  <1>4. CASE Fault(c)
    BY <1>1, <1>2, <1>4 DEF Fault, StatementFails, CommitAnswerLost, Crash, AfterFailure
  <1>5. CASE OrderStep(c)
    <2>1. CASE CheckLine(c) \/ ReserveSKU(c) \/ InsertOrder(c)
      BY <1>1, <1>2, <2>1, Verdicts DEF CheckLine, ReserveSKU, InsertOrder, LineDone
    <2>2. CASE LockOrder(c) \/ ReadSKU(c) \/ SaveSKU(c)
      BY <1>1, <1>2, <2>2 DEF LockOrder, ReadSKU, SaveSKU, LineDone
    <2>3. CASE Commit(c) \/ AppendAfterCommit(c) \/ Reread(c)
      BY <1>1, <2>3 DEF Commit, AppendAfterCommit, Reread
    <2>4. CASE DeadlockVictim(c) \/ Return(c)
      BY <1>1, <1>2, <2>4 DEF DeadlockVictim, Return, AfterFailure
    <2> QED
      BY <1>5, <2>1, <2>2, <2>3, <2>4 DEF OrderStep
  <1>6. CASE ~(OrderCall(c) \/ OrderStep(c) \/ Fault(c))
    <2>1. CASE UNCHANGED vars
      BY <1>1, <2>1 DEF vars, client
    <2>2. ASSUME NEW d \in Clients, OrderCall(d) \/ OrderStep(d) \/ Fault(d)
          PROVE  pc'[c] # "update"
      BY <1>1, <1>6, <2>2, OthersKeep DEF Call, Step
    <2> QED
      BY <2>1, <2>2 DEF OrdersNext
  <1> QED
    BY <1>3, <1>4, <1>5, <1>6

LEMMA BoundedStep ==
  RowsBounded /\ NobodyEdits /\ Quantities /\ Consistent /\ [Next]_vars => RowsBounded'
  <1> SUFFICES ASSUME RowsBounded, NobodyEdits, Quantities, Consistent, [Next]_vars PROVE RowsBounded'
    OBVIOUS
  <1>1. ASSUME NEW s \in SKUs, NEW r \in Known(s) PROVE Bounded(r) /\ r \in Row
    BY DEF Known, RowsBounded, Consistent, TypeOK, StoreTypeOK
  <1>2. ASSUME NEW s \in SKUs PROVE Bounded(skuRow'[s])
    BY <1>1, RowsMove DEF NobodyEdits
  <1>3. ASSUME NEW s \in SKUs PROVE Bounded(skuDraft'[s])
    <2>1. ASSUME NEW c \in Clients, Reserves(c, s) PROVE Bounded(skuDraft'[s])
      <3>1. Visible(c, s) \in Known(s)
        BY DEF Visible, Known
      <3> QED
        BY <1>1, <2>1, <3>1, ReserveBounded DEF Reserves
    <2>2. ASSUME NEW c \in Clients, Saves(c, s) PROVE Bounded(skuDraft'[s])
      <3>1. PICK lock \in Lock : /\ pc[c] = "save" /\ lock.qty > 0
                                /\ skuDraft'[s] = Moved(req[c].op, row[c], lock)
                                /\ ~Underflow(skuDraft'[s])
        BY <2>2 DEF Saves
      <3>2. row[c] \in Row /\ Bounded(row[c])
        BY <3>1 DEF Consistent, TypeOK, ClientTypeOK, RowsBounded
      <3> QED
        BY <3>1, <3>2, MovedBounded
    <2> QED
      BY <1>1, <2>1, <2>2, RowsMove DEF Edits, NobodyEdits
  <1>4. ASSUME NEW c \in Clients, pc'[c] = "save" PROVE Bounded(row'[c])
    BY <1>1, <1>4, FoundRow DEF RowsBounded
  <1> QED
    BY <1>2, <1>3, <1>4 DEF RowsBounded

\* Beside handlers of orders alone, what is locked of a SKU never exceeds its
\* stock: no interleaving of checkouts, payments, cancellations and refunds, no
\* failure and no lost answer of a COMMIT promises a unit twice.
THEOREM StockTheorem == OrdersSpec => []StockBounds
  <1>1. Init => RowsBounded /\ NobodyEdits
    BY ServiceAssumption DEF Init, RowsBounded, Bounded, NobodyEdits
  <1>2. RowsBounded => StockBounds
    BY DEF RowsBounded, Bounded, StockBounds
  <1>3. OrdersSpec => Spec
    BY OrdersStepIsStep, PTL DEF OrdersSpec, Spec
  <1> QED
    BY <1>1, <1>2, <1>3, OrdersStepIsStep, NobodyEditsStep, BoundedStep, QuantitiesInvariance,
       Invariance, PTL DEF OrdersSpec

-----------------------------------------------------------------------------
(***************************************************************************)
(* With one order in the system the columns of a SKU are what its locks    *)
(* say, to the unit.  A handler writes back whole rows it computed from    *)
(* rows it read, so this rests on knowing, at each statement of its        *)
(* transaction, which lines it has written, and that nobody else writes:   *)
(* the row lock of the order, or its id as long as there is no order,      *)
(* keeps every other handler out.                                          *)
(***************************************************************************)

OneOrderId == \A o, p \in OrderIds : o = p

\* The lines whose SKUs the transaction of handler c writes ...
LinesOf(c) ==
  CASE req[c].op = "CreateOrder" -> req[c].items
    [] req[c].op \in InventoryOps -> locks[req[c].order]
    [] OTHER -> <<>>

\* ... those of them it has written ...
Written(c) ==
  CASE pc[c] \in {"reserve", "side", "save"} -> DOMAIN LinesOf(c) \ todo[c]
    [] pc[c] \in {"insert", "commit"} -> DOMAIN LinesOf(c)
    [] OTHER -> {}

\* ... and what a line makes of a row.
RowAfter(op, r, line) ==
  IF op = "CreateOrder" THEN [r EXCEPT !.locked = @ + line.qty] ELSE Moved(op, r, line)

\* Each row written is the committed one with its line accounted for.
RowsTellLines(c) ==
  Distinct(LinesOf(c)) =>
    \A i \in Written(c) :
      LET s == LinesOf(c)[i].sku
      IN  Visible(c, s) = RowAfter(req[c].op, skuRow[s], LinesOf(c)[i])

\* Handler c holds no row but for a line it has written.
HoldsForLines(c) ==
  \A s \in SKUs : skuHolder[s] = c => \E i \in Written(c) : LinesOf(c)[i].sku = s

\* The row it is about to change and write back is still the committed one.
ReadIsCommitted(c) ==
  pc[c] = "save" => \A i \in todo[c] : IsFirst(i, todo[c]) => row[c] = skuRow[LinesOf(c)[i].sku]

Rewrites(c) == RowsTellLines(c) /\ HoldsForLines(c) /\ ReadIsCommitted(c)

\* An order locks a SKU once, and an id without an order locks none.
LocksApart ==
  /\ \A o \in OrderIds : Distinct(locks[o]) /\ (orders[o].status = "NONE" => locks[o] = <<>>)
  /\ \A c \in Clients : Inserting(c) => Distinct(req[c].items)

-----------------------------------------------------------------------------
(* What the locks of one order add up to *)

UnitsAreLocks ==
  OneOrderId =>
    \A o \in OrderIds, s \in SKUs : \A status :
      /\ (\A i \in DOMAIN locks[o] : locks[o][i].sku # s) => Units(s, status) = 0
      /\ \A i \in DOMAIN locks[o] :
           Distinct(locks[o]) /\ locks[o][i].sku = s /\ locks[o][i].qty \in Int
             => Units(s, status) = IF locks[o][i].status = status THEN locks[o][i].qty ELSE 0

LEMMA UnitsOfOneOrder == UnitsAreLocks
  <1> SUFFICES ASSUME OneOrderId, NEW o \in OrderIds, NEW s \in SKUs, NEW status
               PROVE  /\ (\A i \in DOMAIN locks[o] : locks[o][i].sku # s) => Units(s, status) = 0
                      /\ \A i \in DOMAIN locks[o] :
                           Distinct(locks[o]) /\ locks[o][i].sku = s /\ locks[o][i].qty \in Int
                             => Units(s, status) = IF locks[o][i].status = status THEN locks[o][i].qty ELSE 0
    BY DEF UnitsAreLocks
  <1> DEFINE lines == UNION {{p} \X DOMAIN locks[p] : p \in OrderIds}
             counted == {l \in lines : locks[l[1]][l[2]].sku = s /\ locks[l[1]][l[2]].status = status}
             some(S) == CHOOSE l \in S : TRUE
             qty(l) == locks[l[1]][l[2]].qty
             sum == CHOOSE f : f = [S \in SUBSET counted |->
                                      IF S = {} THEN 0 ELSE qty(some(S)) + f[S \ {some(S)}]]
  <1>1. Units(s, status) = sum[counted]
    BY DEF Units, MapThenSumSet, MapThenFoldSet
  <1>2. lines = {o} \X DOMAIN locks[o]
    BY DEF OneOrderId
  <1>3. ASSUME \A i \in DOMAIN locks[o] : ~(locks[o][i].sku = s /\ locks[o][i].status = status)
        PROVE  Units(s, status) = 0
    <2>1. counted = {}
      BY <1>2, <1>3
    <2> QED
      BY <1>1, <2>1
  <1>4. ASSUME NEW i \in DOMAIN locks[o], Distinct(locks[o]), locks[o][i].sku = s,
               locks[o][i].status = status, locks[o][i].qty \in Int
        PROVE  Units(s, status) = locks[o][i].qty
    <2> DEFINE l == <<o, i>>
    <2>1. counted = {l}
      BY <1>2, <1>4 DEF Distinct
    <2>2. SUBSET counted = {{}, {l}} /\ some({l}) = l
      BY <2>1
    <2>3. qty(l) = locks[o][i].qty
      OBVIOUS
    <2> HIDE DEF counted, qty, l
    <2> DEFINE f == [S \in SUBSET counted |-> IF S = {} THEN 0 ELSE qty(l)]
    <2>4. f = [S \in SUBSET counted |-> IF S = {} THEN 0 ELSE qty(some(S)) + f[S \ {some(S)}]]
      BY <1>4, <2>2, <2>3
    <2>5. sum = [S \in SUBSET counted |-> IF S = {} THEN 0 ELSE qty(some(S)) + sum[S \ {some(S)}]]
      BY <2>4
    <2> HIDE DEF sum, f
    <2>6. sum[{}] = 0
      BY <2>2, <2>5
    <2>7. sum[{l}] = qty(some({l})) + sum[{l} \ {some({l})}]
      <3> HIDE DEF some
      <3> QED
        BY <2>2, <2>5
    <2> QED
      BY <1>1, <1>4, <2>1, <2>2, <2>3, <2>6, <2>7
  <1>5. ASSUME NEW i \in DOMAIN locks[o], Distinct(locks[o]), locks[o][i].sku = s, locks[o][i].qty \in Int
        PROVE  Units(s, status) = IF locks[o][i].status = status THEN locks[o][i].qty ELSE 0
    <2>1. CASE locks[o][i].status = status
      BY <1>4, <1>5, <2>1
    <2>2. CASE locks[o][i].status # status
      BY <1>3, <1>5, <2>2 DEF Distinct
    <2> QED
      BY <2>1, <2>2
  <1> HIDE DEF lines, counted, some, qty, sum
  <1> QED
    BY <1>3, <1>5

LEMMA UnitsOfOneOrderNext == UnitsAreLocks'
  BY UnitsOfOneOrder, PTL

LEMMA NoUnits ==
  ASSUME \A o \in OrderIds : locks[o] = <<>>, NEW s \in SKUs, NEW status
  PROVE  Units(s, status) = 0
  <1> DEFINE lines == UNION {{p} \X DOMAIN locks[p] : p \in OrderIds}
             counted == {l \in lines : locks[l[1]][l[2]].sku = s /\ locks[l[1]][l[2]].status = status}
             some(S) == CHOOSE l \in S : TRUE
             qty(l) == locks[l[1]][l[2]].qty
             sum == CHOOSE f : f = [S \in SUBSET counted |->
                                      IF S = {} THEN 0 ELSE qty(some(S)) + f[S \ {some(S)}]]
  <1>1. Units(s, status) = sum[counted]
    BY DEF Units, MapThenSumSet, MapThenFoldSet
  <1>2. counted = {}
    <2>1. \A p \in OrderIds : DOMAIN locks[p] = {}
      OBVIOUS
    <2>2. lines = {}
      BY <2>1
    <2> QED
      BY <2>2
  <1> QED
    BY <1>1, <1>2

-----------------------------------------------------------------------------
(* Locks *)

LEMMA LocksApartStep == LocksApart /\ Consistent /\ [Next]_vars => LocksApart'
  <1> SUFFICES ASSUME LocksApart, Consistent, [Next]_vars PROVE LocksApart'
    OBVIOUS
  <1>1. ASSUME NEW o \in OrderIds
        PROVE  Distinct(locks'[o]) /\ (orders'[o].status = "NONE" => locks'[o] = <<>>)
    <2>1. CASE orders'[o] = orders[o] /\ locks'[o] = locks[o]
      BY <2>1 DEF LocksApart
    <2>2. CASE ~(orders'[o] = orders[o] /\ locks'[o] = locks[o])
      <3>1. PICK c \in Clients : pc[c] = "commit" /\ Publish(c)
        BY <2>2, OnlyCommitMoves
      <3>2. o = req[c].order /\ (req[c].op = "CreateOrder" \/ req[c].op \in StatusOps)
            /\ orders'[o].status # "NONE"
        BY <2>2, <3>1, PublishEffect DEF Consistent, Right, RightStatement
      <3>3. CASE req[c].op = "CreateOrder"
        <4>1. req[c].items \in Baskets /\ locks'[o] = PlacedLocks(req[c].items)
          BY <3>1, <3>2, <3>3, PublishOrderEffect DEF Publish
        <4>2. Distinct(req[c].items) /\ req[c].items \in Seq(Item)
          BY <3>1, <3>3, <4>1, ServiceAssumption DEF LocksApart, Inserting
        <4> QED
          BY <3>2, <4>1, <4>2, PlacedLocksType DEF Distinct
      <3>4. CASE req[c].op \in StatusOps
        <4>1. locks'[o] = Relock(locks[o], req[c].op)
          BY <3>1, <3>2, <3>4, PublishStatusEffect DEF Publish, StatusOps
        <4>2. locks[o] \in Seq(Lock) /\ Distinct(locks[o])
          BY DEF LocksApart, Consistent, TypeOK, StoreTypeOK
        <4> QED
          BY <3>2, <4>1, <4>2, RelockType DEF Distinct
      <3> QED
        BY <3>2, <3>3, <3>4
    <2> QED
      BY <2>1, <2>2
  <1>2. ASSUME NEW c \in Clients, Inserting(c)' PROVE Distinct(req'[c].items)
    <2>1. CASE Call(c) \/ Step(c) \/ Fault(c)
      <3>1. InsertOrder(c) /\ ~KeyTaken(c) /\ UNCHANGED req /\ pc'[c] = "commit"
        BY <1>2, <2>1, ArrivesAtCommit DEF Inserting
      <3>2. ~Abort(c, "error")
        BY <3>1 DEF Abort, Goto, Consistent, TypeOK, ClientTypeOK
      <3> QED
        BY <3>1, <3>2 DEF InsertOrder
    <2>2. CASE ~(Call(c) \/ Step(c) \/ Fault(c))
      BY <1>2, <2>2, Idle DEF LocksApart, Inserting
    <2> QED
      BY <2>1, <2>2
  <1> QED
    BY <1>1, <1>2 DEF LocksApart

-----------------------------------------------------------------------------
(* One transaction at a time *)

\* Handler c is on its way to insert the order, or holds its row.
HasOrder(c) == Placing(c) \/ Moving(c)

LEMMA OneHasOrder ==
  ASSUME OneOrderId, Consistent, NEW c \in Clients, NEW d \in Clients, HasOrder(c), HasOrder(d)
  PROVE  c = d
  <1>1. ASSUME NEW e \in Clients, HasOrder(e) PROVE req[e].order \in OrderIds
    BY <1>1, HeldOrder DEF HasOrder, Placing, Moving, Consistent, Right, RightStatement, RightRequest
  <1>2. req[c].order = req[d].order
    BY <1>1 DEF OneOrderId
  <1>3. CASE Placing(c) /\ Placing(d)
    BY <1>2, <1>3 DEF Consistent, DistinctIds
  <1>4. CASE Moving(c) /\ Moving(d)
    BY <1>2, <1>4, HeldOrder DEF Moving
  <1>5. ASSUME NEW e \in Clients PROVE Moving(e) => orders[req[e].order].status # "NONE"
    BY DEF Consistent, Right, RightOrder, CanTransition, legalTransitions
  <1>6. ASSUME NEW e \in Clients PROVE Placing(e) => orders[req[e].order].status = "NONE"
    BY DEF Consistent, Right, RightOrder
  <1> QED
    BY <1>2, <1>3, <1>4, <1>5, <1>6 DEF HasOrder

LEMMA WritesWithOrder ==
  ASSUME Consistent, NEW c \in Clients, ~HasOrder(c)
  PROVE  Written(c) = {} /\ pc[c] \notin {"reserve", "insert", "side", "save", "commit"}
  BY DEF Consistent, Right, RightStatement, HasOrder, Placing, Moving, Written

LEMMA LinesType ==
  ASSUME Consistent, NEW c \in Clients
  PROVE  /\ LinesOf(c) \in Seq(Item) \cup Seq(Lock)
         /\ \A i \in DOMAIN LinesOf(c) : LinesOf(c)[i].sku \in SKUs /\ LinesOf(c)[i].qty \in Int
         /\ Written(c) \subseteq DOMAIN LinesOf(c)
  <1>1. Written(c) \subseteq DOMAIN LinesOf(c)
    BY DEF Written
  <1>2. ASSUME NEW line \in Item \cup Lock PROVE line.sku \in SKUs /\ line.qty \in Int
    BY DEF Item, Lock
  <1>3. CASE req[c].op = "CreateOrder"
    <2>1. LinesOf(c) \in Seq(Item)
      <3>1. req[c] \in Request
        BY DEF Consistent, TypeOK, ClientTypeOK
      <3>2. req[c].items \in Seq(Item)
        BY <3>1 DEF Request
      <3> QED
        BY <1>3, <3>2 DEF LinesOf, InventoryOps
    <2> QED
      BY <1>1, <1>2, <2>1, Elements
  <1>4. CASE req[c].op \in InventoryOps
    <2>1. LinesOf(c) = locks[req[c].order] /\ req[c].order \in OrderIds
      BY <1>4 DEF LinesOf, InventoryOps, StatusOps, Consistent, Right, RightRequest
    <2>2. LinesOf(c) \in Seq(Lock)
      BY <2>1 DEF Consistent, TypeOK, StoreTypeOK
    <2> QED
      BY <1>1, <1>2, <2>2, Elements
  <1>5. CASE req[c].op # "CreateOrder" /\ req[c].op \notin InventoryOps
    <2>1. LinesOf(c) = <<>>
      BY <1>5 DEF LinesOf
    <2> QED
      BY <1>1, <2>1
  <1> QED
    BY <1>3, <1>4, <1>5

\* A step of another handler that takes none of c's rows, and publishes none.
LEMMA HandStays ==
  ASSUME Consistent, NEW c \in Clients, Rewrites(c), UNCHANGED <<skuRow, locks>>,
         pc'[c] = pc[c], req'[c] = req[c], todo'[c] = todo[c], row'[c] = row[c],
         \A s \in SKUs : /\ skuHolder'[s] = c <=> skuHolder[s] = c
                         /\ skuHolder[s] = c => skuDraft'[s] = skuDraft[s]
  PROVE  Rewrites(c)'
  <1>1. LinesOf(c)' = LinesOf(c) /\ Written(c)' = Written(c)
    BY DEF LinesOf, Written
  <1>2. \A s \in SKUs : Visible(c, s)' = Visible(c, s)
    BY DEF Visible
  <1>3. RowsTellLines(c)'
    BY <1>1, <1>2, LinesType DEF Rewrites, RowsTellLines
  <1>4. HoldsForLines(c)'
    BY <1>1 DEF Rewrites, HoldsForLines
  <1>5. ReadIsCommitted(c)'
    BY <1>1 DEF Rewrites, ReadIsCommitted
  <1> QED
    BY <1>3, <1>4, <1>5 DEF Rewrites

\* A handler that has written nothing and holds nothing.
LEMMA HandsOff ==
  ASSUME NEW c \in Clients, Written(c)' = {}, pc'[c] # "save", \A s \in SKUs : skuHolder'[s] # c
  PROVE  Rewrites(c)'
  BY DEF Rewrites, RowsTellLines, HoldsForLines, ReadIsCommitted

LEMMA HoldsNothing ==
  ASSUME NEW c \in Clients, Rewrites(c), Written(c) = {}
  PROVE  \A s \in SKUs : skuHolder[s] # c
  BY DEF Rewrites, HoldsForLines

-----------------------------------------------------------------------------
(* What a step of handler d leaves of the hands of all *)

OthersRest(d) ==
  \A c \in Clients \ {d} :
    pc'[c] = pc[c] /\ req'[c] = req[c] /\ todo'[c] = todo[c] /\ row'[c] = row[c]

Hands == \A c \in Clients : Rewrites(c)

LEMMA QuietHands ==
  ASSUME Consistent, Hands, NEW d \in Clients, OthersRest(d),
         UNCHANGED <<skuRow, skuDraft, skuHolder, locks>>,
         Written(d) = {}, Written(d)' = {}, pc'[d] # "save"
  PROVE  Hands'
  <1>1. ASSUME NEW c \in Clients \ {d} PROVE Rewrites(c)'
    BY HandStays DEF Hands, OthersRest
  <1>2. Rewrites(d)'
    BY HoldsNothing, HandsOff DEF Hands
  <1> QED
    BY <1>1, <1>2 DEF Hands

LEMMA RollbackHands ==
  ASSUME Consistent, Hands, NEW d \in Clients, OthersRest(d), Rollback(d),
         pc'[d] \in Resting \cup {"reread"}
  PROVE  Hands'
  <1>1. /\ UNCHANGED <<skuRow, locks>>
        /\ \A s \in SKUs : /\ skuHolder'[s] = IF skuHolder[s] = d THEN None ELSE skuHolder[s]
                           /\ skuHolder[s] # d => skuDraft'[s] = skuDraft[s]
    BY DEF Rollback, ReleaseRows
  <1>2. ASSUME NEW c \in Clients \ {d} PROVE Rewrites(c)'
    <2>1. \A s \in SKUs : /\ skuHolder'[s] = c <=> skuHolder[s] = c
                          /\ skuHolder[s] = c => skuDraft'[s] = skuDraft[s]
      BY <1>1, StoreAssumption
    <2> QED
      BY <1>1, <2>1, HandStays DEF Hands, OthersRest
  <1>3. Rewrites(d)'
    <2>1. Written(d)' = {} /\ pc'[d] # "save"
      BY DEF Written, Resting, Answers
    <2>2. \A s \in SKUs : skuHolder'[s] # d
      BY <1>1, StoreAssumption
    <2> QED
      BY <2>1, <2>2, HandsOff
  <1> QED
    BY <1>2, <1>3 DEF Hands

LEMMA AbortHands ==
  ASSUME Consistent, Hands, NEW d \in Clients, OthersRest(d), NEW where, Abort(d, where),
         where \in Resting \cup {"reread"}
  PROVE  Hands'
  <1>1. pc'[d] = where /\ Rollback(d)
    BY DEF Abort, Goto, Consistent, TypeOK, ClientTypeOK
  <1> QED
    BY <1>1, RollbackHands

\* While the order is d's nobody else holds a row, and COMMIT frees d's.
LEMMA PublishHands ==
  ASSUME OneOrderId, Consistent, Hands, NEW d \in Clients, OthersRest(d), pc[d] = "commit", Publish(d),
         pc'[d] \in Resting \cup {"after", "reread"}
  PROVE  Hands'
  <1>1. HasOrder(d)
    BY DEF HasOrder, Placing, Moving, Consistent, Right, RightStatement
  <1>2. PublishSKUs(d)
    BY DEF Publish, PublishOrder, PublishStatus
  <1>3. \A s \in SKUs : skuHolder'[s] = IF skuHolder[s] = d THEN None ELSE skuHolder[s]
    BY <1>2 DEF PublishSKUs, ReleaseRows
  <1>4. ASSUME NEW c \in Clients PROVE Written(c)' = {} /\ pc'[c] # "save"
    <2>1. CASE c = d
      BY <2>1 DEF Written, Resting, Answers
    <2>2. CASE c # d
      <3>1. pc[c] \notin {"reserve", "insert", "side", "save", "commit"} /\ pc'[c] = pc[c]
        BY <1>1, <2>2, OneHasOrder, WritesWithOrder DEF OthersRest
      <3> QED
        BY <3>1 DEF Written
    <2> QED
      BY <2>1, <2>2
  <1>5. ASSUME NEW c \in Clients, NEW s \in SKUs PROVE skuHolder'[s] # c
    <2>1. skuHolder[s] = c => c = d
      BY <1>1, OneHasOrder, WritesWithOrder, HoldsNothing DEF Hands
    <2> QED
      BY <1>3, <2>1, StoreAssumption
  <1> QED
    BY <1>4, <1>5, HandsOff DEF Hands

\* An UPDATE of one row takes none of another handler's.
LEMMA WriteHands ==
  ASSUME Consistent, Hands, NEW d \in Clients, OthersRest(d), UNCHANGED <<skuRow, locks>>,
         NEW w \in SKUs, NEW new, WriteSKU(d, w, new), Rewrites(d)'
  PROVE  Hands'
  <1>1. /\ skuHolder[w] \in {d, None}
        /\ \A s \in SKUs : skuHolder'[s] = IF s = w THEN d ELSE skuHolder[s]
        /\ \A s \in SKUs : skuDraft'[s] = IF s = w THEN new ELSE skuDraft[s]
    BY DEF WriteSKU, Free, Consistent, TypeOK, StoreTypeOK
  <1>2. ASSUME NEW c \in Clients \ {d} PROVE Rewrites(c)'
    <2>1. \A s \in SKUs : /\ skuHolder'[s] = c <=> skuHolder[s] = c
                          /\ skuHolder[s] = c => skuDraft'[s] = skuDraft[s]
      BY <1>1, StoreAssumption
    <2> QED
      BY <2>1, HandStays DEF Hands, OthersRest
  <1> QED
    BY <1>2 DEF Hands

-----------------------------------------------------------------------------
(* The statements that write *)

\* Handler d has not written the row of a line that is still to be written.
LEMMA UnwrittenRow ==
  ASSUME Consistent, NEW d \in Clients, Rewrites(d), Distinct(LinesOf(d)),
         NEW i \in DOMAIN LinesOf(d) \ Written(d)
  PROVE  Visible(d, LinesOf(d)[i].sku) = skuRow[LinesOf(d)[i].sku]
  <1>1. LinesOf(d)[i].sku \in SKUs /\ Written(d) \subseteq DOMAIN LinesOf(d)
    BY LinesType
  <1>2. skuHolder[LinesOf(d)[i].sku] # d
    BY <1>1 DEF Rewrites, HoldsForLines, Distinct
  <1> QED
    BY <1>2 DEF Visible

LEMMA WritesLine ==
  ASSUME Consistent, NEW d \in Clients, Rewrites(d), NEW i \in DOMAIN LinesOf(d) \ Written(d),
         NEW new, WriteSKU(d, LinesOf(d)[i].sku, new), UNCHANGED <<skuRow, locks>>,
         req'[d] = req[d], Written(d)' = Written(d) \cup {i}, pc'[d] # "save",
         Distinct(LinesOf(d)) => new = RowAfter(req[d].op, skuRow[LinesOf(d)[i].sku], LinesOf(d)[i])
  PROVE  Rewrites(d)'
  <1> DEFINE w == LinesOf(d)[i].sku
  <1>1. /\ w \in SKUs /\ Written(d) \subseteq DOMAIN LinesOf(d)
        /\ \A j \in Written(d) : LinesOf(d)[j].sku \in SKUs
    BY LinesType
  <1>2. /\ \A s \in SKUs : skuHolder'[s] = IF s = w THEN d ELSE skuHolder[s]
        /\ \A s \in SKUs : skuDraft'[s] = IF s = w THEN new ELSE skuDraft[s]
    BY <1>1 DEF WriteSKU, Consistent, TypeOK, StoreTypeOK
  <1>3. LinesOf(d)' = LinesOf(d)
    BY DEF LinesOf
  <1>4. RowsTellLines(d)'
    <2> SUFFICES ASSUME Distinct(LinesOf(d)), NEW j \in Written(d) \cup {i}
                 PROVE  Visible(d, LinesOf(d)[j].sku)'
                          = RowAfter(req[d].op, skuRow[LinesOf(d)[j].sku], LinesOf(d)[j])
      BY <1>3 DEF RowsTellLines
    <2>1. CASE j = i
      <3>1. Visible(d, LinesOf(d)[j].sku)' = new
        BY <1>1, <1>2, <1>3, <2>1 DEF Visible
      <3> QED
        BY <2>1, <3>1
    <2>2. CASE j # i
      <3>1. LinesOf(d)[j].sku # w /\ LinesOf(d)[j].sku \in SKUs /\ j \in Written(d)
        BY <1>1, <2>2 DEF Distinct
      <3>2. Visible(d, LinesOf(d)[j].sku)' = Visible(d, LinesOf(d)[j].sku)
        BY <1>2, <1>3, <3>1 DEF Visible
      <3> QED
        BY <3>1, <3>2 DEF Rewrites, RowsTellLines
    <2> QED
      BY <2>1, <2>2
  <1>5. HoldsForLines(d)'
    <2> SUFFICES ASSUME NEW s \in SKUs, skuHolder'[s] = d
                 PROVE  \E j \in Written(d) \cup {i} : LinesOf(d)[j].sku = s
      BY <1>3 DEF HoldsForLines
    <2>1. CASE s = w
      BY <2>1
    <2>2. CASE s # w
      BY <1>2, <2>2 DEF Rewrites, HoldsForLines
    <2> QED
      BY <2>1, <2>2
  <1> QED
    BY <1>4, <1>5 DEF Rewrites, ReadIsCommitted

LEMMA ReserveHands ==
  ASSUME Consistent, Hands, NEW d \in Clients, OthersRest(d), ReserveSKU(d)
  PROVE  Hands'
  <1>1. CASE Abort(d, "conflict")
    BY <1>1, AbortHands DEF Resting, Answers
  <1>2. CASE ~Abort(d, "conflict")
    <2>1. PICK i \in todo[d] :
            /\ WriteSKU(d, req[d].items[i].sku,
                        [Visible(d, req[d].items[i].sku) EXCEPT !.locked = @ + req[d].items[i].qty])
            /\ LineDone(d, i, "reserve", "insert")
            /\ UNCHANGED <<skuRow, locks, req>>
      BY <1>2 DEF ReserveSKU
    <2>2. pc[d] = "reserve"
      BY DEF ReserveSKU
    <2>3. req[d].op = "CreateOrder" /\ LinesOf(d) = req[d].items /\ i \in DOMAIN LinesOf(d)
      BY <2>2 DEF LinesOf, InventoryOps, Consistent, Right, RightStatement, RightLines
    <2>4. /\ todo'[d] = todo[d] \ {i}
          /\ pc'[d] = IF todo[d] = {i} THEN "insert" ELSE "reserve"
      BY <2>1 DEF LineDone, Goto, Consistent, TypeOK, ClientTypeOK
    <2>5. LinesOf(d)' = LinesOf(d)
      BY <2>1 DEF LinesOf
    <2>6. Written(d) = DOMAIN LinesOf(d) \ todo[d] /\ Written(d)' = Written(d) \cup {i}
      BY <2>2, <2>3, <2>4, <2>5 DEF Written
    <2>7. Distinct(LinesOf(d)) =>
            Visible(d, LinesOf(d)[i].sku) = skuRow[LinesOf(d)[i].sku]
      BY <2>3, <2>6, UnwrittenRow DEF Hands
    <2> DEFINE new == [Visible(d, LinesOf(d)[i].sku) EXCEPT !.locked = @ + LinesOf(d)[i].qty]
    <2>8. WriteSKU(d, LinesOf(d)[i].sku, new) /\ LinesOf(d)[i].sku \in SKUs
      BY <2>1, <2>3, LinesType
    <2>9. Distinct(LinesOf(d)) => new = RowAfter(req[d].op, skuRow[LinesOf(d)[i].sku], LinesOf(d)[i])
      BY <2>3, <2>7 DEF RowAfter
    <2> HIDE DEF new
    <2>10. Rewrites(d)'
      BY <2>1, <2>3, <2>4, <2>6, <2>8, <2>9, WritesLine DEF Hands
    <2> QED
      BY <2>1, <2>8, <2>10, WriteHands
  <1> QED
    BY <1>1, <1>2

LEMMA InsertHands ==
  ASSUME Consistent, Hands, NEW d \in Clients, OthersRest(d), InsertOrder(d)
  PROVE  Hands'
  <1>1. CASE Abort(d, "error")
    BY <1>1, AbortHands DEF Resting, Answers
  <1>2. CASE ~Abort(d, "error")
    <2>1. /\ pc[d] = "insert" /\ Goto(d, "commit")
          /\ UNCHANGED <<skuRow, skuDraft, skuHolder, locks, req>>
      BY <1>2 DEF InsertOrder
    <2>2. pc'[d] = "commit"
      BY <2>1 DEF Goto, Consistent, TypeOK, ClientTypeOK
    <2>3. LinesOf(d)' = LinesOf(d) /\ Written(d)' = Written(d) /\ req'[d] = req[d]
      BY <2>1, <2>2 DEF LinesOf, Written
    <2>4. \A s : Visible(d, s)' = Visible(d, s)
      BY <2>1 DEF Visible
    <2>5. Rewrites(d)'
      BY <2>1, <2>2, <2>3, <2>4 DEF Hands, Rewrites, RowsTellLines, HoldsForLines, ReadIsCommitted
    <2>6. ASSUME NEW c \in Clients \ {d} PROVE Rewrites(c)'
      BY <2>1, HandStays DEF Hands, OthersRest
    <2> QED
      BY <2>5, <2>6 DEF Hands
  <1> QED
    BY <1>1, <1>2

LEMMA ReadHands ==
  ASSUME Consistent, LocksApart, Hands, NEW d \in Clients, OthersRest(d), ReadSKU(d)
  PROVE  Hands'
  <1>1. PICK i \in todo[d] : /\ IsFirst(i, todo[d])
                            /\ row' = [row EXCEPT ![d] = Visible(d, locks[req[d].order][i].sku)]
    BY DEF ReadSKU
  <1>2. pc[d] = "side" /\ Goto(d, "save") /\ UNCHANGED <<skuRow, skuDraft, skuHolder, locks, req, todo>>
    BY DEF ReadSKU, store
  <1>3. pc'[d] = "save"
    BY <1>2 DEF Goto, Consistent, TypeOK, ClientTypeOK
  <1>4. /\ req[d].op \in InventoryOps /\ req[d].order \in OrderIds
        /\ LinesOf(d) = locks[req[d].order] /\ todo[d] \subseteq DOMAIN LinesOf(d)
    <2>1. req[d].op \in InventoryOps /\ req[d].order \in OrderIds
      BY <1>1, <1>2, NextLock
    <2>2. LinesOf(d) = locks[req[d].order]
      BY <2>1 DEF LinesOf, InventoryOps
    <2> QED
      BY <1>2, <2>1, <2>2 DEF Consistent, Right, RightLines
  <1>5. LinesOf(d)' = LinesOf(d) /\ Written(d)' = Written(d) /\ req'[d] = req[d]
    BY <1>2, <1>3 DEF LinesOf, Written
  <1>6. \A s : Visible(d, s)' = Visible(d, s)
    BY <1>2 DEF Visible
  <1>7. row'[d] = skuRow[LinesOf(d)[i].sku]
    <2>1. Distinct(LinesOf(d)) /\ i \in DOMAIN LinesOf(d) \ Written(d)
      BY <1>2, <1>4 DEF LocksApart, Written
    <2>2. Visible(d, LinesOf(d)[i].sku) = skuRow[LinesOf(d)[i].sku]
      BY <2>1, UnwrittenRow DEF Hands
    <2> QED
      BY <1>1, <1>4, <2>2 DEF Consistent, TypeOK, ClientTypeOK
  <1>8. \A j \in todo[d] : IsFirst(j, todo[d]) => j = i
    BY <1>1 DEF IsFirst, Consistent, TypeOK, ClientTypeOK
  <1>9. Rewrites(d)'
    <2>1. ReadIsCommitted(d)'
      BY <1>2, <1>5, <1>7, <1>8 DEF ReadIsCommitted
    <2> QED
      BY <1>2, <1>5, <1>6, <2>1 DEF Hands, Rewrites, RowsTellLines, HoldsForLines
  <1>10. ASSUME NEW c \in Clients \ {d} PROVE Rewrites(c)'
    BY <1>2, HandStays DEF Hands, OthersRest
  <1> QED
    BY <1>9, <1>10 DEF Hands

LEMMA SaveHands ==
  ASSUME Consistent, Hands, NEW d \in Clients, OthersRest(d), SaveSKU(d)
  PROVE  Hands'
  <1>1. CASE Abort(d, "reread")
    BY <1>1, AbortHands
  <1>2. CASE ~Abort(d, "reread")
    <2>1. PICK i \in todo[d] :
            LET lock == locks[req[d].order][i]
            IN  /\ IsFirst(i, todo[d])
                /\ WriteSKU(d, lock.sku, Moved(req[d].op, row[d], lock))
                /\ LineDone(d, i, "side", "commit")
                /\ UNCHANGED <<skuRow, locks, req>>
      BY <1>2 DEF SaveSKU
    <2>2. pc[d] = "save"
      BY DEF SaveSKU
    <2>3. req[d].op \in InventoryOps /\ LinesOf(d) = locks[req[d].order] /\ i \in DOMAIN LinesOf(d)
      BY <2>2 DEF LinesOf, InventoryOps, Consistent, Right, RightStatement, RightLines
    <2>4. /\ todo'[d] = todo[d] \ {i}
          /\ pc'[d] = IF todo[d] = {i} THEN "commit" ELSE "side"
      BY <2>1 DEF LineDone, Goto, Consistent, TypeOK, ClientTypeOK
    <2>5. LinesOf(d)' = LinesOf(d)
      BY <2>1 DEF LinesOf
    <2>6. i \notin Written(d) /\ Written(d)' = Written(d) \cup {i}
      BY <2>2, <2>3, <2>4, <2>5 DEF Written
    <2> DEFINE new == Moved(req[d].op, row[d], LinesOf(d)[i])
    <2>7. WriteSKU(d, LinesOf(d)[i].sku, new) /\ LinesOf(d)[i].sku \in SKUs
      BY <2>1, <2>3, LinesType
    <2>8. row[d] = skuRow[LinesOf(d)[i].sku]
      BY <2>1, <2>2 DEF Hands, Rewrites, ReadIsCommitted
    <2>9. new = RowAfter(req[d].op, skuRow[LinesOf(d)[i].sku], LinesOf(d)[i])
      <3>1. req[d].op # "CreateOrder"
        BY <2>3 DEF InventoryOps
      <3> QED
        BY <2>8, <3>1 DEF RowAfter
    <2> HIDE DEF new
    <2>10. UNCHANGED <<skuRow, locks, req>>
      BY <2>1
    <2>11. i \in DOMAIN LinesOf(d) \ Written(d) /\ pc'[d] # "save"
      BY <2>3, <2>4, <2>6
    <2>12. Rewrites(d)'
      BY <2>6, <2>7, <2>9, <2>10, <2>11, WritesLine DEF Hands
    <2> QED
      BY <2>7, <2>10, <2>12, WriteHands
  <1> QED
    BY <1>1, <1>2

-----------------------------------------------------------------------------
(* The statements that write no row *)

LEMMA CheckHands ==
  ASSUME Consistent, Hands, NEW d \in Clients, OthersRest(d), CheckLine(d)
  PROVE  Hands'
  <1>1. pc[d] = "check" /\ UNCHANGED store /\ req[d].op = "CreateOrder"
    BY DEF CheckLine, Consistent, Right, RightStatement
  <1>2. Written(d) = {} /\ UNCHANGED <<skuRow, skuDraft, skuHolder, locks>>
    BY <1>1 DEF Written, store
  <1>3. \/ /\ Goto(d, "reserve")
           /\ todo' = [todo EXCEPT ![d] = DOMAIN req[d].items]
           /\ UNCHANGED req
        \/ Goto(d, "check")
        \/ \E verdict \in {"invalid", "conflict"} : Answer(d, verdict)
    BY Verdicts DEF CheckLine, LineDone
  <1>4. \/ pc'[d] = "reserve" /\ todo'[d] = DOMAIN req[d].items /\ req' = req
        \/ pc'[d] \in {"check", "invalid", "conflict"}
    BY <1>3 DEF Answer, Goto, Consistent, TypeOK, ClientTypeOK
  <1>5. CASE pc'[d] = "reserve"
    <2>1. todo'[d] = DOMAIN req[d].items /\ req' = req
      BY <1>4, <1>5
    <2>2. LinesOf(d)' = req[d].items
      BY <1>1, <2>1 DEF LinesOf, InventoryOps
    <2>3. Written(d)' = {}
      BY <1>5, <2>1, <2>2 DEF Written
    <2> QED
      BY <1>2, <1>5, <2>3, QuietHands
  <1>6. CASE pc'[d] # "reserve"
    <2>1. Written(d)' = {} /\ pc'[d] # "save"
      BY <1>4, <1>6 DEF Written
    <2> QED
      BY <1>2, <2>1, QuietHands
  <1> QED
    BY <1>5, <1>6

LEMMA LockHands ==
  ASSUME Consistent, Hands, NEW d \in Clients, OthersRest(d), LockOrder(d)
  PROVE  Hands'
  <1>1. CASE Abort(d, "reread")
    BY <1>1, AbortHands
  <1>2. CASE ~Abort(d, "reread")
    <2>1. /\ pc[d] = "lock" /\ UNCHANGED <<skuRow, skuDraft, skuHolder, locks, req>>
          /\ \/ /\ req[d].op \in InventoryOps
                /\ todo' = [todo EXCEPT ![d] = DOMAIN locks[req[d].order]]
                /\ Goto(d, "side")
             \/ req[d].op \notin InventoryOps /\ Goto(d, "commit")
      BY <1>2 DEF LockOrder
    <2>2. req[d].op \in StatusOps
      BY <2>1 DEF Consistent, Right, RightStatement
    <2>3. CASE req[d].op \in InventoryOps
      <3>1. pc'[d] = "side" /\ todo'[d] = DOMAIN locks[req[d].order]
        BY <2>1, <2>3 DEF Goto, Consistent, TypeOK, ClientTypeOK
      <3>2. LinesOf(d)' = locks[req[d].order]
        BY <2>1, <2>3 DEF LinesOf, InventoryOps
      <3>3. Written(d)' = {}
        BY <3>1, <3>2 DEF Written
      <3> QED
        BY <2>1, <3>1, <3>3, QuietHands DEF Written
    <2>4. CASE req[d].op \notin InventoryOps
      <3>1. pc'[d] = "commit"
        BY <2>1, <2>4 DEF Goto, Consistent, TypeOK, ClientTypeOK
      <3>2. LinesOf(d)' = <<>>
        BY <2>1, <2>2, <2>4 DEF LinesOf, StatusOps
      <3>3. Written(d)' = {}
        BY <3>1, <3>2 DEF Written
      <3> QED
        BY <2>1, <3>1, <3>3, QuietHands DEF Written
    <2> QED
      BY <2>3, <2>4
  <1> QED
    BY <1>1, <1>2

LEMMA CallHands ==
  ASSUME Consistent, Hands, NEW d \in Clients, OthersRest(d), OrderCall(d)
  PROVE  Hands'
  <1>1. UNCHANGED store
    BY CallKeepsStore DEF Call
  <1>2. pc[d] = "idle" /\ pc'[d] \in {"ok", "check", "not_found", "lock", "conflict"}
    <2>1. ASSUME NEW u, NEW k, NEW items, CreateOrder(d, u, k, items)
          PROVE  pc[d] = "idle" /\ pc'[d] \in {"ok", "check"}
      BY <2>1 DEF CreateOrder, Goto, Consistent, TypeOK, ClientTypeOK
    <2>2. ASSUME NEW op, NEW actor, NEW o, ChangeStatus(op, d, actor, o)
          PROVE  pc[d] = "idle" /\ pc'[d] \in {"not_found", "ok", "lock", "conflict"}
      BY <2>2 DEF ChangeStatus, Goto, Consistent, TypeOK, ClientTypeOK
    <2> QED
      BY <2>1, <2>2
         DEF OrderCall, PayOrder, CancelOrder, FinishOrder, RequestRefund, MerchantShipOrder,
             MerchantApproveRefund
  <1> QED
    BY <1>1, <1>2, QuietHands DEF Written, store

LEMMA AfterHands ==
  ASSUME Consistent, Hands, NEW d \in Clients, OthersRest(d),
         AppendAfterCommit(d) \/ Reread(d) \/ Return(d)
  PROVE  Hands'
  <1>1. UNCHANGED <<skuRow, skuDraft, skuHolder, locks>>
    BY DEF AppendAfterCommit, Reread, Return, store
  <1>2. /\ pc[d] \in {"after", "reread"} \cup Answers
        /\ pc'[d] \in {"ok", "after", "conflict", "idle"}
    BY DEF AppendAfterCommit, Reread, Return, Goto, Consistent, TypeOK, ClientTypeOK
  <1> QED
    BY <1>1, <1>2, QuietHands DEF Written, Answers

LEMMA FailureHands ==
  ASSUME Consistent, Hands, NEW d \in Clients, OthersRest(d),
         DeadlockVictim(d) \/ StatementFails(d) \/ Crash(d)
  PROVE  Hands'
  <1>1. CASE DeadlockVictim(d) \/ StatementFails(d)
    <2>1. Abort(d, AfterFailure(req[d].op)) /\ AfterFailure(req[d].op) \in Resting \cup {"reread"}
      BY <1>1 DEF DeadlockVictim, StatementFails, AfterFailure, Resting, Answers
    <2> QED
      BY <2>1, AbortHands
  <1>2. CASE Crash(d)
    <2>1. Rollback(d) /\ pc'[d] = "idle"
      BY <1>2 DEF Crash, Goto, Consistent, TypeOK, ClientTypeOK
    <2> QED
      BY <2>1, RollbackHands DEF Resting
  <1> QED
    BY <1>1, <1>2

LEMMA CommitHands ==
  ASSUME OneOrderId, Consistent, Hands, NEW d \in Clients, OthersRest(d),
         Commit(d) \/ CommitAnswerLost(d)
  PROVE  Hands'
  <1>1. pc[d] = "commit" /\ Publish(d) /\ pc'[d] \in {"after", "error", "reread"}
    BY DEF Commit, CommitAnswerLost, AfterFailure, Goto, Consistent, TypeOK, ClientTypeOK
  <1> QED
    BY <1>1, PublishHands DEF Resting, Answers

LEMMA HandsStep ==
  OneOrderId /\ Hands /\ LocksApart /\ Consistent /\ [OrdersNext]_vars => Hands'
  <1> SUFFICES ASSUME OneOrderId, Hands, LocksApart, Consistent, [OrdersNext]_vars PROVE Hands'
    OBVIOUS
  <1>1. CASE UNCHANGED vars
    <2>1. ASSUME NEW c \in Clients PROVE Rewrites(c)'
      BY <1>1, HandStays DEF Hands, vars, store, client
    <2> QED
      BY <2>1 DEF Hands
  <1>2. ASSUME NEW d \in Clients, OrderCall(d) \/ OrderStep(d) \/ Fault(d)
        PROVE  Hands'
    <2>1. OthersRest(d)
      BY <1>2, OthersKeep, OthersKeepRows DEF OthersRest, Call, Step, Consistent
    <2>2. CASE OrderCall(d)
      BY <2>1, <2>2, CallHands
    <2>3. CASE OrderStep(d)
      BY <2>1, <2>3, CheckHands, ReserveHands, InsertHands, LockHands, ReadHands, SaveHands,
         CommitHands, AfterHands, FailureHands DEF OrderStep
    <2>4. CASE Fault(d)
      BY <2>1, <2>4, CommitHands, FailureHands DEF Fault
    <2> QED
      BY <1>2, <2>2, <2>3, <2>4
  <1> QED
    BY <1>1, <1>2 DEF OrdersNext

-----------------------------------------------------------------------------
(* Conservation *)

LEMMA SameUnits ==
  ASSUME UNCHANGED locks, NEW s \in SKUs, NEW status
  PROVE  Units(s, status)' = Units(s, status)
  BY DEF Units, MapThenSumSet, MapThenFoldSet

\* Without an edit of the catalog only a COMMIT changes the committed rows.
LEMMA OnlyCommitPublishes ==
  ASSUME Consistent, [OrdersNext]_vars
  PROVE  UNCHANGED <<skuRow, locks>> \/ \E d \in Clients : pc[d] = "commit" /\ Publish(d)
  <1>1. ASSUME NEW d \in Clients, NEW where, Abort(d, where) \/ Rollback(d)
        PROVE  UNCHANGED <<skuRow, locks>>
    BY <1>1 DEF Abort, Rollback
  <1>2. ASSUME NEW d \in Clients, OrderCall(d) PROVE UNCHANGED <<skuRow, locks>>
    BY <1>2, CallKeepsStore DEF Call, store
  <1>3. ASSUME NEW d \in Clients, OrderStep(d), ~Commit(d) PROVE UNCHANGED <<skuRow, locks>>
    <2>1. CASE CheckLine(d) \/ ReadSKU(d) \/ AppendAfterCommit(d) \/ Reread(d) \/ Return(d)
      BY <2>1 DEF CheckLine, ReadSKU, AppendAfterCommit, Reread, Return, store
    <2>2. CASE ReserveSKU(d) \/ InsertOrder(d) \/ LockOrder(d)
      BY <1>1, <2>2 DEF ReserveSKU, InsertOrder, LockOrder
    <2>3. CASE SaveSKU(d) \/ DeadlockVictim(d)
      BY <1>1, <2>3 DEF SaveSKU, DeadlockVictim
    <2> QED
      BY <1>3, <2>1, <2>2, <2>3 DEF OrderStep
  <1>4. ASSUME NEW d \in Clients, Fault(d), ~CommitAnswerLost(d) PROVE UNCHANGED <<skuRow, locks>>
    BY <1>1, <1>4 DEF Fault, StatementFails, Crash
  <1>5. ASSUME NEW d \in Clients, Commit(d) \/ CommitAnswerLost(d) PROVE pc[d] = "commit" /\ Publish(d)
    BY <1>5 DEF Commit, CommitAnswerLost
  <1> QED
    BY <1>2, <1>3, <1>4, <1>5 DEF OrdersNext, vars, store

\* COMMIT publishes each row with its line accounted for, and no other.
LEMMA PublishedRows ==
  ASSUME Consistent, Hands, LocksApart, NEW d \in Clients, pc[d] = "commit", Publish(d), NEW s \in SKUs
  PROVE  /\ (\A i \in DOMAIN LinesOf(d) : LinesOf(d)[i].sku # s) => skuRow'[s] = skuRow[s]
         /\ \A i \in DOMAIN LinesOf(d) :
              LinesOf(d)[i].sku = s => skuRow'[s] = RowAfter(req[d].op, skuRow[s], LinesOf(d)[i])
  <1>1. Written(d) = DOMAIN LinesOf(d)
    BY DEF Written
  <1>2. skuRow'[s] = Visible(d, s)
    BY DEF Publish, PublishOrder, PublishStatus, PublishSKUs
  <1>3. Distinct(LinesOf(d))
    <2>1. CASE req[d].op = "CreateOrder"
      BY <2>1 DEF LocksApart, Inserting, LinesOf, InventoryOps
    <2>2. CASE req[d].op \in InventoryOps
      BY <2>2 DEF LocksApart, LinesOf, InventoryOps, StatusOps, Consistent, Right, RightRequest
    <2>3. CASE req[d].op # "CreateOrder" /\ req[d].op \notin InventoryOps
      BY <2>3 DEF LinesOf, Distinct
    <2> QED
      BY <2>1, <2>2, <2>3
  <1>4. (\A i \in DOMAIN LinesOf(d) : LinesOf(d)[i].sku # s) => skuHolder[s] # d
    BY <1>1 DEF Hands, Rewrites, HoldsForLines
  <1> QED
    BY <1>1, <1>2, <1>3, <1>4 DEF Hands, Rewrites, RowsTellLines, Visible

\* The columns of SKU s are what its locks say.
Balance(s) ==
  /\ skuRow[s].locked = Units(s, "locked")
  /\ skuRow[s].stock = InitialStock[s] - Units(s, "confirmed")

LEMMA PlacedBalance ==
  ASSUME OneOrderId, Consistent, Hands, LocksApart, LocksApart', NEW d \in Clients, pc[d] = "commit",
         req[d].op = "CreateOrder", Publish(d), NEW s \in SKUs, Balance(s)
  PROVE  Balance(s)'
  <1> DEFINE o == req[d].order
             held == PlacedLocks(req[d].items)
  <1>1. o \in OrderIds /\ locks[o] = <<>> /\ locks'[o] = held /\ req[d].items \in Seq(Item)
    BY PublishOrderEffect, ServiceAssumption DEF Publish, LocksApart
  <1>2. Units(s, "locked") = 0 /\ Units(s, "confirmed") = 0
    BY <1>1, UnitsOfOneOrder DEF UnitsAreLocks
  <1>3. LinesOf(d) = req[d].items
    BY DEF LinesOf, InventoryOps
  <1>4. /\ DOMAIN held = DOMAIN LinesOf(d)
        /\ \A i \in DOMAIN held : /\ held[i].sku = LinesOf(d)[i].sku /\ held[i].qty = LinesOf(d)[i].qty
                                 /\ held[i].status = "locked"
    BY <1>1, <1>3, PlacedLocksType
  <1>5. skuRow[s] \in Row /\ InitialStock[s] \in Int
    BY ServiceAssumption DEF Consistent, TypeOK, StoreTypeOK
  <1>6. CASE \A i \in DOMAIN held : held[i].sku # s
    <2>1. Units(s, "locked")' = 0 /\ Units(s, "confirmed")' = 0
      BY <1>1, <1>6, UnitsOfOneOrderNext DEF UnitsAreLocks
    <2>2. skuRow'[s] = skuRow[s]
      BY <1>4, <1>6, PublishedRows
    <2> QED
      BY <1>2, <2>1, <2>2 DEF Balance
  <1>7. ASSUME NEW i \in DOMAIN held, held[i].sku = s PROVE Balance(s)'
    <2> DEFINE q == held[i].qty
    <2>1. q \in Int
      BY <1>4, <1>7, LinesType
    <2>2. Distinct(held)
      BY <1>1 DEF LocksApart
    <2>3. Units(s, "locked")' = q /\ Units(s, "confirmed")' = 0
      BY <1>1, <1>4, <1>7, <2>1, <2>2, UnitsOfOneOrderNext DEF UnitsAreLocks
    <2>4. skuRow'[s] = [skuRow[s] EXCEPT !.locked = @ + q]
      BY <1>4, <1>7, PublishedRows DEF RowAfter
    <2> HIDE DEF q
    <2>5. skuRow'[s].locked = skuRow[s].locked + q /\ skuRow'[s].stock = skuRow[s].stock
      BY <1>5, <2>4 DEF Row
    <2> QED
      BY <1>2, <1>5, <2>1, <2>3, <2>5 DEF Balance
  <1> QED
    BY <1>6, <1>7

\* What a handler makes of the row of a lock is what it makes of the lock.
LEMMA MovedBalance ==
  ASSUME NEW op \in StatusOps, NEW r \in Row, NEW lock \in Lock, NEW stock \in Int,
         op = "PayOrder" => lock.status = "locked",
         op = "CancelOrder" => lock.status = "locked",
         op = "MerchantApproveRefund" => lock.status = "confirmed",
         r.locked = IF lock.status = "locked" THEN lock.qty ELSE 0,
         r.stock = stock - (IF lock.status = "confirmed" THEN lock.qty ELSE 0)
  PROVE  LET after == LockStatusAfter(op, lock.status)
             moved == IF op \in InventoryOps THEN Moved(op, r, lock) ELSE r
         IN  /\ moved.locked = IF after = "locked" THEN lock.qty ELSE 0
             /\ moved.stock = stock - (IF after = "confirmed" THEN lock.qty ELSE 0)
  <1> DEFINE q == lock.qty
  <1>1. q \in Int /\ r.stock \in Int /\ r.locked \in Int
    BY DEF Lock, Row
  <1>2. CASE op = "PayOrder"
    <2>1. Moved(op, r, lock) = [r EXCEPT !.stock = @ - q, !.locked = @ - q]
      BY <1>2 DEF Moved
    <2>2. Moved(op, r, lock).stock = r.stock - q /\ Moved(op, r, lock).locked = r.locked - q
      BY <2>1 DEF Row
    <2>3. r.locked = q /\ r.stock = stock - 0
      BY <1>2
    <2>4. LockStatusAfter(op, lock.status) = "confirmed" /\ op \in InventoryOps
      BY <1>2 DEF LockStatusAfter, InventoryOps
    <2> HIDE DEF q
    <2>5. Moved(op, r, lock).locked = 0 /\ Moved(op, r, lock).stock = stock - q
      BY <1>1, <2>2, <2>3
    <2> QED
      BY <2>4, <2>5 DEF q
  <1>3. CASE op = "CancelOrder"
    <2>1. Moved(op, r, lock) = [r EXCEPT !.locked = @ - q]
      BY <1>3 DEF Moved
    <2>2. Moved(op, r, lock).stock = r.stock /\ Moved(op, r, lock).locked = r.locked - q
      BY <2>1 DEF Row
    <2>3. r.locked = q /\ r.stock = stock - 0
      BY <1>3
    <2>4. LockStatusAfter(op, lock.status) = "released" /\ op \in InventoryOps
      BY <1>3 DEF LockStatusAfter, InventoryOps
    <2> HIDE DEF q
    <2>5. Moved(op, r, lock).locked = 0 /\ Moved(op, r, lock).stock = stock - 0
      BY <1>1, <2>2, <2>3
    <2> QED
      BY <2>4, <2>5 DEF q
  <1>4. CASE op = "MerchantApproveRefund"
    <2>1. Moved(op, r, lock) = [r EXCEPT !.stock = @ + q]
      BY <1>4 DEF Moved
    <2>2. Moved(op, r, lock).stock = r.stock + q /\ Moved(op, r, lock).locked = r.locked
      BY <2>1 DEF Row
    <2>3. r.locked = 0 /\ r.stock = stock - q
      BY <1>4
    <2>4. LockStatusAfter(op, lock.status) = "released" /\ op \in InventoryOps
      BY <1>4 DEF LockStatusAfter, InventoryOps
    <2> HIDE DEF q
    <2>5. Moved(op, r, lock).locked = 0 /\ Moved(op, r, lock).stock = stock - 0
      BY <1>1, <2>2, <2>3
    <2> QED
      BY <2>4, <2>5 DEF q
  <1>5. CASE op \notin InventoryOps
    BY <1>5 DEF LockStatusAfter, InventoryOps
  <1> QED
    BY <1>2, <1>3, <1>4, <1>5 DEF InventoryOps

LEMMA MovingBalance ==
  ASSUME OneOrderId, Consistent, Hands, LocksApart, LocksApart', LocksFollowStatus,
         NEW d \in Clients, pc[d] = "commit", req[d].op \in StatusOps, Publish(d),
         NEW s \in SKUs, Balance(s)
  PROVE  Balance(s)'
  <1> DEFINE o == req[d].order
             op == req[d].op
             held == locks[o]
  <1>1. /\ o \in OrderIds /\ CanTransition(orders[o].status, ToStatus(op))
        /\ locks'[o] = Relock(held, op)
    BY PublishStatusEffect DEF Publish, StatusOps
  <1>2. held \in Seq(Lock) /\ Distinct(held)
    BY <1>1 DEF Consistent, TypeOK, StoreTypeOK, LocksApart
  <1>3. skuRow[s] \in Row /\ InitialStock[s] \in Int
    BY ServiceAssumption DEF Consistent, TypeOK, StoreTypeOK
  <1>4. LinesOf(d) = IF op \in InventoryOps THEN held ELSE <<>>
    BY DEF LinesOf, InventoryOps, StatusOps
  <1>5. CASE \A i \in DOMAIN held : held[i].sku # s
    <2>1. \A i \in DOMAIN Relock(held, op) : Relock(held, op)[i].sku # s
      BY <1>2, <1>5, RelockType
    <2>2. /\ Units(s, "locked") = 0 /\ Units(s, "confirmed") = 0
          /\ Units(s, "locked")' = 0 /\ Units(s, "confirmed")' = 0
      BY <1>1, <1>5, <2>1, UnitsOfOneOrder, UnitsOfOneOrderNext DEF UnitsAreLocks
    <2>3. skuRow'[s] = skuRow[s]
      BY <1>4, <1>5, PublishedRows
    <2> QED
      BY <2>2, <2>3 DEF Balance
  <1>6. ASSUME NEW i \in DOMAIN held, held[i].sku = s PROVE Balance(s)'
    <2> DEFINE lock == held[i]
               after == LockStatusAfter(op, lock.status)
    <2>1. lock \in Lock /\ lock.qty \in Int
      <3>1. lock \in Lock
        BY <1>2, <1>6, Elements
      <3> QED
        BY <3>1 DEF Lock
    <2>2. /\ Relock(held, op)[i].sku = s /\ Relock(held, op)[i].qty = lock.qty
          /\ Relock(held, op)[i].status = after /\ i \in DOMAIN Relock(held, op)
      BY <1>2, <1>6, RelockType
    <2>3. \A status : Units(s, status) = IF lock.status = status THEN lock.qty ELSE 0
      BY <1>1, <1>2, <1>6, <2>1, UnitsOfOneOrder DEF UnitsAreLocks
    <2>4. \A status : Units(s, status)' = IF after = status THEN lock.qty ELSE 0
      <3>1. Distinct(Relock(held, op))
        BY <1>1 DEF LocksApart
      <3> QED
        BY <1>1, <2>1, <2>2, <3>1, UnitsOfOneOrderNext DEF UnitsAreLocks
    <2>5. skuRow'[s] = IF op \in InventoryOps THEN Moved(op, skuRow[s], lock) ELSE skuRow[s]
      <3>1. CASE op \in InventoryOps
        <4>1. op # "CreateOrder"
          BY DEF StatusOps
        <4>2. LinesOf(d) = held
          BY <1>4, <3>1
        <4>3. skuRow'[s] = RowAfter(op, skuRow[s], lock)
          BY <1>6, <4>2, PublishedRows
        <4> QED
          BY <3>1, <4>1, <4>3 DEF RowAfter
      <3>2. CASE op \notin InventoryOps
        BY <1>4, <3>2, PublishedRows
      <3> QED
        BY <3>1, <3>2
    <2>6. /\ op = "PayOrder" => lock.status = "locked"
          /\ op = "CancelOrder" => lock.status = "locked"
          /\ op = "MerchantApproveRefund" => lock.status = "confirmed"
      <3>1. lock.status =
              CASE orders[o].status = "CREATED" -> "locked"
                [] orders[o].status \in {"CANCELLED", "REFUNDED"} -> "released"
                [] OTHER -> "confirmed"
        BY <1>1 DEF LocksFollowStatus
      <3> QED
        BY <1>1, <3>1 DEF CanTransition, legalTransitions, ToStatus
    <2>7. /\ skuRow[s].locked = IF lock.status = "locked" THEN lock.qty ELSE 0
          /\ skuRow[s].stock = InitialStock[s] - (IF lock.status = "confirmed" THEN lock.qty ELSE 0)
      BY <2>3 DEF Balance
    <2> HIDE DEF lock, after, op
    <2>8. /\ skuRow'[s].locked = IF after = "locked" THEN lock.qty ELSE 0
          /\ skuRow'[s].stock = InitialStock[s] - (IF after = "confirmed" THEN lock.qty ELSE 0)
      BY <1>3, <2>1, <2>5, <2>6, <2>7, MovedBalance DEF after, op
    <2> QED
      BY <2>4, <2>8 DEF Balance
  <1> QED
    BY <1>5, <1>6

LEMMA ConservationStep ==
  /\ Conservation /\ OneOrderId /\ Hands /\ LocksApart /\ LocksFollowStatus /\ Consistent
  /\ [OrdersNext]_vars
  => Conservation'
  <1> SUFFICES ASSUME Conservation, OneOrderId, Hands, LocksApart, LocksFollowStatus, Consistent,
                      [OrdersNext]_vars, NEW s \in SKUs
               PROVE  Balance(s)'
    BY DEF Conservation, Balance
  <1>1. Balance(s)
    BY DEF Conservation, Balance
  <1>2. CASE UNCHANGED <<skuRow, locks>>
    BY <1>1, <1>2, SameUnits DEF Balance
  <1>3. ASSUME NEW d \in Clients, pc[d] = "commit", Publish(d) PROVE Balance(s)'
    <2>1. LocksApart'
      BY LocksApartStep, OrdersStepIsStep
    <2>2. req[d].op = "CreateOrder" \/ req[d].op \in StatusOps
      BY <1>3 DEF Consistent, Right, RightStatement
    <2> QED
      BY <1>1, <1>3, <2>1, <2>2, PlacedBalance, MovingBalance
  <1> QED
    BY <1>2, <1>3, OnlyCommitPublishes

\* With one order in the system, any handlers that race for it, any of them
\* that fail, and any SKUs in its basket, the stock columns are the initial
\* stock and the order's locks, to the unit: no UPDATE of service_order.go or
\* service_merchant.go is lost, repeated or half done.  With a second order
\* on the SKU an UPDATE may be lost.
THEOREM ConservationTheorem ==
  ASSUME \A o, p \in OrderIds : o = p
  PROVE  OrdersSpec => []Conservation
  <1>1. OneOrderId
    BY DEF OneOrderId
  <1>2. Init => Conservation /\ Hands /\ LocksApart
    <2> SUFFICES ASSUME Init PROVE Conservation /\ Hands /\ LocksApart
      OBVIOUS
    <2>1. Hands
      BY StoreAssumption DEF Init, Hands, Rewrites, RowsTellLines, HoldsForLines, ReadIsCommitted, Written
    <2>2. LocksApart
      BY DEF Init, LocksApart, Distinct, Inserting
    <2>3. ASSUME NEW s \in SKUs, NEW status PROVE Units(s, status) = 0
      BY NoUnits DEF Init
    <2>4. Conservation
      BY <2>3, ServiceAssumption DEF Init, Conservation
    <2> QED
      BY <2>1, <2>2, <2>4
  <1>3. Init => LocksFollowStatus
    BY DEF Init, LocksFollowStatus, NoOrder
  <1>4. OrdersSpec => Spec
    BY OrdersStepIsStep, PTL DEF OrdersSpec, Spec
  <1>5. /\ Conservation /\ Hands /\ LocksApart /\ LocksFollowStatus /\ Consistent
        /\ [OrdersNext]_vars
        => (Conservation /\ Hands /\ LocksApart)'
    BY <1>1, ConservationStep, HandsStep, LocksApartStep, OrdersStepIsStep
  <1> QED
    BY <1>2, <1>4, <1>5, LocksTheorem, Invariance, PTL DEF OrdersSpec


-----------------------------------------------------------------------------
(***************************************************************************)
(* The journals of an order tell the truth, each thing once, and the order *)
(* service implements OrderLifecycle.                                      *)
(*                                                                         *)
(* JournalIsTrue is not inductive: a handler that has committed still owes *)
(* some of its appends.  AppendsAreNew says of each of them that its event *)
(* is in no log yet and that no other handler owes the same.               *)
(***************************************************************************)

Logs == {"order_events", "outbox"}

InLog(t, o, event) == \E i \in DOMAIN journal[t][o] : journal[t][o][i] = event

\* The order has been through the change an event names.
Reached(order, event) ==
  /\ order.status # "NONE"
  /\ event \in Stamped => event \in order.stamps
  /\ event = "REFUNDING" => order.status \in {"REFUNDING", "REFUNDED"}
  /\ event = "REFUNDED" => order.status = "REFUNDED"

LogsAreTrue ==
  \A t \in Logs, o \in OrderIds :
    /\ \A i, j \in DOMAIN journal[t][o] : journal[t][o][i] = journal[t][o][j] => i = j
    /\ \A event \in Events : InLog(t, o, event) => Reached(orders[o], event)
    /\ \A event \in {"PAID", "CANCELLED", "REFUNDED"} :
         Reached(orders[o], event) => InLog(t, o, event)

\* Handler c has still to append its event to table t.
Due(c, t) == pc[c] = "after" /\ \E i \in DOMAIN pending[c] : pending[c][i] = t

Owes(c, t) ==
  /\ req[c].op \notin InventoryOps
  /\ \A i, j \in DOMAIN pending[c] : pending[c][i] = pending[c][j] => i = j
  /\ ~InLog(t, req[c].order, EventOf(req[c].op))
  /\ \A d \in Clients :
       Due(d, t) /\ req[d].order = req[c].order /\ EventOf(req[d].op) = EventOf(req[c].op) => c = d

AppendsAreNew == \A c \in Clients, t \in Logs : Due(c, t) => Owes(c, t)

Journals == LogsAreTrue /\ AppendsAreNew

-----------------------------------------------------------------------------
(* Sequences *)

LEMMA Appended ==
  ASSUME NEW S, NEW log \in Seq(S), NEW e \in S
  PROVE  LET new == Append(log, e)
             n == Len(log) + 1
         IN  /\ DOMAIN new = DOMAIN log \cup {n} /\ n \notin DOMAIN log
             /\ new[n] = e
             /\ \A i \in DOMAIN log : new[i] = log[i]
  OBVIOUS

LEMMA TailOf ==
  ASSUME NEW S, NEW list \in Seq(S), list # <<>>
  PROVE  /\ 1 \in DOMAIN list /\ Head(list) = list[1]
         /\ \A i \in DOMAIN Tail(list) : i + 1 \in DOMAIN list /\ Tail(list)[i] = list[i + 1] /\ i + 1 # 1
  OBVIOUS

LEMMA AppendedTables ==
  ASSUME TypeOK, NEW tables, NEW o \in OrderIds, NEW event, AppendTo(tables, o, event), NEW t \in Tables
  PROVE  /\ t \in tables => journal'[t] = [journal[t] EXCEPT ![o] = Append(@, event)]
         /\ t \notin tables => journal'[t] = journal[t]
  BY DEF AppendTo

\* What a log says after an append, and says once if it is new.
LEMMA AppendedInLog ==
  ASSUME TypeOK, NEW tables, NEW o \in OrderIds, NEW event \in Events, AppendTo(tables, o, event),
         NEW t \in Tables \cap tables
  PROVE  /\ \A other : InLog(t, o, other)' <=> InLog(t, o, other) \/ other = event
         /\ ~InLog(t, o, event)
              /\ (\A i, j \in DOMAIN journal[t][o] : journal[t][o][i] = journal[t][o][j] => i = j) =>
              (\A i, j \in DOMAIN journal'[t][o] : journal'[t][o][i] = journal'[t][o][j] => i = j)
  <1> DEFINE log == journal[t][o]
             new == journal'[t][o]
             n == Len(log) + 1
  <1>1. log \in Seq(Events) /\ new = Append(log, event)
    <2>1. t \in Tables /\ t \in tables
      OBVIOUS
    <2>2. journal[t] \in [OrderIds -> Seq(Events)]
      BY <2>1 DEF TypeOK, StoreTypeOK
    <2>3. journal'[t] = [journal[t] EXCEPT ![o] = Append(@, event)]
      BY <2>1, AppendedTables
    <2> QED
      BY <2>2, <2>3
  <1>2. /\ DOMAIN new = DOMAIN log \cup {n} /\ n \notin DOMAIN log
        /\ new[n] = event
        /\ \A i \in DOMAIN log : new[i] = log[i]
    BY <1>1, Appended
  <1>3. \A other : InLog(t, o, other)' <=> \E i \in DOMAIN new : new[i] = other
    BY DEF InLog
  <1>4. \A other : InLog(t, o, other) <=> \E i \in DOMAIN log : log[i] = other
    BY DEF InLog
  <1> HIDE DEF log, new, n
  <1>5. ASSUME NEW other PROVE InLog(t, o, other)' <=> InLog(t, o, other) \/ other = event
    <2>1. (\E i \in DOMAIN new : new[i] = other) <=> (\E i \in DOMAIN log : log[i] = other) \/ other = event
      BY <1>2
    <2> QED
      BY <1>3, <1>4, <2>1
  <1>6. ~InLog(t, o, event)
          /\ (\A i, j \in DOMAIN log : log[i] = log[j] => i = j) =>
          (\A i, j \in DOMAIN new : new[i] = new[j] => i = j)
    BY <1>2, <1>4
  <1> QED
    BY <1>5, <1>6 DEF log, new

\* The other logs stay as they are.
LEMMA OtherLogs ==
  ASSUME TypeOK, NEW tables, NEW o \in OrderIds, NEW event \in Events, AppendTo(tables, o, event),
         NEW t \in Tables, NEW p \in OrderIds, t \notin tables \/ p # o
  PROVE  journal'[t][p] = journal[t][p]
  <1>1. CASE t \notin tables
    BY <1>1, AppendedTables
  <1>2. CASE t \in tables
    <2> DEFINE appended == Append(journal[t][o], event)
    <2>1. journal[t] \in [OrderIds -> Seq(Events)]
      BY DEF TypeOK, StoreTypeOK
    <2>2. journal'[t] = [journal[t] EXCEPT ![o] = appended]
      <3>1. journal'[t] = [journal[t] EXCEPT ![o] = Append(@, event)]
        BY <1>2 DEF AppendTo
      <3> QED
        BY <3>1, Zenon
    <2> HIDE DEF appended
    <2>3. p # o
      BY <1>2
    <2>4. [journal[t] EXCEPT ![o] = appended][p] = journal[t][p]
      BY <2>1, <2>3
    <2> QED
      BY <2>2, <2>4
  <1> QED
    BY <1>1, <1>2

-----------------------------------------------------------------------------
(* Who appends what *)

\* The steps of one handler leave what every other has to append alone.
LEMMA OthersKeepPending ==
  ASSUME TypeOK, NEW d \in Clients, Call(d) \/ Step(d) \/ Fault(d), NEW c \in Clients \ {d}
  PROVE  pending'[c] = pending[c]
  <1> USE DEF TypeOK, ClientTypeOK
  <1>1. CASE Call(d)
    <2>1. CASE \E u \in Users, k \in Keys, items \in Baskets : CreateOrder(d, u, k, items)
      BY <2>1 DEF CreateOrder
    <2>2. CASE \E op \in StatusOps, actor \in Users \cup Merchants, o \in OrderIds : ChangeStatus(op, d, actor, o)
      BY <2>2 DEF ChangeStatus
    <2>3. CASE \E s \in SKUs, stock \in StockInputs, active \in BOOLEAN : MerchantUpdateSKU(d, s, stock, active)
      BY <2>3 DEF MerchantUpdateSKU
    <2> QED
      BY <1>1, <2>1, <2>2, <2>3
         DEF Call, OrderCall, PayOrder, CancelOrder, FinishOrder, RequestRefund, MerchantShipOrder,
             MerchantApproveRefund, StatusOps
  <1>2. ASSUME NEW where, Abort(d, where) \/ Answer(d, where)
        PROVE  pending' = pending
    BY <1>2 DEF Abort, Answer
  <1>3. CASE Step(d)
    <2>1. CASE CheckLine(d)
      BY <1>2, <2>1 DEF CheckLine
    <2>2. CASE ReserveSKU(d) \/ InsertOrder(d)
      BY <1>2, <2>2 DEF ReserveSKU, InsertOrder
    <2>3. CASE LockOrder(d) \/ ReadSKU(d) \/ SaveSKU(d)
      BY <1>2, <2>3 DEF LockOrder, ReadSKU, SaveSKU
    <2>4. CASE Commit(d) \/ AppendAfterCommit(d) \/ Reread(d)
      BY <2>4 DEF Commit, AppendAfterCommit, Reread
    <2>5. CASE UpdateSKU(d) \/ DeadlockVictim(d) \/ Return(d)
      BY <1>2, <2>5 DEF UpdateSKU, DeadlockVictim, Return
    <2> QED
      BY <1>3, <2>1, <2>2, <2>3, <2>4, <2>5 DEF Step, OrderStep
  <1>4. CASE Fault(d)
    BY <1>2, <1>4 DEF Fault, StatementFails, CommitAnswerLost, Crash
  <1> QED
    BY <1>1, <1>3, <1>4

\* A handler appends after its COMMIT, one table at a time.
LEMMA ArrivesAfter ==
  ASSUME Consistent, [Next]_vars, NEW c \in Clients, pc'[c] = "after"
  PROVE  \/ Commit(c)
         \/ AppendAfterCommit(c)
         \/ UNCHANGED <<pc[c], req[c], pending[c]>>
  <1> USE DEF Goto
  <1>1. TypeOK /\ RightStatement(c) /\ pc \in [Clients -> Statement]
    BY DEF Consistent, Right, TypeOK, ClientTypeOK
  <1>2. ASSUME NEW where, Abort(c, where) \/ Answer(c, where)
        PROVE  pc'[c] = where
    BY <1>1, <1>2 DEF Abort, Answer
  <1>3. CASE ~(Call(c) \/ Step(c) \/ Fault(c))
    <2>1. pc'[c] = pc[c] /\ req'[c] = req[c]
      BY <1>3, Idle
    <2>2. pending'[c] = pending[c]
      <3>1. CASE UNCHANGED vars
        BY <3>1 DEF vars, client
      <3>2. ASSUME NEW p \in Products, MerchantSetProductStatus(p) PROVE pending' = pending
        BY <3>2 DEF MerchantSetProductStatus, client
      <3>3. ASSUME NEW d \in Clients, Call(d) \/ Step(d) \/ Fault(d) PROVE pending'[c] = pending[c]
        BY <1>1, <1>3, <3>3, OthersKeepPending
      <3> QED
        BY <3>1, <3>2, <3>3 DEF Next
    <2> QED
      BY <2>1, <2>2
  <1>4. ~Call(c)
    <2>1. ASSUME NEW u \in Users, NEW k \in Keys, NEW items \in Baskets PROVE ~CreateOrder(c, u, k, items)
      BY <1>1 DEF CreateOrder
    <2>2. ASSUME NEW op \in StatusOps, NEW actor, NEW o \in OrderIds PROVE ~ChangeStatus(op, c, actor, o)
      BY <1>1 DEF ChangeStatus
    <2>3. ASSUME NEW s \in SKUs, NEW stock \in StockInputs, NEW active \in BOOLEAN
          PROVE  ~MerchantUpdateSKU(c, s, stock, active)
      BY <1>1 DEF MerchantUpdateSKU
    <2> QED
      BY <2>1, <2>2, <2>3
         DEF Call, OrderCall, PayOrder, CancelOrder, FinishOrder, RequestRefund, MerchantShipOrder,
             MerchantApproveRefund, StatusOps
  <1>5. ~Fault(c)
    BY <1>1, <1>2 DEF Fault, StatementFails, CommitAnswerLost, Crash, AfterFailure
  <1>6. CASE Step(c)
    <2>1. ~(CheckLine(c) \/ ReserveSKU(c) \/ InsertOrder(c))
      BY <1>1, <1>2, Verdicts DEF CheckLine, ReserveSKU, InsertOrder, LineDone
    <2>2. ~(LockOrder(c) \/ ReadSKU(c) \/ SaveSKU(c))
      BY <1>1, <1>2 DEF LockOrder, ReadSKU, SaveSKU, LineDone
    <2>3. ~(UpdateSKU(c) \/ DeadlockVictim(c) \/ Return(c) \/ Reread(c))
      BY <1>1, <1>2 DEF UpdateSKU, DeadlockVictim, Return, Reread, AfterFailure
    <2> QED
      BY <1>6, <2>1, <2>2, <2>3 DEF Step, OrderStep
  <1> QED
    BY <1>3, <1>4, <1>5, <1>6

\* A log grows by the event of a COMMIT that moves stock, in the transaction,
\* or by what a handler owed.
LEMMA JournalMoves ==
  ASSUME [Next]_vars
  PROVE  \/ UNCHANGED journal
         \/ \E c \in Clients :
              /\ pc[c] = "commit" /\ Publish(c) /\ req[c].op \in InventoryOps
              /\ AppendTo(Logs, req[c].order, ToStatus(req[c].op))
         \/ \E c \in Clients :
              /\ AppendAfterCommit(c)
              /\ AppendTo({Head(pending[c])}, req[c].order, EventOf(req[c].op))
  <1>1. ASSUME NEW c \in Clients, NEW where, Abort(c, where) PROVE UNCHANGED journal
    BY <1>1 DEF Abort, Rollback
  <1>2. ASSUME NEW c \in Clients, Publish(c)
        PROVE  \/ UNCHANGED journal
               \/ req[c].op \in InventoryOps /\ AppendTo(Logs, req[c].order, ToStatus(req[c].op))
    BY <1>2 DEF Publish, PublishOrder, PublishStatus, Logs
  <1>3. ASSUME NEW c \in Clients, Call(c) PROVE UNCHANGED journal
    BY <1>3, CallKeepsStore DEF store
  <1>4. ASSUME NEW c \in Clients, Fault(c)
        PROVE  \/ UNCHANGED journal
               \/ /\ pc[c] = "commit" /\ Publish(c) /\ req[c].op \in InventoryOps
                  /\ AppendTo(Logs, req[c].order, ToStatus(req[c].op))
    BY <1>1, <1>2, <1>4 DEF Fault, StatementFails, CommitAnswerLost, Crash, Rollback
  <1>5. ASSUME NEW c \in Clients, Step(c), ~Commit(c), ~AppendAfterCommit(c) PROVE UNCHANGED journal
    <2>1. CASE ReserveSKU(c) \/ InsertOrder(c) \/ LockOrder(c)
      BY <1>1, <2>1 DEF ReserveSKU, InsertOrder, LockOrder
    <2>2. CASE SaveSKU(c) \/ DeadlockVictim(c)
      BY <1>1, <2>2 DEF SaveSKU, DeadlockVictim
    <2>3. CASE CheckLine(c) \/ ReadSKU(c) \/ Reread(c) \/ UpdateSKU(c) \/ Return(c)
      BY <2>3 DEF CheckLine, ReadSKU, Reread, UpdateSKU, Return, store
    <2> QED
      BY <1>5, <2>1, <2>2, <2>3 DEF Step, OrderStep
  <1>6. ASSUME NEW c \in Clients, Commit(c)
        PROVE  \/ UNCHANGED journal
               \/ /\ pc[c] = "commit" /\ Publish(c) /\ req[c].op \in InventoryOps
                  /\ AppendTo(Logs, req[c].order, ToStatus(req[c].op))
    BY <1>2, <1>6 DEF Commit
  <1>7. ASSUME NEW c \in Clients, AppendAfterCommit(c)
        PROVE  UNCHANGED journal \/ AppendTo({Head(pending[c])}, req[c].order, EventOf(req[c].op))
    BY <1>7 DEF AppendAfterCommit
  <1>8. ASSUME NEW p \in Products, MerchantSetProductStatus(p) PROVE UNCHANGED journal
    BY <1>8 DEF MerchantSetProductStatus
  <1> QED
    BY <1>3, <1>4, <1>5, <1>6, <1>7, <1>8 DEF Next, vars, store

-----------------------------------------------------------------------------
(* Events and the changes they name *)

StockEvents == {"PAID", "CANCELLED", "REFUNDED"}

LEMMA EventsOfOps ==
  ASSUME NEW op \in StatusOps \cup {"CreateOrder"}
  PROVE  /\ EventOf(op) \in Events
         /\ op \in InventoryOps => EventOf(op) = ToStatus(op) /\ EventOf(op) \in StockEvents
         /\ op \notin InventoryOps => EventOf(op) \notin StockEvents
  BY DEF EventOf, Events, OrderStatuses, StatusOps, ToStatus, InventoryOps, StockEvents

LEMMA ReachedStays ==
  ASSUME Consistent, [Next]_vars, NEW o \in OrderIds, NEW event, Reached(orders[o], event)
  PROVE  Reached(orders'[o], event)
  <1>1. CASE orders'[o] = orders[o]
    BY <1>1 DEF Reached
  <1>2. CASE orders'[o] # orders[o]
    <2>1. PICK c \in Clients : pc[c] = "commit" /\ Publish(c)
      BY <1>2, OnlyCommitMoves
    <2>2. o = req[c].order
      BY <1>2, <2>1, PublishEffect
    <2>3. req[c].op \in StatusOps
      BY <2>1, <2>2, PublishOrderEffect DEF Publish, Reached, Consistent, Right, RightStatement
    <2> DEFINE to == ToStatus(req[c].op)
    <2>4. CanTransition(orders[o].status, to) /\ orders'[o] = Advance(orders[o], to)
      BY <2>1, <2>2, <2>3, PublishStatusEffect DEF Publish, StatusOps
    <2>5. orders'[o].status = to /\ orders[o].stamps \subseteq orders'[o].stamps
      BY <2>4 DEF Advance, Consistent, TypeOK, StoreTypeOK, Order
    <2> QED
      BY <2>4, <2>5 DEF Reached, CanTransition, legalTransitions
  <1> QED
    BY <1>1, <1>2

\* COMMIT takes the order through a change it has not been through, and no other.
LEMMA NewlyReached ==
  ASSUME Consistent, StampsFollowStatus, NEW c \in Clients, pc[c] = "commit", Publish(c)
  PROVE  LET o == req[c].order
             event == EventOf(req[c].op)
         IN  /\ o \in OrderIds /\ event \in Events
             /\ ~Reached(orders[o], event) /\ Reached(orders'[o], event)
             /\ \A other \in StockEvents \ {event} :
                  Reached(orders'[o], other) => Reached(orders[o], other)
  <1> DEFINE o == req[c].order
             event == EventOf(req[c].op)
  <1>1. o \in OrderIds /\ req[c].op \in StatusOps \cup {"CreateOrder"}
    BY PublishEffect DEF Consistent, Right, RightStatement
  <1>2. event \in Events
    BY <1>1, EventsOfOps
  <1>3. CASE req[c].op = "CreateOrder"
    <2>1. orders[o].status = "NONE" /\ orders'[o] = PlacedOrder(req[c]) /\ event = "CREATED"
      BY <1>3, PublishOrderEffect DEF Publish, EventOf
    <2>2. orders'[o].status = "CREATED" /\ orders'[o].stamps = {}
      BY <2>1 DEF PlacedOrder
    <2> QED
      BY <1>1, <1>2, <2>1, <2>2 DEF Reached, StockEvents, Stamped
  <1>4. CASE req[c].op \in StatusOps
    <2> DEFINE order == orders[o]
    <2>1. event = ToStatus(req[c].op)
      BY <1>4 DEF EventOf, StatusOps
    <2>2. CanTransition(order.status, event) /\ orders'[o] = Advance(order, event)
      BY <1>4, <2>1, PublishStatusEffect DEF Publish, StatusOps
    <2>3. orders'[o].status = event /\ orders'[o].stamps = order.stamps \cup ({event} \cap Stamped)
      BY <1>1, <2>2 DEF Advance, Consistent, TypeOK, StoreTypeOK, Order
    <2>4. /\ "PAID" \in order.stamps
               <=> order.status \in {"PAID", "SHIPPED", "FINISHED", "REFUNDING", "REFUNDED"}
          /\ "SHIPPED" \in order.stamps =>
               order.status \in {"SHIPPED", "FINISHED", "REFUNDING", "REFUNDED"}
          /\ "CANCELLED" \in order.stamps <=> order.status = "CANCELLED"
          /\ "FINISHED" \in order.stamps <=> order.status = "FINISHED"
      BY <1>1 DEF StampsFollowStatus
    <2>5. event # "NONE" /\ order.status # "NONE"
      BY <2>2 DEF CanTransition, legalTransitions
    <2> HIDE DEF order, event
    <2>6. ~Reached(order, event)
      BY <2>2, <2>4 DEF Reached, CanTransition, legalTransitions, Stamped
    <2>7. Reached(orders'[o], event)
      BY <2>2, <2>3, <2>5 DEF Reached
    <2>8. ASSUME NEW other \in StockEvents \ {event}, Reached(orders'[o], other)
          PROVE  Reached(order, other)
      BY <2>3, <2>5, <2>8 DEF Reached, StockEvents
    <2> QED
      BY <1>1, <1>2, <2>6, <2>7, <2>8 DEF order, event
  <1> QED
    BY <1>1, <1>3, <1>4

\* A handler that owes an append works on an order that has been through its event.
LEMMA OwedIsReached ==
  ASSUME Consistent, DoneWhenAnswered, NEW c \in Clients, pc[c] = "after"
  PROVE  /\ req[c].order \in OrderIds /\ req[c].op \in StatusOps \cup {"CreateOrder"}
         /\ Reached(orders[req[c].order], EventOf(req[c].op))
  <1> DEFINE o == req[c].order
             op == req[c].op
  <1>1. op \in StatusOps \cup {"CreateOrder"}
    BY DEF Consistent, Right, RightStatement
  <1>2. o \in OrderIds /\ Done(req[c], orders[o])
    BY <1>1 DEF DoneWhenAnswered, StatusOps
  <1>3. Reached(orders[o], EventOf(op))
    BY <1>1, <1>2 DEF Done, Reached, EventOf, StatusOps, ToStatus, Stamped
  <1> QED
    BY <1>1, <1>2, <1>3

-----------------------------------------------------------------------------
(* The logs *)

TrueLog(t, o) ==
  /\ \A i, j \in DOMAIN journal[t][o] : journal[t][o][i] = journal[t][o][j] => i = j
  /\ \A event \in Events : InLog(t, o, event) => Reached(orders[o], event)
  /\ \A event \in StockEvents : Reached(orders[o], event) => InLog(t, o, event)

LEMMA LogsAreTrueLogs == LogsAreTrue <=> \A t \in Logs, o \in OrderIds : TrueLog(t, o)
  BY DEF LogsAreTrue, TrueLog, StockEvents

\* A log that stays is true as long as no change happens that it should name.
LEMMA SameLog ==
  ASSUME Consistent, [Next]_vars, NEW t \in Logs, NEW o \in OrderIds, TrueLog(t, o),
         journal'[t][o] = journal[t][o],
         \A event \in StockEvents : Reached(orders'[o], event) => Reached(orders[o], event)
  PROVE  TrueLog(t, o)'
  <1>1. \A event : InLog(t, o, event)' <=> InLog(t, o, event)
    BY DEF InLog
  <1>2. \A event : Reached(orders[o], event) => Reached(orders'[o], event)
    BY ReachedStays
  <1>3. \A event : Reached(orders[o], event)' <=> Reached(orders'[o], event)
    BY DEF Reached
  <1> QED
    BY <1>1, <1>2, <1>3 DEF TrueLog

\* A log that takes a new event stays true when it is the event of what happens.
LEMMA LongerLog ==
  ASSUME Consistent, [Next]_vars, NEW t \in Logs, NEW o \in OrderIds, TrueLog(t, o),
         NEW tables, NEW event \in Events, AppendTo(tables, o, event), t \in tables,
         ~InLog(t, o, event), Reached(orders'[o], event),
         \A other \in StockEvents \ {event} : Reached(orders'[o], other) => Reached(orders[o], other)
  PROVE  TrueLog(t, o)'
  <1>1. TypeOK /\ t \in Tables \cap tables
    BY DEF Consistent, Logs, Tables
  <1>2. \A other : InLog(t, o, other)' <=> InLog(t, o, other) \/ other = event
    BY <1>1, AppendedInLog
  <1>3. \A i, j \in DOMAIN journal'[t][o] : journal'[t][o][i] = journal'[t][o][j] => i = j
    <2>1. \A i, j \in DOMAIN journal[t][o] : journal[t][o][i] = journal[t][o][j] => i = j
      BY DEF TrueLog
    <2>2. ~InLog(t, o, event)
            /\ (\A i, j \in DOMAIN journal[t][o] : journal[t][o][i] = journal[t][o][j] => i = j) =>
            (\A i, j \in DOMAIN journal'[t][o] : journal'[t][o][i] = journal'[t][o][j] => i = j)
      BY <1>1, AppendedInLog
    <2> QED
      BY <2>1, <2>2
  <1>4. \A other : Reached(orders[o], other) => Reached(orders'[o], other)
    BY ReachedStays
  <1>5. \A other : Reached(orders[o], other)' <=> Reached(orders'[o], other)
    BY DEF Reached
  <1> QED
    BY <1>2, <1>3, <1>4, <1>5 DEF TrueLog

LEMMA LogsStep ==
  ASSUME Journals, StampsFollowStatus, DoneWhenAnswered, Consistent, [Next]_vars
  PROVE  LogsAreTrue'
  <1> SUFFICES ASSUME NEW t \in Logs, NEW o \in OrderIds PROVE TrueLog(t, o)'
    BY DEF LogsAreTrue, TrueLog, StockEvents
  <1>1. TrueLog(t, o) /\ TypeOK /\ t \in Tables
    BY LogsAreTrueLogs DEF Journals, Consistent, Logs, Tables
  \* An order that changes is the one of a COMMIT.
  <1>2. ASSUME ~ \E c \in Clients : pc[c] = "commit" /\ Publish(c) /\ req[c].order = o /\ req[c].op \in InventoryOps,
               NEW event \in StockEvents, Reached(orders'[o], event)
        PROVE  Reached(orders[o], event)
    <2>1. CASE orders'[o] = orders[o]
      BY <1>2, <2>1
    <2>2. CASE orders'[o] # orders[o]
      <3>1. PICK c \in Clients : pc[c] = "commit" /\ Publish(c)
        BY <2>2, OnlyCommitMoves
      <3>2. req[c].order = o /\ req[c].op \in StatusOps \cup {"CreateOrder"}
        BY <2>2, <3>1, PublishEffect DEF Consistent, Right, RightStatement
      <3>3. EventOf(req[c].op) # event
        BY <1>2, <3>1, <3>2, EventsOfOps
      <3> QED
        BY <1>2, <3>1, <3>2, <3>3, NewlyReached
    <2> QED
      BY <2>1, <2>2
  <1>3. ASSUME NEW c \in Clients, pc[c] = "commit", Publish(c), req[c].op \in InventoryOps,
               AppendTo(Logs, req[c].order, ToStatus(req[c].op))
        PROVE  TrueLog(t, o)'
    <2> DEFINE event == EventOf(req[c].op)
    <2>1. req[c].op \in StatusOps \cup {"CreateOrder"}
      BY <1>3 DEF InventoryOps, StatusOps
    <2>2. event = ToStatus(req[c].op) /\ event \in Events /\ req[c].order \in OrderIds
      BY <1>3, <2>1, EventsOfOps, PublishEffect
    <2>3. CASE req[c].order = o
      <3>1. /\ ~Reached(orders[o], event) /\ Reached(orders'[o], event)
            /\ \A other \in StockEvents \ {event} :
                 Reached(orders'[o], other) => Reached(orders[o], other)
        BY <1>3, <2>3, NewlyReached
      <3>2. ~InLog(t, o, event)
        BY <1>1, <2>2, <3>1 DEF TrueLog
      <3>3. AppendTo(Logs, o, event)
        BY <1>3, <2>2, <2>3
      <3> HIDE DEF event
      <3> QED
        BY <1>1, <2>2, <3>1, <3>2, <3>3, LongerLog
    <2>4. CASE req[c].order # o
      <3>1. journal'[t][o] = journal[t][o]
        BY <1>1, <1>3, <2>2, <2>4, OtherLogs
      <3>2. orders'[o] = orders[o]
        BY <1>3, <2>4, PublishEffect
      <3> QED
        BY <1>1, <3>1, <3>2, SameLog
    <2> QED
      BY <2>3, <2>4
  <1>4. ASSUME NEW c \in Clients, AppendAfterCommit(c),
               AppendTo({Head(pending[c])}, req[c].order, EventOf(req[c].op))
        PROVE  TrueLog(t, o)'
    <2> DEFINE event == EventOf(req[c].op)
               head == Head(pending[c])
    <2>1. pc[c] = "after" /\ orders' = orders
      BY <1>4 DEF AppendAfterCommit
    <2>2. req[c].order \in OrderIds /\ event \in Events /\ Reached(orders[req[c].order], event)
      BY <2>1, OwedIsReached, EventsOfOps
    <2>3. CASE t = head /\ req[c].order = o
      <3>1. Due(c, t)
        <4>1. pending[c] \in Seq(Tables) /\ pending[c] # <<>>
          BY <2>1 DEF Consistent, TypeOK, ClientTypeOK, Right, RightStatement
        <4> QED
          BY <2>1, <2>3, <4>1, TailOf DEF Due
      <3>2. ~InLog(t, o, event)
        BY <2>3, <3>1 DEF Journals, AppendsAreNew, Owes
      <3>3. AppendTo({head}, o, event) /\ t \in {head}
        BY <1>4, <2>3
      <3> HIDE DEF event, head
      <3> QED
        BY <1>1, <2>1, <2>2, <2>3, <3>2, <3>3, LongerLog
    <2>4. CASE ~(t = head /\ req[c].order = o)
      <3>1. AppendTo({head}, req[c].order, event) /\ (t \notin {head} \/ o # req[c].order)
        BY <1>4, <2>4
      <3> HIDE DEF event, head
      <3>2. journal'[t][o] = journal[t][o]
        BY <1>1, <2>2, <3>1, OtherLogs
      <3> QED
        BY <1>1, <2>1, <3>2, SameLog
    <2> QED
      BY <2>3, <2>4
  <1>5. CASE UNCHANGED journal
    <2>1. ASSUME NEW c \in Clients, pc[c] = "commit", Publish(c), req[c].order = o, req[c].op \in InventoryOps
          PROVE  TrueLog(t, o)'
      <3>1. AppendTo(Logs, req[c].order, ToStatus(req[c].op))
        BY <2>1 DEF Publish, PublishStatus, InventoryOps, Logs
      <3> QED
        BY <1>3, <2>1, <3>1
    <2>2. CASE ~ \E c \in Clients : pc[c] = "commit" /\ Publish(c) /\ req[c].order = o /\ req[c].op \in InventoryOps
      BY <1>1, <1>2, <1>5, <2>2, SameLog
    <2> QED
      BY <2>1, <2>2
  <1> QED
    BY <1>3, <1>4, <1>5, JournalMoves

-----------------------------------------------------------------------------
(* What is owed *)

\* What a handler still owes it owed before, or it commits just now.
LEMMA DueBefore ==
  ASSUME Consistent, AppendsAreNew, [Next]_vars, NEW c \in Clients, NEW t \in Logs, Due(c, t)'
  PROVE  \/ Commit(c)
         \/ /\ Due(c, t) /\ req'[c] = req[c]
            /\ \A i, j \in DOMAIN pending'[c] : pending'[c][i] = pending'[c][j] => i = j
            /\ AppendAfterCommit(c) => Head(pending[c]) # t
  <1>1. pc'[c] = "after" /\ \E i \in DOMAIN pending'[c] : pending'[c][i] = t
    BY DEF Due
  <1>2. pc \in [Clients -> Statement] /\ pending \in [Clients -> Seq(Tables)] /\ RightStatement(c)
    BY DEF Consistent, TypeOK, ClientTypeOK, Right
  <1>3. Due(c, t) => \A i, j \in DOMAIN pending[c] : pending[c][i] = pending[c][j] => i = j
    BY DEF AppendsAreNew, Owes
  <1>4. CASE AppendAfterCommit(c)
    <2>1. pc[c] = "after" /\ req' = req /\ pending'[c] = Tail(pending[c])
      BY <1>2, <1>4 DEF AppendAfterCommit
    <2>2. pending[c] \in Seq(Tables) /\ pending[c] # <<>>
      BY <1>2, <2>1 DEF RightStatement
    <2>3. /\ 1 \in DOMAIN pending[c] /\ Head(pending[c]) = pending[c][1]
          /\ \A i \in DOMAIN pending'[c] :
               i + 1 \in DOMAIN pending[c] /\ pending'[c][i] = pending[c][i + 1] /\ i + 1 # 1
      BY <2>1, <2>2, TailOf
    <2>4. DOMAIN pending'[c] \subseteq Nat
      BY <2>1, <2>2
    <2>5. Due(c, t)
      BY <1>1, <2>1, <2>3 DEF Due
    <2>6. Head(pending[c]) # t
      BY <1>1, <1>3, <2>3, <2>5
    <2>7. ASSUME NEW i \in DOMAIN pending'[c], NEW j \in DOMAIN pending'[c], pending'[c][i] = pending'[c][j]
          PROVE  i = j
      <3>1. i + 1 = j + 1
        BY <1>3, <2>3, <2>5, <2>7
      <3>2. i \in Nat /\ j \in Nat
        BY <2>4
      <3> QED
        BY <3>1, <3>2
    <2> QED
      BY <2>1, <2>5, <2>6, <2>7
  <1>5. CASE UNCHANGED <<pc[c], req[c], pending[c]>> /\ ~AppendAfterCommit(c)
    BY <1>1, <1>3, <1>5 DEF Due
  <1> QED
    BY <1>1, <1>4, <1>5, ArrivesAfter

\* A handler that commits owes what no log says and nobody else owes.
LEMMA CommitOwes ==
  ASSUME Journals, StampsFollowStatus, DoneWhenAnswered, Consistent, [Next]_vars,
         NEW c \in Clients, NEW t \in Logs, Commit(c), Due(c, t)'
  PROVE  LET o == req[c].order
             event == EventOf(req[c].op)
         IN  /\ req' = req /\ UNCHANGED journal
             /\ req[c].op \notin InventoryOps
             /\ \A i, j \in DOMAIN pending'[c] : pending'[c][i] = pending'[c][j] => i = j
             /\ ~InLog(t, o, event)
             /\ \A d \in Clients :
                  pc[d] = "after" => ~(req[d].order = o /\ EventOf(req[d].op) = event)
  <1> DEFINE o == req[c].order
             event == EventOf(req[c].op)
             op == req[c].op
  <1>1. /\ pc[c] = "commit" /\ Publish(c) /\ req' = req
        /\ pending'[c] = AppendsAfter(op)
    BY DEF Commit, Consistent, TypeOK, ClientTypeOK
  <1>2. op \in StatusOps \cup {"CreateOrder"} /\ o \in OrderIds
    BY <1>1, PublishEffect DEF Consistent, Right, RightStatement
  <1>3. \E i \in DOMAIN AppendsAfter(op) : AppendsAfter(op)[i] = t
    BY <1>1 DEF Due
  <1>4. op \notin InventoryOps
    <2>1. op \in InventoryOps => AppendsAfter(op) = <<"behavior_events">>
      BY DEF AppendsAfter, InventoryOps
    <2> QED
      BY <1>3, <2>1 DEF Logs
  <1>5. \A i, j \in DOMAIN AppendsAfter(op) : AppendsAfter(op)[i] = AppendsAfter(op)[j] => i = j
    <2>1. \/ AppendsAfter(op) = <<"order_events", "behavior_events", "outbox">>
          \/ AppendsAfter(op) = <<"order_events", "outbox">>
      BY <1>4 DEF AppendsAfter
    <2> QED
      BY <2>1
  <1>6. UNCHANGED journal
    <2>1. CASE op = "CreateOrder"
      BY <1>1, <2>1 DEF Publish, PublishOrder
    <2>2. CASE op # "CreateOrder"
      BY <1>1, <1>4, <2>2 DEF Publish, PublishStatus
    <2> QED
      BY <2>1, <2>2
  <1>7. event \in Events /\ ~Reached(orders[o], event)
    BY <1>1, NewlyReached
  <1>8. ~InLog(t, o, event)
    BY <1>2, <1>7 DEF Journals, LogsAreTrue
  <1>9. ASSUME NEW d \in Clients, pc[d] = "after", req[d].order = o, EventOf(req[d].op) = event
        PROVE  FALSE
    BY <1>7, <1>9, OwedIsReached
  <1> QED
    BY <1>1, <1>4, <1>5, <1>6, <1>8, <1>9

\* An append of one event brings no other.
LEMMA OtherEvent ==
  ASSUME TypeOK, NEW tables, NEW o \in OrderIds, NEW other \in Events, AppendTo(tables, o, other),
         NEW t \in Tables \cap tables, NEW event, event # other, ~InLog(t, o, event)
  PROVE  ~ \E i \in DOMAIN journal'[t][o] : journal'[t][o][i] = event
  <1>1. t \in Tables \cap tables
    OBVIOUS
  <1>2. \A e : InLog(t, o, e)' <=> InLog(t, o, e) \/ e = other
    BY <1>1, AppendedInLog
  <1>3. ~InLog(t, o, event)'
    BY <1>2
  <1> QED
    BY <1>3 DEF InLog

\* Nobody else writes what a handler owes.
LEMMA OwedStaysNew ==
  ASSUME Consistent, AppendsAreNew, DoneWhenAnswered, [Next]_vars,
         NEW c \in Clients, NEW t \in Logs, Due(c, t),
         AppendAfterCommit(c) => Head(pending[c]) # t
  PROVE  ~InLog(t, req[c].order, EventOf(req[c].op))'
         \/ req'[c] # req[c]
  <1> DEFINE o == req[c].order
             event == EventOf(req[c].op)
  <1>1. /\ o \in OrderIds /\ req[c].op \in StatusOps \cup {"CreateOrder"}
        /\ req[c].op \notin InventoryOps /\ ~InLog(t, o, event) /\ t \in Tables /\ TypeOK
    BY OwedIsReached DEF Due, AppendsAreNew, Owes, Logs, Tables, Consistent
  <1>2. event \in Events /\ event \notin StockEvents
    BY <1>1, EventsOfOps
  <1>3. ASSUME journal'[t][o] = journal[t][o], req'[c] = req[c]
        PROVE  ~InLog(t, req[c].order, EventOf(req[c].op))'
    BY <1>1, <1>3 DEF InLog, EventOf
  <1>4. ASSUME NEW tables, NEW other \in Events, AppendTo(tables, o, other), other # event, req'[c] = req[c]
        PROVE  ~InLog(t, req[c].order, EventOf(req[c].op))'
    <2>1. CASE t \notin tables
      <3>1. journal'[t][o] = journal[t][o]
        BY <1>1, <1>4, <2>1, OtherLogs
      <3> QED
        BY <1>3, <1>4, <3>1
    <2>2. CASE t \in tables
      <3>1. t \in Tables \cap tables
        BY <1>1, <2>2
      <3>2. ~ \E i \in DOMAIN journal'[t][o] : journal'[t][o][i] = event
        BY <1>1, <1>4, <3>1, OtherEvent
      <3> QED
        BY <1>4, <3>2 DEF InLog, EventOf
    <2> QED
      BY <2>1, <2>2
  <1>5. ASSUME NEW d \in Clients, pc[d] = "commit", Publish(d), req[d].op \in InventoryOps,
               AppendTo(Logs, req[d].order, ToStatus(req[d].op)), req'[c] = req[c]
        PROVE  ~InLog(t, req[c].order, EventOf(req[c].op))'
    <2>1. req[d].op \in StatusOps \cup {"CreateOrder"} /\ req[d].order \in OrderIds
      BY <1>5, PublishEffect DEF InventoryOps, StatusOps
    <2>2. ToStatus(req[d].op) \in Events /\ ToStatus(req[d].op) # event
      BY <1>2, <1>5, <2>1, EventsOfOps
    <2>3. CASE req[d].order = o
      BY <1>4, <1>5, <2>2, <2>3
    <2>4. CASE req[d].order # o
      <3>1. journal'[t][o] = journal[t][o]
        BY <1>1, <1>5, <2>1, <2>2, <2>4, OtherLogs
      <3> QED
        BY <1>3, <1>5, <3>1
    <2> QED
      BY <2>3, <2>4
  <1>6. ASSUME NEW d \in Clients, AppendAfterCommit(d),
               AppendTo({Head(pending[d])}, req[d].order, EventOf(req[d].op)), req'[c] = req[c]
        PROVE  ~InLog(t, req[c].order, EventOf(req[c].op))'
    <2>1. pc[d] = "after"
      BY <1>6 DEF AppendAfterCommit
    <2>2. req[d].order \in OrderIds /\ EventOf(req[d].op) \in Events
      BY <2>1, OwedIsReached, EventsOfOps
    <2>3. CASE req[d].order # o \/ Head(pending[d]) # t
      <3>1. journal'[t][o] = journal[t][o]
        <4> DEFINE tables == {Head(pending[d])}
        <4>1. t \notin tables \/ o # req[d].order
          BY <2>3
        <4>2. AppendTo(tables, req[d].order, EventOf(req[d].op))
          BY <1>6
        <4> HIDE DEF tables
        <4> QED
          BY <1>1, <2>2, <4>1, <4>2, OtherLogs
      <3> QED
        BY <1>3, <1>6, <3>1
    <2>4. CASE req[d].order = o /\ Head(pending[d]) = t
      <3>1. Due(d, t)
        <4>1. pending[d] \in Seq(Tables) /\ pending[d] # <<>>
          BY <2>1 DEF Consistent, TypeOK, ClientTypeOK, Right, RightStatement
        <4> QED
          BY <2>1, <2>4, <4>1, TailOf DEF Due
      <3>2. EventOf(req[d].op) # event
        BY <1>6, <2>4, <3>1 DEF AppendsAreNew, Owes
      <3>3. AppendTo({Head(pending[d])}, o, EventOf(req[d].op))
        BY <1>6, <2>4
      <3> QED
        BY <1>4, <1>6, <2>2, <3>2, <3>3
    <2> QED
      BY <2>3, <2>4
  <1>7. CASE req'[c] = req[c]
    <2>1. CASE UNCHANGED journal
      BY <1>3, <1>7, <2>1
    <2> QED
      BY <1>5, <1>6, <1>7, <2>1, JournalMoves
  <1> QED
    BY <1>7

LEMMA AppendsStep ==
  ASSUME Journals, StampsFollowStatus, DoneWhenAnswered, Consistent, [Next]_vars
  PROVE  AppendsAreNew'
  <1> SUFFICES ASSUME NEW c \in Clients, NEW t \in Logs, Due(c, t)' PROVE Owes(c, t)'
    BY DEF AppendsAreNew
  <1>1. AppendsAreNew
    BY DEF Journals
  <1>2. /\ req'[c] = req[c] /\ req[c].op \notin InventoryOps
        /\ \A i, j \in DOMAIN pending'[c] : pending'[c][i] = pending'[c][j] => i = j
    BY <1>1, DueBefore, CommitOwes DEF AppendsAreNew, Owes
  <1>3. ~InLog(t, req[c].order, EventOf(req[c].op))'
    <2>1. CASE Commit(c)
      BY <2>1, CommitOwes DEF InLog, EventOf
    <2>2. CASE ~Commit(c)
      BY <1>1, <1>2, <2>2, DueBefore, OwedStaysNew
    <2> QED
      BY <2>1, <2>2
  <1>4. ASSUME NEW d \in Clients, Due(d, t)',
               req'[d].order = req'[c].order, EventOf(req'[d].op) = EventOf(req'[c].op)
        PROVE  c = d
    <2>1. req'[d] = req[d]
      BY <1>1, <1>4, DueBefore, CommitOwes
    <2>2. req[d].order = req[c].order /\ EventOf(req[d].op) = EventOf(req[c].op)
      BY <1>2, <1>4, <2>1
    <2>3. CASE Commit(c) /\ ~Commit(d)
      BY <1>1, <1>4, <2>2, <2>3, DueBefore, CommitOwes DEF Due
    <2>4. CASE ~Commit(c) /\ Commit(d)
      BY <1>1, <1>4, <2>2, <2>4, DueBefore, CommitOwes DEF Due
    <2>5. CASE Commit(c) /\ Commit(d)
      <3>1. pc[d] = "commit" /\ Publish(d) /\ pc[c] = "commit" /\ Publish(c)
        BY <2>5 DEF Commit
      <3>2. c # d => orderHolder[req[d].order] = c /\ orderHolder[req[d].order] = d
        BY <2>2, <3>1, PublishEffect
      <3> QED
        BY <3>2
    <2>6. CASE ~Commit(c) /\ ~Commit(d)
      BY <1>1, <1>4, <2>2, <2>6, DueBefore DEF AppendsAreNew, Owes
    <2> QED
      BY <2>3, <2>4, <2>5, <2>6
  <1> QED
    BY <1>2, <1>3, <1>4 DEF Owes, EventOf

LEMMA JournalsInit == Init => Journals
  <1> SUFFICES ASSUME Init PROVE Journals
    OBVIOUS
  <1>1. ASSUME NEW t \in Logs, NEW o \in OrderIds
        PROVE  journal[t][o] = <<>> /\ orders[o] = NoOrder
    BY DEF Init, Logs, Tables
  <1>2. ASSUME NEW t \in Logs, NEW o \in OrderIds, NEW event
        PROVE  ~InLog(t, o, event) /\ ~Reached(orders[o], event)
    BY <1>1 DEF InLog, Reached, NoOrder
  <1>3. LogsAreTrue
    BY <1>1, <1>2 DEF LogsAreTrue
  <1>4. ASSUME NEW c \in Clients, NEW t \in Logs PROVE ~Due(c, t)
    BY DEF Init, Due
  <1> QED
    BY <1>3, <1>4 DEF Journals, AppendsAreNew

LEMMA JournalsInvariance ==
  Spec => [](Journals /\ StampsFollowStatus /\ DoneWhenAnswered /\ Consistent)
  <1>1. Init => DoneWhenAnswered
    BY DEF Init, DoneWhenAnswered
  <1>2. Journals /\ StampsFollowStatus /\ DoneWhenAnswered /\ Consistent /\ [Next]_vars => Journals'
    BY LogsStep, AppendsStep DEF Journals
  <1> QED
    BY <1>1, <1>2, JournalsInit, DoneStep, StampsTheorem, Invariance, PTL DEF Spec

\* What a true log of an order, whose timestamps tell its history, says.
LEMMA TrueLogTells ==
  ASSUME Journals, StampsFollowStatus, Consistent
  PROVE  JournalIsTrue
  <1> SUFFICES ASSUME NEW t \in Logs, NEW o \in OrderIds
               PROVE  LET log == journal[t][o]
                      IN  /\ \A i, j \in DOMAIN log : log[i] = log[j] => i = j
                          /\ Range(log) \cap Stamped \subseteq orders[o].stamps
                          /\ orders[o].stamps \cap {"PAID", "CANCELLED"} \subseteq Range(log)
                          /\ orders[o].status = "REFUNDED" <=> "REFUNDED" \in Range(log)
    BY DEF JournalIsTrue, Logs
  <1> DEFINE log == journal[t][o]
             order == orders[o]
  <1>1. TrueLog(t, o) /\ log \in Seq(Events)
    BY LogsAreTrueLogs DEF Journals, Consistent, TypeOK, StoreTypeOK, Logs, Tables
  <1>2. \A event : event \in Range(log) <=> InLog(t, o, event)
    BY DEF Range, InLog
  <1>3. \A event \in Range(log) : event \in Events /\ Reached(order, event)
    <2>1. \A event \in Range(log) : event \in Events
      BY <1>1 DEF Range
    <2> QED
      BY <1>1, <1>2, <2>1 DEF TrueLog
  <1>4. \A event \in StockEvents : Reached(order, event) => event \in Range(log)
    BY <1>1, <1>2 DEF TrueLog
  <1>5. /\ "PAID" \in order.stamps => Reached(order, "PAID")
        /\ "CANCELLED" \in order.stamps => Reached(order, "CANCELLED")
        /\ order.status = "REFUNDED" <=> Reached(order, "REFUNDED")
    BY DEF StampsFollowStatus, Reached, Stamped
  <1>6. \A event \in Stamped : Reached(order, event) => event \in order.stamps
    BY DEF Reached
  <1>7. \A i, j \in DOMAIN log : log[i] = log[j] => i = j
    BY <1>1 DEF TrueLog
  <1> HIDE DEF log, order
  <1>8. Range(log) \cap Stamped \subseteq order.stamps
    BY <1>3, <1>6
  <1>9. order.stamps \cap {"PAID", "CANCELLED"} \subseteq Range(log)
    BY <1>4, <1>5 DEF StockEvents
  <1>10. order.status = "REFUNDED" <=> "REFUNDED" \in Range(log)
    BY <1>3, <1>4, <1>5 DEF StockEvents
  <1> QED
    BY <1>7, <1>8, <1>9, <1>10 DEF log, order

\* The order events and the outbox name every payment, cancellation and refund
\* that was committed and no change that was not, each of them once: the appends
\* in the transaction, those after it that may fail, and those a crash cuts off.
THEOREM JournalTheorem == Spec => []JournalIsTrue
  BY JournalsInvariance, TrueLogTells, PTL

-----------------------------------------------------------------------------
(* The lifecycle of an order *)

OrdersHold == \A o \in OrderIds : orders[o].status # "NONE" => DOMAIN locks[o] # {}

LEMMA OrdersHoldStep == OrdersHold /\ Consistent /\ [Next]_vars => OrdersHold'
  <1> SUFFICES ASSUME OrdersHold, Consistent, [Next]_vars,
                      NEW o \in OrderIds, orders'[o].status # "NONE"
               PROVE  DOMAIN locks'[o] # {}
    BY DEF OrdersHold
  <1>1. CASE orders'[o] = orders[o] /\ locks'[o] = locks[o]
    BY <1>1 DEF OrdersHold
  <1>2. CASE ~(orders'[o] = orders[o] /\ locks'[o] = locks[o])
    <2>1. PICK c \in Clients : pc[c] = "commit" /\ Publish(c)
      BY <1>2, OnlyCommitMoves
    <2>2. o = req[c].order /\ (req[c].op = "CreateOrder" \/ req[c].op \in StatusOps)
      BY <1>2, <2>1, PublishEffect DEF Consistent, Right, RightStatement
    <2>3. CASE req[c].op = "CreateOrder"
      <3>1. req[c].items \in Baskets /\ locks'[o] = PlacedLocks(req[c].items)
        BY <2>1, <2>2, <2>3, PublishOrderEffect DEF Publish
      <3>2. req[c].items \in Seq(Item) /\ 1 \in DOMAIN req[c].items
        BY <3>1, ServiceAssumption
      <3> QED
        BY <3>1, <3>2, PlacedLocksType
    <2>4. CASE req[c].op \in StatusOps
      <3>1. CanTransition(orders[o].status, ToStatus(req[c].op)) /\ locks'[o] = Relock(locks[o], req[c].op)
        BY <2>1, <2>2, <2>4, PublishStatusEffect DEF Publish, StatusOps
      <3>2. orders[o].status # "NONE"
        BY <3>1 DEF CanTransition, legalTransitions
      <3>3. DOMAIN locks'[o] = DOMAIN locks[o]
        BY <3>1, RelockType DEF Consistent, TypeOK, StoreTypeOK
      <3> QED
        BY <3>2, <3>3 DEF OrdersHold
    <2> QED
      BY <2>2, <2>3, <2>4
  <1> QED
    BY <1>1, <1>2

\* The variables of OrderLifecycle, as OrderProperties maps them.
Statuses == [o \in OrderIds |-> orders[o].status]
Holdings == [o \in OrderIds |-> {locks[o][i].status : i \in DOMAIN locks[o]}]

StateOf(status) ==
  CASE status = "CREATED" -> "locked"
    [] status \in {"CANCELLED", "REFUNDED"} -> "released"
    [] OTHER -> "confirmed"

Recorded(order) == [e \in StockEvents |-> IF Reached(order, e) THEN "once" ELSE "never"]

LEMMA OnceOrNever ==
  ASSUME NEW log, NEW event, \A i, j \in DOMAIN log : log[i] = log[j] => i = j
  PROVE  HowOften(log, event) = IF \E i \in DOMAIN log : log[i] = event THEN "once" ELSE "never"
  <1> DEFINE places == {i \in DOMAIN log : log[i] = event}
  <1>1. CASE places = {}
    BY <1>1 DEF HowOften
  <1>2. CASE places # {}
    <2>1. PICK i \in places : places = {i}
      BY <1>2
    <2> QED
      BY <2>1 DEF HowOften
  <1> QED
    BY <1>1, <1>2

\* What the abstract variables are, as long as the invariants hold.
LEMMA RecordsTell ==
  ASSUME LogsAreTrue, NEW t \in Logs
  PROVE  Records(t) = [o \in OrderIds |-> Recorded(orders[o])]
  <1> SUFFICES ASSUME NEW o \in OrderIds, NEW e \in StockEvents
               PROVE  HowOften(journal[t][o], e) = IF Reached(orders[o], e) THEN "once" ELSE "never"
    BY DEF Records, Recorded, StockEvents
  <1>1. TrueLog(t, o) /\ e \in Events
    BY LogsAreTrueLogs DEF StockEvents, Events, OrderStatuses
  <1>2. \A i, j \in DOMAIN journal[t][o] : journal[t][o][i] = journal[t][o][j] => i = j
    BY <1>1 DEF TrueLog
  <1>3. (\E i \in DOMAIN journal[t][o] : journal[t][o][i] = e) <=> Reached(orders[o], e)
    BY <1>1 DEF TrueLog, InLog
  <1> QED
    BY <1>2, <1>3, OnceOrNever

LEMMA HoldingsTell ==
  ASSUME OrdersHold, LocksFollowStatus, NEW o \in OrderIds, orders[o].status # "NONE"
  PROVE  Holdings[o] = {StateOf(orders[o].status)}
  <1>1. \A i \in DOMAIN locks[o] : locks[o][i].status = StateOf(orders[o].status)
    BY DEF LocksFollowStatus, StateOf
  <1>2. DOMAIN locks[o] # {}
    BY DEF OrdersHold
  <1> QED
    BY <1>1, <1>2 DEF Holdings

LifecycleInv ==
  OrdersHold /\ LocksFollowStatus /\ Journals /\ StampsFollowStatus /\ DoneWhenAnswered /\ Consistent

Mapped ==
  /\ \A o \in OrderIds : orders[o].status # "NONE" => Holdings[o] = {StateOf(orders[o].status)}
  /\ \A t \in Logs : Records(t) = [o \in OrderIds |-> Recorded(orders[o])]

LEMMA LifecycleMapped == LifecycleInv => Mapped
  BY RecordsTell, HoldingsTell DEF LifecycleInv, Mapped, Journals

LEMMA LifecycleInvariance == Spec => []LifecycleInv
  <1>1. Init => OrdersHold
    BY DEF Init, OrdersHold, NoOrder
  <1> QED
    BY <1>1, OrdersHoldStep, LocksTheorem, JournalsInvariance, Invariance, PTL DEF Spec, LifecycleInv

LEMMA LifecycleInit == Init => Lifecycle!Init
  <1> SUFFICES ASSUME Init PROVE Lifecycle!Init
    OBVIOUS
  <1>1. Statuses = [o \in OrderIds |-> "NONE"]
    BY DEF Init, Statuses, NoOrder
  <1>2. Holdings = [o \in OrderIds |-> {}]
    BY DEF Init, Holdings
  <1>3. ASSUME NEW t \in Logs
        PROVE  Records(t) = [o \in OrderIds |-> [e \in StockEvents |-> "never"]]
    <2>1. ASSUME NEW o \in OrderIds, NEW e PROVE HowOften(journal[t][o], e) = "never"
      <3>1. journal[t][o] = <<>>
        BY DEF Init, Logs, Tables
      <3> QED
        BY <3>1 DEF HowOften
    <2> QED
      BY <2>1 DEF Records, StockEvents
  <1> QED
    BY <1>1, <1>2, <1>3 DEF Lifecycle!Init, Lifecycle!Recorded, Statuses, Holdings, Logs, StockEvents

\* What one COMMIT does to the abstract variables.
LEMMA CommitMapped ==
  ASSUME LifecycleInv, Mapped, Mapped', [Next]_vars, NEW c \in Clients, pc[c] = "commit", Publish(c)
  PROVE  LET o == req[c].order
             event == EventOf(req[c].op)
             to == orders'[o].status
         IN  /\ o \in OrderIds
             /\ Statuses' = [Statuses EXCEPT ![o] = to]
             /\ Holdings' = [Holdings EXCEPT ![o] = {StateOf(to)}]
             /\ \A t \in Logs :
                  /\ event \in StockEvents =>
                       Records(t)[o][event] = "never" /\ Records(t)' = [Records(t) EXCEPT ![o][event] = "once"]
                  /\ event \notin StockEvents => Records(t)' = Records(t)
  <1> DEFINE o == req[c].order
             event == EventOf(req[c].op)
             to == orders'[o].status
  <1>1. /\ o \in OrderIds /\ to # "NONE"
        /\ \A p \in OrderIds \ {o} : orders'[p] = orders[p] /\ locks'[p] = locks[p]
    BY PublishEffect DEF LifecycleInv
  <1>2. Statuses' = [Statuses EXCEPT ![o] = to]
    BY <1>1 DEF Statuses
  <1>3. Holdings' = [Holdings EXCEPT ![o] = {StateOf(to)}]
    <2>1. Holdings'[o] = {StateOf(to)}
      BY <1>1 DEF Mapped
    <2>2. \A p \in OrderIds \ {o} : Holdings'[p] = Holdings[p]
      BY <1>1 DEF Holdings
    <2>3. Holdings' = [p \in OrderIds |-> Holdings'[p]] /\ Holdings = [p \in OrderIds |-> Holdings[p]]
      BY DEF Holdings
    <2> QED
      BY <1>1, <2>1, <2>2, <2>3
  <1>4. /\ ~Reached(orders[o], event) /\ Reached(orders'[o], event)
        /\ \A other \in StockEvents \ {event} : Reached(orders'[o], other) <=> Reached(orders[o], other)
    BY <1>1, NewlyReached, ReachedStays DEF LifecycleInv
  <1>5. /\ event \in StockEvents =>
             /\ Recorded(orders[o])[event] = "never"
             /\ Recorded(orders'[o]) = [Recorded(orders[o]) EXCEPT ![event] = "once"]
        /\ event \notin StockEvents => Recorded(orders'[o]) = Recorded(orders[o])
    <2>1. CASE event \in StockEvents
      BY <1>4, <2>1 DEF Recorded
    <2>2. CASE event \notin StockEvents
      BY <1>4, <2>2 DEF Recorded
    <2> QED
      BY <2>1, <2>2
  <1>6. ASSUME NEW t \in Logs
        PROVE  /\ event \in StockEvents =>
                    Records(t)[o][event] = "never" /\ Records(t)' = [Records(t) EXCEPT ![o][event] = "once"]
               /\ event \notin StockEvents => Records(t)' = Records(t)
    <2> DEFINE before(p) == Recorded(orders[p])
               after(p) == Recorded(orders'[p])
    <2>1. Records(t) = [p \in OrderIds |-> before(p)] /\ Records(t)' = [p \in OrderIds |-> after(p)]
      BY DEF Mapped, Recorded, Reached
    <2>2. \A p \in OrderIds \ {o} : after(p) = before(p)
      BY <1>1
    <2>3. /\ event \in StockEvents => before(o)[event] = "never" /\ after(o) = [before(o) EXCEPT ![event] = "once"]
          /\ event \notin StockEvents => after(o) = before(o)
      BY <1>5
    <2> HIDE DEF before, after
    <2> QED
      BY <1>1, <2>1, <2>2, <2>3
  <1> QED
    BY <1>1, <1>2, <1>3, <1>6

\* Every step is a step of some order's lifecycle, or none that it sees.
LEMMA LifecycleStep ==
  ASSUME LifecycleInv, Mapped, Mapped', [Next]_vars
  PROVE  [Lifecycle!Next]_(Lifecycle!vars)
  <1>1. CASE UNCHANGED <<orders, locks>>
    <2>1. Statuses' = Statuses /\ Holdings' = Holdings
      BY <1>1 DEF Statuses, Holdings
    <2>2. ASSUME NEW t \in Logs PROVE Records(t)' = Records(t)
      BY <1>1 DEF Mapped, Recorded, Reached
    <2> QED
      BY <2>1, <2>2 DEF Lifecycle!vars, Statuses, Holdings, Logs
  <1>2. ASSUME NEW c \in Clients, pc[c] = "commit", Publish(c) PROVE Lifecycle!Next
    <2> DEFINE o == req[c].order
               op == req[c].op
               event == EventOf(op)
               to == orders'[o].status
               from == orders[o].status
    <2>1. /\ o \in OrderIds
          /\ Statuses' = [Statuses EXCEPT ![o] = to]
          /\ Holdings' = [Holdings EXCEPT ![o] = {StateOf(to)}]
          /\ \A t \in Logs :
               /\ event \in StockEvents =>
                    Records(t)[o][event] = "never" /\ Records(t)' = [Records(t) EXCEPT ![o][event] = "once"]
               /\ event \notin StockEvents => Records(t)' = Records(t)
      BY <1>2, CommitMapped
    <2>2. op \in StatusOps \cup {"CreateOrder"} /\ Statuses[o] = from
      BY <1>2, <2>1 DEF LifecycleInv, Consistent, Right, RightStatement, Statuses
    <2>3. from # "NONE" => Holdings[o] = {StateOf(from)} /\ Holdings = [Holdings EXCEPT ![o] = {StateOf(from)}]
      BY <2>1 DEF Mapped, Holdings
    <2>4. CASE op = "CreateOrder"
      <3>1. from = "NONE" /\ to = "CREATED" /\ event \notin StockEvents
        BY <1>2, <2>4, PublishOrderEffect DEF Publish, LifecycleInv, EventOf, StockEvents
      <3>2. Lifecycle!Place(o)
        BY <2>1, <2>2, <3>1
           DEF Lifecycle!Place, Lifecycle!Move, Statuses, Holdings, Logs, StateOf
      <3> QED
        BY <2>1, <3>2 DEF Lifecycle!Next, Lifecycle!Place, Lifecycle!Move
    <2>5. CASE op \in StatusOps
      <3>1. CanTransition(from, event) /\ to = event /\ event = ToStatus(op)
        BY <1>2, <2>5, PublishStatusEffect DEF Publish, LifecycleInv, EventOf, StatusOps
      <3>2. from # "NONE"
        BY <3>1 DEF CanTransition, legalTransitions
      <3>3. CASE event \in StockEvents
        <4>1. \A t \in Logs : Records(t)[o][to] = "never" /\ Records(t)' = [Records(t) EXCEPT ![o][to] = "once"]
          BY <2>1, <3>1, <3>3
        <4>2. Lifecycle!MoveStock(o, from, to, StateOf(from), StateOf(to))
          BY <2>1, <2>2, <2>3, <3>2, <4>1
             DEF Lifecycle!MoveStock, Lifecycle!Move, Statuses, Holdings, Logs
        <4>3. \/ from = "CREATED" /\ to = "PAID"
              \/ from = "CREATED" /\ to = "CANCELLED"
              \/ from = "REFUNDING" /\ to = "REFUNDED"
          BY <3>1, <3>3 DEF CanTransition, legalTransitions, StockEvents
        <4>4. Lifecycle!Pay(o) \/ Lifecycle!Cancel(o) \/ Lifecycle!ApproveRefund(o)
          BY <4>2, <4>3
             DEF Lifecycle!Pay, Lifecycle!Cancel, Lifecycle!ApproveRefund, Lifecycle!MoveStock,
                 Lifecycle!Move, StateOf
        <4> QED
          BY <2>1, <4>4
             DEF Lifecycle!Next, Lifecycle!Pay, Lifecycle!Cancel, Lifecycle!ApproveRefund,
                 Lifecycle!MoveStock, Lifecycle!Move
      <3>4. CASE event \notin StockEvents
        <4>1. \/ from = "PAID" /\ to = "SHIPPED"
              \/ from = "SHIPPED" /\ to = "FINISHED"
              \/ from \in {"PAID", "SHIPPED"} /\ to = "REFUNDING"
          BY <3>1, <3>4 DEF CanTransition, legalTransitions, StockEvents
        <4>2. Holdings' = Holdings
          <5>1. StateOf(to) = StateOf(from)
            BY <4>1 DEF StateOf
          <5> QED
            BY <2>1, <2>3, <3>2, <5>1
        <4>3. \A t \in Logs : Records(t)' = Records(t)
          BY <2>1, <3>4
        <4>4. Lifecycle!Carry(o)
          BY <2>1, <2>2, <4>1, <4>2, <4>3
             DEF Lifecycle!Carry, Lifecycle!Move, Statuses, Holdings, Logs
        <4> QED
          BY <2>1, <4>4 DEF Lifecycle!Next, Lifecycle!Carry, Lifecycle!Move
      <3> QED
        BY <3>3, <3>4
    <2> QED
      BY <2>2, <2>4, <2>5
  <1> QED
    BY <1>1, <1>2, OnlyCommitMoves DEF LifecycleInv

\* The statements, rollbacks and crashes of any number of handlers amount, order
\* by order, to the atomic steps of OrderLifecycle: status, stock and records of
\* a payment, a cancellation or a refund move at once, and never twice.
THEOREM Refinement == Spec => ImplementsLifecycle
  <1>1. LifecycleInv /\ LifecycleInv' /\ [Next]_vars => [Lifecycle!Next]_(Lifecycle!vars)
    <2>1. LifecycleInv' => Mapped'
      BY LifecycleMapped, PTL
    <2> QED
      BY <2>1, LifecycleMapped, LifecycleStep
  <1> QED
    BY <1>1, LifecycleInit, LifecycleInvariance, PTL DEF Spec, ImplementsLifecycle, Lifecycle!Spec


-----------------------------------------------------------------------------
(***************************************************************************)
(* A view is never behind itself.                                          *)
(*                                                                         *)
(* ViewIsNotBehind speaks of a finished view.  While it is read, Kept says *)
(* what the order has been through already, by the status and the events   *)
(* the view shows: the status moves along the state machine alone, so what *)
(* was past stays past, and the locks, read last, follow the status.       *)
(***************************************************************************)

Shown == look.events \cup {look.status}

Left(order) == order.status \notin {"NONE", "CREATED"}
GaveBack(order) == order.status \in {"CANCELLED", "REFUNDED"}

LookTypeOK ==
  look \in [order : OrderIds \cup {None}, done : 0 .. 3, status : OrderStatuses \cup {"NONE"},
            events : SUBSET Events, locks : SUBSET {"locked", "confirmed", "released"}]

\* The order of a view has been through what the view shows of it.
Kept ==
  look.done # 0 =>
    /\ look.order \in OrderIds
    /\ Shown \ {"CREATED"} # {} => Left(orders[look.order])
    /\ Shown \cap {"CANCELLED", "REFUNDED"} # {} => GaveBack(orders[look.order])

\* What is still to be read is not shown.
NotYet ==
  /\ look.done = 1 => look.events = {}
  /\ look.done # 3 => look.locks = {}

LooksTrue == LookTypeOK /\ Kept /\ NotYet /\ ViewIsNotBehind

ViewInv == LifecycleInv /\ LooksTrue

LEMMA LifecycleInvStep == LifecycleInv /\ [Next]_vars => LifecycleInv'
  BY OrdersHoldStep, LocksStep, LogsStep, AppendsStep, StampsStep, DoneStep, NextConsistent
     DEF LifecycleInv, Journals

\* None of it depends on how many statements have failed.
LEMMA OnlyFaults ==
  ASSUME LifecycleInv, UNCHANGED <<store, client>>, faults' \in 0 .. MaxFaults
  PROVE  LifecycleInv'
  <1> USE DEF store, client
  <1>1. OrdersHold' /\ LocksFollowStatus' /\ StampsFollowStatus'
    BY DEF LifecycleInv, OrdersHold, LocksFollowStatus, StampsFollowStatus
  <1>2. LogsAreTrue'
    BY DEF LifecycleInv, Journals, LogsAreTrue, InLog, Reached
  <1>3. AppendsAreNew'
    BY DEF LifecycleInv, Journals, AppendsAreNew, Due, Owes, InLog
  <1>4. DoneWhenAnswered'
    BY DEF LifecycleInv, DoneWhenAnswered, Done
  <1>5. TypeOK'
    BY DEF LifecycleInv, Consistent, TypeOK, StoreTypeOK, ClientTypeOK
  <1>6. \A c \in Clients : Right(c)'
    BY DEF LifecycleInv, Consistent, Right, RightStatement, RightRequest, RightLines, RightOrder,
           Placing, Moving
  <1>7. DistinctIds'
    BY DEF LifecycleInv, Consistent, DistinctIds, Placing
  <1> QED
    BY <1>1, <1>2, <1>3, <1>4, <1>5, <1>6, <1>7 DEF LifecycleInv, Journals, Consistent

\* An order that has left CREATED does not return, nor does one whose stock was
\* given back.
LEMMA PastStaysPast ==
  ASSUME LifecycleInv, [Next]_vars, NEW o \in OrderIds
  PROVE  /\ Left(orders[o]) => Left(orders'[o])
         /\ GaveBack(orders[o]) => GaveBack(orders'[o])
  <1>1. CASE UNCHANGED <<orders, locks>>
    BY <1>1
  <1>2. ASSUME NEW c \in Clients, pc[c] = "commit", Publish(c)
        PROVE  orders'[o] = orders[o] \/ \/ orders[o].status = "NONE"
                                         \/ CanTransition(orders[o].status, orders'[o].status)
    <2>1. CASE o # req[c].order
      BY <1>2, <2>1, PublishEffect DEF LifecycleInv
    <2>2. CASE o = req[c].order /\ req[c].op = "CreateOrder"
      BY <1>2, <2>2, PublishOrderEffect DEF Publish, LifecycleInv
    <2>3. CASE o = req[c].order /\ req[c].op \in StatusOps
      <3> DEFINE to == ToStatus(req[c].op)
      <3>1. CanTransition(orders[o].status, to) /\ orders'[o] = Advance(orders[o], to)
        BY <1>2, <2>3, PublishStatusEffect DEF Publish, LifecycleInv, StatusOps
      <3>2. orders'[o].status = to
        BY <3>1 DEF Advance, LifecycleInv, Consistent, TypeOK, StoreTypeOK, Order
      <3> QED
        BY <3>1, <3>2
    <2> QED
      BY <1>2, <2>1, <2>2, <2>3 DEF LifecycleInv, Consistent, Right, RightStatement
  <1>3. \/ orders'[o] = orders[o]
        \/ orders[o].status = "NONE"
        \/ CanTransition(orders[o].status, orders'[o].status)
    BY <1>1, <1>2, OnlyCommitMoves DEF LifecycleInv
  <1> QED
    BY <1>3 DEF Left, GaveBack, CanTransition, legalTransitions

\* What an event of the log says of its order.
LEMMA EventsAreKept ==
  ASSUME LifecycleInv, NEW o \in OrderIds, NEW i \in DOMAIN journal["order_events"][o]
  PROVE  LET event == journal["order_events"][o][i]
         IN  /\ event \in Events
             /\ event # "CREATED" => Left(orders[o])
             /\ event \in {"CANCELLED", "REFUNDED"} => GaveBack(orders[o])
  <1> DEFINE event == journal["order_events"][o][i]
  <1>1. journal["order_events"][o] \in Seq(Events)
    BY DEF LifecycleInv, Consistent, TypeOK, StoreTypeOK, Tables
  <1>2. event \in Events
    BY <1>1
  <1>3. Reached(orders[o], event)
    BY <1>2 DEF LifecycleInv, Journals, LogsAreTrue, InLog, Logs
  <1>4. orders[o].stamps \in SUBSET Stamped
    BY DEF LifecycleInv, Consistent, TypeOK, StoreTypeOK, Order
  <1>5. /\ "PAID" \in orders[o].stamps
             => orders[o].status \in {"PAID", "SHIPPED", "FINISHED", "REFUNDING", "REFUNDED"}
        /\ "SHIPPED" \in orders[o].stamps =>
             orders[o].status \in {"SHIPPED", "FINISHED", "REFUNDING", "REFUNDED"}
        /\ "CANCELLED" \in orders[o].stamps => orders[o].status = "CANCELLED"
        /\ "FINISHED" \in orders[o].stamps => orders[o].status = "FINISHED"
    BY DEF LifecycleInv, StampsFollowStatus
  <1> HIDE DEF event
  <1>6. event # "CREATED" => Left(orders[o])
    BY <1>2, <1>3, <1>5 DEF Reached, Left, Stamped, Events, OrderStatuses
  <1>7. event \in {"CANCELLED", "REFUNDED"} => GaveBack(orders[o])
    BY <1>3, <1>5 DEF Reached, GaveBack, Stamped
  <1> QED
    BY <1>2, <1>6, <1>7 DEF event

\* What the locks of an order say of it.
LEMMA LocksAreKept ==
  ASSUME LifecycleInv, NEW o \in OrderIds, NEW i \in DOMAIN locks[o]
  PROVE  /\ locks[o][i].status \in {"locked", "confirmed", "released"}
         /\ Left(orders[o]) => locks[o][i].status # "locked"
         /\ GaveBack(orders[o]) => locks[o][i].status = "released"
  BY DEF LifecycleInv, LocksFollowStatus, Left, GaveBack

\* The row of an order is read.
LEMMA LookStep ==
  ASSUME LifecycleInv, NEW o \in OrderIds, orders[o].status # "NONE", Look(o)
  PROVE  LooksTrue'
  <1>1. orders[o].status \in OrderStatuses
    BY DEF LifecycleInv, Consistent, TypeOK, StoreTypeOK, Order
  <1>2. look' = [order |-> o, done |-> 1, status |-> orders[o].status, events |-> {}, locks |-> {}]
    BY DEF Look, NoLook
  <1>3. orders' = orders
    BY DEF Look, vars, store
  <1>4. LookTypeOK'
    BY <1>1, <1>2 DEF LookTypeOK
  <1>5. Kept'
    BY <1>1, <1>2, <1>3 DEF Kept, Shown, Left, GaveBack
  <1>6. NotYet' /\ ViewIsNotBehind'
    BY <1>2 DEF NotYet, ViewIsNotBehind, Reads
  <1> QED
    BY <1>4, <1>5, <1>6 DEF LooksTrue

\* What the statements of a view leave of the rest of it.
LEMMA EventsSeen ==
  ASSUME LookTypeOK, NEW seen \in SUBSET Events, look' = [look EXCEPT !.done = 2, !.events = seen]
  PROVE  /\ LookTypeOK'
         /\ look'.order = look.order /\ look'.status = look.status
         /\ look'.done = 2 /\ look'.events = seen /\ look'.locks = look.locks
  <1> DEFINE T == [order : OrderIds \cup {None}, done : 0 .. 3, status : OrderStatuses \cup {"NONE"},
                   events : SUBSET Events, locks : SUBSET {"locked", "confirmed", "released"}]
             next == [look EXCEPT !.done = 2]
  <1>1. next \in T
    BY DEF LookTypeOK
  <1>2. next.order = look.order /\ next.status = look.status /\ next.done = 2 /\ next.locks = look.locks
    BY DEF LookTypeOK
  <1>3. look' = [next EXCEPT !.events = seen]
    OBVIOUS
  <1> HIDE DEF next
  <1>4. look' \in T
    BY <1>1, <1>3
  <1>5. /\ look'.order = next.order /\ look'.status = next.status
        /\ look'.done = next.done /\ look'.events = seen /\ look'.locks = next.locks
    BY <1>1, <1>3
  <1> QED
    BY <1>2, <1>4, <1>5 DEF LookTypeOK

LEMMA LocksSeen ==
  ASSUME LookTypeOK, NEW seen \in SUBSET {"locked", "confirmed", "released"}, look' = [look EXCEPT !.done = 3, !.locks = seen]
  PROVE  /\ LookTypeOK'
         /\ look'.order = look.order /\ look'.status = look.status
         /\ look'.done = 3 /\ look'.locks = seen /\ look'.events = look.events
  <1> DEFINE T == [order : OrderIds \cup {None}, done : 0 .. 3, status : OrderStatuses \cup {"NONE"},
                   events : SUBSET Events, locks : SUBSET {"locked", "confirmed", "released"}]
             next == [look EXCEPT !.done = 3]
  <1>1. next \in T
    BY DEF LookTypeOK
  <1>2. next.order = look.order /\ next.status = look.status /\ next.done = 3 /\ next.events = look.events
    BY DEF LookTypeOK
  <1>3. look' = [next EXCEPT !.locks = seen]
    OBVIOUS
  <1> HIDE DEF next
  <1>4. look' \in T
    BY <1>1, <1>3
  <1>5. /\ look'.order = next.order /\ look'.status = next.status
        /\ look'.done = next.done /\ look'.locks = seen /\ look'.events = next.events
    BY <1>1, <1>3
  <1> QED
    BY <1>2, <1>4, <1>5 DEF LookTypeOK

\* The next statement of a view reads the events or the locks.
LEMMA ReadNextStep ==
  ASSUME ViewInv, ReadNext
  PROVE  LooksTrue' /\ faults' \in 0 .. MaxFaults
  <1> DEFINE o == look.order
  <1>1. /\ LookTypeOK /\ look.done \in 1 .. 2 /\ o \in OrderIds
        /\ UNCHANGED <<store, client>> /\ orders' = orders
        /\ faults \in 0 .. MaxFaults
    BY DEF ViewInv, LooksTrue, ReadNext, Reads, Kept, store, LifecycleInv, Consistent, TypeOK
  <1>2. CASE look.done = 1
    <2> DEFINE log == journal["order_events"][o]
    <2>1. Rows(log) /\ Reads[look.done + 1] = "events"
      BY <1>2 DEF ReadNext, Reads
    <2>2. PICK n \in 0 .. Len(log) :
            /\ faults' = faults \/ (faults < MaxFaults /\ faults' = faults + 1)
            /\ look' = [look EXCEPT !.done = @ + 1, !.events = {log[i] : i \in 1 .. n}]
      BY <2>1 DEF Rows
    <2>3. log \in Seq(Events)
      BY <1>1 DEF ViewInv, LifecycleInv, Consistent, TypeOK, StoreTypeOK, Tables
    <2>4. \A i \in 1 .. n : i \in DOMAIN log
      BY <2>3
    <2>5. /\ look'.order = o /\ look'.done = 2 /\ look'.status = look.status
          /\ look'.events = {log[i] : i \in 1 .. n} /\ look'.locks = {}
          /\ LookTypeOK'
      <3> DEFINE seen == {log[i] : i \in 1 .. n}
      <3>1. seen \in SUBSET Events
        BY <2>3, <2>4
      <3>2. look.locks = {}
        BY <1>2 DEF ViewInv, LooksTrue, NotYet
      <3>3. look' = [look EXCEPT !.done = 2, !.events = seen]
        BY <1>1, <1>2, <2>2
      <3> HIDE DEF log, seen
      <3>4. /\ LookTypeOK'
            /\ look'.order = look.order /\ look'.status = look.status
            /\ look'.done = 2 /\ look'.events = seen /\ look'.locks = look.locks
        BY <1>1, <3>1, <3>3, EventsSeen
      <3> QED
        BY <3>2, <3>4 DEF seen
    <2>6. \A event \in look'.events :
            /\ event # "CREATED" => Left(orders[o])
            /\ event \in {"CANCELLED", "REFUNDED"} => GaveBack(orders[o])
      BY <1>1, <2>4, <2>5, EventsAreKept DEF ViewInv
    <2>7. /\ look.status # "CREATED" => Left(orders[o])
          /\ look.status \in {"CANCELLED", "REFUNDED"} => GaveBack(orders[o])
      <3>1. /\ Shown \ {"CREATED"} # {} => Left(orders[o])
            /\ Shown \cap {"CANCELLED", "REFUNDED"} # {} => GaveBack(orders[o])
        BY <1>2 DEF ViewInv, LooksTrue, Kept
      <3>2. look.status \in Shown
        BY DEF Shown
      <3>3. look.status # "CREATED" => look.status \in Shown \ {"CREATED"}
        BY <3>2
      <3>4. look.status \in {"CANCELLED", "REFUNDED"} => look.status \in Shown \cap {"CANCELLED", "REFUNDED"}
        BY <3>2
      <3> QED
        BY <3>1, <3>3, <3>4
    <2>8. Kept'
      <3>1. Shown' = look'.events \cup {look.status}
        BY <2>5 DEF Shown
      <3>2. Shown' \ {"CREATED"} # {} => Left(orders[o])
        BY <2>6, <2>7, <3>1
      <3>3. Shown' \cap {"CANCELLED", "REFUNDED"} # {} => GaveBack(orders[o])
        BY <2>6, <2>7, <3>1
      <3> QED
        BY <1>1, <2>5, <3>2, <3>3 DEF Kept, Left, GaveBack
    <2>9. NotYet' /\ ViewIsNotBehind'
      BY <2>5 DEF NotYet, ViewIsNotBehind, Reads
    <2>10. faults' \in 0 .. MaxFaults
      BY <1>1, <2>2, ServiceAssumption
    <2> QED
      BY <2>5, <2>8, <2>9, <2>10 DEF LooksTrue
  <1>3. CASE look.done = 2
    <2> DEFINE held == LockStatuses(o)
    <2>1. Rows(held) /\ Reads[look.done + 1] = "locks"
      BY <1>3 DEF ReadNext, Reads
    <2>2. locks[o] \in Seq(Lock)
      BY <1>1 DEF ViewInv, LifecycleInv, Consistent, TypeOK, StoreTypeOK
    <2>3. /\ Len(held) = Len(locks[o])
          /\ \A i \in 1 .. Len(locks[o]) : i \in DOMAIN locks[o] /\ held[i] = locks[o][i].status
      BY <2>2 DEF LockStatuses
    <2>4. PICK n \in 0 .. Len(held) :
            /\ faults' = faults \/ (faults < MaxFaults /\ faults' = faults + 1)
            /\ look' = [look EXCEPT !.done = @ + 1, !.locks = {held[i] : i \in 1 .. n}]
      BY <2>1 DEF Rows
    <2>5. \A lock \in {held[i] : i \in 1 .. n} :
            /\ lock \in {"locked", "confirmed", "released"}
            /\ Left(orders[o]) => lock # "locked"
            /\ GaveBack(orders[o]) => lock = "released"
      <3>1. ASSUME NEW i \in 1 .. n
            PROVE  /\ held[i] \in {"locked", "confirmed", "released"}
                   /\ Left(orders[o]) => held[i] # "locked"
                   /\ GaveBack(orders[o]) => held[i] = "released"
        <4>1. i \in 1 .. Len(locks[o])
          BY <2>2, <2>3
        <4> QED
          BY <1>1, <2>3, <4>1, LocksAreKept DEF ViewInv
      <3> QED
        BY <3>1
    <2>6. /\ look'.order = o /\ look'.done = 3 /\ look'.status = look.status
          /\ look'.events = look.events /\ look'.locks = {held[i] : i \in 1 .. n}
          /\ LookTypeOK'
      <3> DEFINE seen == {held[i] : i \in 1 .. n}
      <3>1. seen \in SUBSET {"locked", "confirmed", "released"}
        BY <2>5
      <3>2. look' = [look EXCEPT !.done = 3, !.locks = seen]
        BY <1>1, <1>3, <2>4
      <3> HIDE DEF held, seen
      <3>3. /\ LookTypeOK'
            /\ look'.order = look.order /\ look'.status = look.status
            /\ look'.done = 3 /\ look'.events = look.events /\ look'.locks = seen
        BY <1>1, <3>1, <3>2, LocksSeen
      <3> QED
        BY <3>3 DEF seen
    <2> HIDE DEF held
    <2>7. Shown' = Shown
      BY <2>6 DEF Shown
    <2>8. /\ Shown \ {"CREATED"} # {} => Left(orders[o])
          /\ Shown \cap {"CANCELLED", "REFUNDED"} # {} => GaveBack(orders[o])
      BY <1>3 DEF ViewInv, LooksTrue, Kept
    <2>9. Kept'
      BY <1>1, <2>6, <2>7, <2>8 DEF Kept, Left, GaveBack
    <2>10. NotYet'
      BY <2>6 DEF NotYet
    <2>11. ViewIsNotBehind'
      <3>1. Shown \ {"CREATED"} # {} => "locked" \notin look'.locks
        BY <2>5, <2>6, <2>8
      <3>2. Shown \cap {"CANCELLED", "REFUNDED"} # {} => look'.locks \subseteq {"released"}
        BY <2>5, <2>6, <2>8
      <3> QED
        BY <2>7, <3>1, <3>2 DEF ViewIsNotBehind, Shown
    <2>12. faults' \in 0 .. MaxFaults
      BY <1>1, <2>4, ServiceAssumption
    <2> QED
      BY <2>6, <2>9, <2>10, <2>11, <2>12 DEF LooksTrue
  <1> QED
    BY <1>1, <1>2, <1>3

LEMMA ViewStep == ViewInv /\ [ViewNext]_views => ViewInv'
  <1> SUFFICES ASSUME ViewInv, [ViewNext]_views PROVE ViewInv'
    OBVIOUS
  <1>1. LifecycleInv /\ LooksTrue
    BY DEF ViewInv
  <1>2. CASE [Next]_vars /\ UNCHANGED look
    <2>1. LifecycleInv'
      BY <1>1, <1>2, LifecycleInvStep
    <2>2. Kept'
      BY <1>1, <1>2, PastStaysPast DEF LooksTrue, Kept, Shown
    <2>3. LookTypeOK' /\ NotYet' /\ ViewIsNotBehind'
      BY <1>1, <1>2 DEF LooksTrue, LookTypeOK, NotYet, ViewIsNotBehind
    <2> QED
      BY <2>1, <2>2, <2>3 DEF ViewInv, LooksTrue
  <1>3. ASSUME NEW o \in OrderIds, orders[o].status # "NONE", Look(o) PROVE ViewInv'
    <2>1. LifecycleInv'
      BY <1>1, <1>3, LifecycleInvStep DEF Look
    <2> QED
      BY <1>1, <1>3, <2>1, LookStep DEF ViewInv
  <1>4. CASE ReadNext
    BY <1>1, <1>4, ReadNextStep, OnlyFaults DEF ViewInv, ReadNext
  <1>5. CASE (\E u \in Users : ListOrders(u)) \/ (\E m \in Merchants : MerchantListOrders(m))
             \/ (\E actor \in Users \cup Merchants : GetOrder(actor))
    BY <1>3, <1>5 DEF ListOrders, MerchantListOrders, GetOrder, listOrders
  <1> QED
    BY <1>2, <1>4, <1>5 DEF ViewNext, views

\* However the statements that put a view together fall between the handlers,
\* and whichever of them fail: the locks of a view are never behind the status
\* and the events it shows.
THEOREM ViewTheorem == ViewSpec => []ViewIsNotBehind
  <1>1. ViewInit => ViewInv
    <2>1. Init => LifecycleInv
      BY InitConsistent, JournalsInit
         DEF LifecycleInv, Init, OrdersHold, NoOrder, LocksFollowStatus, StampsFollowStatus, DoneWhenAnswered
    <2>2. look = NoLook => LooksTrue
      BY DEF LooksTrue, LookTypeOK, Kept, NotYet, ViewIsNotBehind, NoLook, Reads
    <2> QED
      BY <2>1, <2>2 DEF ViewInit, ViewInv
  <1>2. ViewInv => ViewIsNotBehind
    BY DEF ViewInv, LooksTrue
  <1> QED
    BY <1>1, <1>2, ViewStep, PTL DEF ViewSpec

================================================================================
