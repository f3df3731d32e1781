-------------------------- MODULE OutboxRelay_proofs --------------------------
(***************************************************************************)
(* The safety of the relays, for any number of relays, events and faults.  *)
(*                                                                         *)
(* For the copies of an event, those count that a relay adrift, which has  *)
(* lost its transaction, is still to make (Debt): they were owed to its    *)
(* fault when that happened.  Explained bounds the debt by the draft and   *)
(* by the committed row, which is what a rollback comes back to.           *)
(***************************************************************************)
EXTENDS OutboxInvariant, FiniteSetTheorems, TLAPS

-----------------------------------------------------------------------------
LEMMA InitConsistent == Init => RelayConsistent
  <1> SUFFICES ASSUME Init PROVE RelayConsistent
    OBVIOUS
  <1> USE RelayAssumption DEF Init, NoRow
  <1>1. RelayTypeOK
    BY DEF RelayTypeOK, Row, Places
  <1>2. HoldersAreAlive /\ HandIsHeld /\ DraftIsHeld /\ HeldIsPending
    BY DEF HoldersAreAlive, HandIsHeld, InHand, DraftIsHeld, HeldIsPending
  <1>3. SentIsDelivered /\ MarkIsDelivered /\ NothingInHand
    BY DEF SentIsDelivered, MarkIsDelivered, NothingInHand
  <1> QED
    BY <1>1, <1>2, <1>3 DEF RelayConsistent

\* A committed mark is true: a free row is as its draft, a held row is pending.
LEMMA CommittedMarks ==
  ASSUME RelayConsistent
  PROVE  PublishedIsDelivered
  <1> SUFFICES ASSUME NEW e \in Events, outbox[e].published
               PROVE  copies[e] > 0
    BY DEF PublishedIsDelivered
  <1>1. CASE holder[e] = None
    BY <1>1 DEF RelayConsistent, DraftIsHeld, MarkIsDelivered
  <1>2. CASE holder[e] # None
    BY <1>2 DEF RelayConsistent, HeldIsPending
  <1> QED
    BY <1>1, <1>2

-----------------------------------------------------------------------------
(* One lemma per statement of a tick *)

\* The rows of a poll are free and pending, and its relay has nothing else.
LEMMA PollStep ==
  ASSUME RelayConsistent, NEW r \in Relays, Poll(r)
  PROVE  RelayConsistent'
  <1> USE RelayAssumption DEF RelayConsistent, RelayTypeOK, Poll, table
  <1>1. RelayTypeOK'
    BY DEF Row, Places, Polled
  <1>2. HoldersAreAlive'
    <2> SUFFICES ASSUME NEW e \in Events, holder'[e] # None
                 PROVE  Alive(holder[e])'
      BY DEF HoldersAreAlive
    <2>1. CASE e \in Polled
      <3>1. holder'[e] = r
        BY <2>1
      <3>2. pc'[r] = "publish"
        BY <2>1
      <3>3. ~lost'[r]
        BY DEF NothingInHand
      <3> QED
        BY <3>1, <3>2, <3>3 DEF Alive
    <2>2. CASE e \notin Polled
      <3>1. holder'[e] = holder[e] /\ Alive(holder[e]) /\ holder[e] \in Relays
        BY <2>2 DEF HoldersAreAlive
      <3>2. holder[e] # r
        BY <3>1 DEF Alive
      <3> QED
        BY <3>1, <3>2 DEF Alive
    <2> QED
      BY <2>1, <2>2
  <1>3. HandIsHeld' /\ NothingInHand'
    BY DEF HandIsHeld, InHand, NothingInHand, Polled, Skippable
  <1>4. DraftIsHeld' /\ HeldIsPending'
    BY DEF DraftIsHeld, HeldIsPending, Polled, Pending, Skippable
  <1>5. SentIsDelivered' /\ MarkIsDelivered'
    BY DEF SentIsDelivered, MarkIsDelivered
  <1> QED
    BY <1>1, <1>2, <1>3, <1>4, <1>5

\* A confirmed event is in the topic before it counts as sent.
LEMMA PublishStep ==
  ASSUME RelayConsistent, NEW r \in Relays, Publish(r)
  PROVE  RelayConsistent'
  <1> USE RelayAssumption DEF RelayConsistent, RelayTypeOK, Publish, EventDone, table
  <1>1. RelayTypeOK'
    BY DEF Row, Places
  <1>2. HoldersAreAlive'
    BY DEF HoldersAreAlive, Alive
  <1>3. HandIsHeld' /\ NothingInHand'
    BY DEF HandIsHeld, InHand, NothingInHand
  <1>4. DraftIsHeld' /\ HeldIsPending'
    BY DEF DraftIsHeld, HeldIsPending
  <1>5. SentIsDelivered' /\ MarkIsDelivered'
    BY DEF SentIsDelivered, MarkIsDelivered
  <1> QED
    BY <1>1, <1>2, <1>3, <1>4, <1>5

\* A failed event is written to only by a relay that holds it.
LEMMA PublishFailsStep ==
  ASSUME RelayConsistent, NEW r \in Relays, PublishFails(r)
  PROVE  RelayConsistent'
  <1> USE RelayAssumption DEF RelayConsistent, RelayTypeOK, PublishFails, EventDone, table
  <1>1. PICK e \in batch[r], taken \in {0, 1} :
         /\ EventDone(r, e, {})
         /\ copies' = [copies EXCEPT ![e] = @ + taken]
         /\ draft' = IF lost[r] THEN draft ELSE [draft EXCEPT ![e] = Failed(@)]
    OBVIOUS
  <1>2. Failed(draft[e]) \in Row /\ Failed(draft[e]).published = draft[e].published
    <2>1. draft[e] \in Row
      OBVIOUS
    <2> HIDE DEF RelayConsistent, RelayTypeOK, PublishFails, EventDone, table
    <2> QED
      BY <2>1 DEF Failed, Row, Places
  <1>3. ~lost[r] => holder[e] = r
    BY DEF HandIsHeld, InHand
  <1>4. RelayTypeOK'
    BY <1>1, <1>2
  <1>5. HoldersAreAlive'
    BY DEF HoldersAreAlive, Alive
  <1>6. HandIsHeld' /\ NothingInHand'
    BY DEF HandIsHeld, InHand, NothingInHand
  <1>7. DraftIsHeld' /\ HeldIsPending'
    BY <1>1, <1>3 DEF DraftIsHeld, HeldIsPending
  <1>8. SentIsDelivered' /\ MarkIsDelivered'
    BY <1>1, <1>2 DEF SentIsDelivered, MarkIsDelivered
  <1> QED
    BY <1>1, <1>2, <1>3, <1>4, <1>5, <1>6, <1>7, <1>8

\* The ids that are marked were confirmed, and their rows are held.
LEMMA MarkStep ==
  ASSUME RelayConsistent, NEW r \in Relays, MarkPublished(r)
  PROVE  RelayConsistent'
  <1> USE RelayAssumption DEF RelayConsistent, RelayTypeOK, MarkPublished, Marked
  <1>1. RelayTypeOK'
    <2>1. \A e \in Events : [draft[e] EXCEPT !.published = TRUE] \in Row
      <3>1. \A row \in Row : [row EXCEPT !.published = TRUE] \in Row
        BY DEF Row
      <3> QED
        BY <3>1
    <2>2. draft' \in [Events -> Row]
      BY <2>1
    <2> QED
      BY <2>2
  <1>2. HoldersAreAlive'
    BY DEF HoldersAreAlive, Alive
  <1>3. HandIsHeld' /\ NothingInHand'
    BY DEF HandIsHeld, InHand, NothingInHand
  <1>4. \A e \in sent[r] : holder[e] = r /\ copies[e] > 0
    BY DEF HandIsHeld, InHand, SentIsDelivered
  <1>5. DraftIsHeld'
    <2> SUFFICES ASSUME NEW e \in Events, holder[e] = None PROVE draft'[e] = outbox[e]
      BY DEF DraftIsHeld
    <2> e \notin sent[r]
      BY <1>4
    <2> QED
      BY DEF DraftIsHeld
  <1>6. HeldIsPending'
    BY DEF HeldIsPending
  <1>7. SentIsDelivered'
    BY DEF SentIsDelivered
  <1>8. MarkIsDelivered'
    <2> SUFFICES ASSUME NEW e \in Events, draft'[e].published PROVE copies[e] > 0
      BY DEF MarkIsDelivered
    <2>1. CASE e \in sent[r]
      BY <2>1, <1>4
    <2>2. CASE e \notin sent[r]
      BY <2>2 DEF MarkIsDelivered
    <2> QED
      BY <2>1, <2>2
  <1> QED
    BY <1>1, <1>2, <1>3, <1>4, <1>5, <1>6, <1>7, <1>8

\* COMMIT makes drafts rows, and leaves its relay with nothing.
LEMMA CommitStep ==
  ASSUME RelayConsistent, NEW r \in Relays, Commit(r)
  PROVE  RelayConsistent'
  <1> USE RelayAssumption DEF RelayConsistent, RelayTypeOK, Commit, Unlock, EndTick
  <1>1. RelayTypeOK'
    BY DEF Row, Places
  <1>2. HoldersAreAlive'
    BY DEF HoldersAreAlive, Alive
  <1>3. HandIsHeld' /\ NothingInHand'
    BY DEF HandIsHeld, InHand, NothingInHand
  <1>4. DraftIsHeld' /\ HeldIsPending'
    BY DEF DraftIsHeld, HeldIsPending
  <1>5. SentIsDelivered' /\ MarkIsDelivered'
    BY DEF SentIsDelivered, MarkIsDelivered
  <1> QED
    BY <1>1, <1>2, <1>3, <1>4, <1>5

\* A relay that has lost its transaction holds no rows it could forget.
LEMMA NoticeStep ==
  ASSUME RelayConsistent, NEW r \in Relays, NoticeLoss(r)
  PROVE  RelayConsistent'
  <1> USE RelayAssumption DEF RelayConsistent, RelayTypeOK, NoticeLoss, EndTick, table
  <1>1. RelayTypeOK'
    BY DEF Row, Places
  <1>2. HoldersAreAlive'
    BY DEF HoldersAreAlive, Alive
  <1>3. HandIsHeld' /\ NothingInHand'
    BY DEF HandIsHeld, InHand, NothingInHand
  <1>4. DraftIsHeld' /\ HeldIsPending'
    BY DEF DraftIsHeld, HeldIsPending
  <1>5. SentIsDelivered' /\ MarkIsDelivered'
    BY DEF SentIsDelivered, MarkIsDelivered
  <1> QED
    BY <1>1, <1>2, <1>3, <1>4, <1>5

\* A rollback frees the rows and returns them to what was committed.
LEMMA LoseStep ==
  ASSUME RelayConsistent, NEW r \in Relays, LoseTransaction(r)
  PROVE  RelayConsistent'
  <1> USE RelayAssumption DEF RelayConsistent, RelayTypeOK, LoseTransaction, RollBack, Unlock
  <1>1. RelayTypeOK'
    BY DEF Row, Places
  <1>2. HoldersAreAlive'
    BY DEF HoldersAreAlive, Alive
  <1>3. HandIsHeld' /\ NothingInHand'
    BY DEF HandIsHeld, InHand, NothingInHand
  <1>4. DraftIsHeld' /\ HeldIsPending'
    BY DEF DraftIsHeld, HeldIsPending
  <1>5. SentIsDelivered'
    BY DEF SentIsDelivered
  <1>6. MarkIsDelivered'
    <2> SUFFICES ASSUME NEW e \in Events, draft'[e].published PROVE copies[e] > 0
      BY DEF MarkIsDelivered
    <2>1. CASE holder[e] = r
      BY <2>1, CommittedMarks DEF PublishedIsDelivered
    <2>2. CASE holder[e] # r
      BY <2>2 DEF MarkIsDelivered
    <2> QED
      BY <2>1, <2>2
  <1> QED
    BY <1>1, <1>2, <1>3, <1>4, <1>5, <1>6

\* So does a crash.
LEMMA CrashStep ==
  ASSUME RelayConsistent, NEW r \in Relays, Crash(r)
  PROVE  RelayConsistent'
  <1> USE RelayAssumption DEF RelayConsistent, RelayTypeOK, Crash, RollBack, Unlock, EndTick
  <1>1. RelayTypeOK'
    BY DEF Row, Places
  <1>2. HoldersAreAlive'
    BY DEF HoldersAreAlive, Alive
  <1>3. HandIsHeld' /\ NothingInHand'
    BY DEF HandIsHeld, InHand, NothingInHand
  <1>4. DraftIsHeld' /\ HeldIsPending'
    BY DEF DraftIsHeld, HeldIsPending
  <1>5. SentIsDelivered'
    BY DEF SentIsDelivered
  <1>6. MarkIsDelivered'
    <2> SUFFICES ASSUME NEW e \in Events, draft'[e].published PROVE copies[e] > 0
      BY DEF MarkIsDelivered
    <2>1. CASE holder[e] = r
      BY <2>1, CommittedMarks DEF PublishedIsDelivered
    <2>2. CASE holder[e] # r
      BY <2>2 DEF MarkIsDelivered
    <2> QED
      BY <2>1, <2>2
  <1> QED
    BY <1>1, <1>2, <1>3, <1>4, <1>5, <1>6

\* Between two ticks the loop touches no row.
LEMMA LoopStep ==
  ASSUME RelayConsistent, NEW r \in Relays, (Start(r) \/ Wake(r, "tick") \/ Wake(r, "off") \/ PollFails(r))
  PROVE  RelayConsistent'
  <1> USE RelayAssumption DEF RelayConsistent, RelayTypeOK, Start, Wake, PollFails, table
  <1>1. RelayTypeOK'
    BY DEF Row, Places
  <1>2. HoldersAreAlive'
    BY DEF HoldersAreAlive, Alive
  <1>3. HandIsHeld' /\ NothingInHand'
    <2>1. HandIsHeld'
      BY DEF HandIsHeld, InHand
    <2>2. NothingInHand'
      BY DEF NothingInHand
    <2> QED
      BY <2>1, <2>2
  <1>4. DraftIsHeld' /\ HeldIsPending'
    BY DEF DraftIsHeld, HeldIsPending
  <1>5. SentIsDelivered' /\ MarkIsDelivered'
    BY DEF SentIsDelivered, MarkIsDelivered
  <1> QED
    BY <1>1, <1>2, <1>3, <1>4, <1>5

\* A new event is free and not marked.
LEMMA RecordStep ==
  ASSUME RelayConsistent, NEW e \in Events, Record(e)
  PROVE  RelayConsistent'
  <1> USE RelayAssumption DEF RelayConsistent, RelayTypeOK, Record, NoRow, relay
  <1>1. holder[e] = None /\ draft[e] = outbox[e]
    BY DEF HeldIsPending, DraftIsHeld
  <1>2. RelayTypeOK'
    <2>1. \A row \in Row : [row EXCEPT !.place = "outbox"] \in Row
      BY DEF Row, Places
    <2>2. outbox' \in [Events -> Row]
      BY <2>1
    <2>3. draft' \in [Events -> Row]
      BY <2>1
    <2> QED
      BY <2>2, <2>3
  <1>3. DraftIsHeld' /\ HeldIsPending'
    BY <1>1 DEF DraftIsHeld, HeldIsPending, Row
  <1>4. HoldersAreAlive' /\ HandIsHeld' /\ NothingInHand'
    BY DEF HoldersAreAlive, Alive, HandIsHeld, InHand, NothingInHand
  <1>5. SentIsDelivered' /\ MarkIsDelivered'
    BY DEF SentIsDelivered, MarkIsDelivered, Row
  <1> QED
    BY <1>2, <1>3, <1>4, <1>5

-----------------------------------------------------------------------------
LEMMA StepConsistent == RelayConsistent /\ [Next]_vars => RelayConsistent'
  <1> SUFFICES ASSUME RelayConsistent, [Next]_vars
               PROVE  RelayConsistent'
    OBVIOUS
  <1>1. CASE \E e \in Events : Record(e)
    BY <1>1, RecordStep
  <1>2. ASSUME NEW r \in Relays, Tick(r)
        PROVE  RelayConsistent'
    BY <1>2, PollStep, PublishStep, PublishFailsStep, MarkStep, CommitStep, NoticeStep DEF Tick
  <1>3. ASSUME NEW r \in Relays,
               Start(r) \/ Wake(r, "tick") \/ Wake(r, "off") \/ PollFails(r)
        PROVE  RelayConsistent'
    BY <1>3, LoopStep
  <1>4. ASSUME NEW r \in Relays, LoseTransaction(r) \/ Crash(r)
        PROVE  RelayConsistent'
    BY <1>4, LoseStep, CrashStep
  <1>5. CASE UNCHANGED vars
    BY <1>5 DEF vars, table, relay, RelayConsistent, RelayTypeOK, HoldersAreAlive, Alive, HandIsHeld,
                InHand, DraftIsHeld, HeldIsPending, SentIsDelivered, MarkIsDelivered, NothingInHand
  <1> QED
    BY <1>1, <1>2, <1>3, <1>4, <1>5 DEF Next

\* In every reachable state the rows agree with the relays that hold them.
THEOREM RelayInvariance == Spec => []RelayConsistent
  BY InitConsistent, StepConsistent, PTL DEF Spec

\* Every variable keeps its type: tick has no state it does not know.
THEOREM RelayTypes == Spec => []RelayTypeOK
  <1>1. RelayConsistent => RelayTypeOK
    BY DEF RelayConsistent
  <1> QED
    BY <1>1, RelayInvariance, PTL

\* published_at is never set on an event that is not in the broker's topic.
THEOREM MarksAreTrue == Spec => []PublishedIsDelivered
  BY CommittedMarks, RelayInvariance, PTL

\* FOR UPDATE SKIP LOCKED keeps relays with live transactions apart.
THEOREM RelaysAreApart == Spec => []OneRelayPerEvent
  <1>1. RelayConsistent => OneRelayPerEvent
    BY DEF RelayConsistent, HandIsHeld, OneRelayPerEvent, InHand
  <1> QED
    BY <1>1, RelayInvariance, PTL

\* Only a relay that has lost its transaction sends a marked event again.
THEOREM NoSecondPublication == Spec => NoRepublication
  <1> DEFINE Excused(e) == \E r \in Relays : lost[r] /\ e \in batch[r]
  <1>1. ASSUME RelayConsistent, [Next]_vars,
               NEW e \in Events, outbox[e].published, copies'[e] # copies[e]
        PROVE  Excused(e)
    <2> USE <1>1 DEF RelayConsistent, RelayTypeOK
    <2>1. PICK r \in Relays : Publish(r) \/ PublishFails(r)
      BY DEF Next, Tick, vars, Record, Start, Wake, Poll, MarkPublished, Commit, NoticeLoss,
             LoseTransaction, PollFails, Crash
    <2>2. e \in batch[r]
      BY <2>1 DEF Publish, PublishFails, EventDone
    <2>3. ~lost[r] => holder[e] # None
      BY <2>2, RelayAssumption DEF HandIsHeld, InHand
    <2> QED
      BY <2>2, <2>3 DEF HeldIsPending
  <1>2. RelayConsistent /\ [Next]_vars =>
          [\A e \in Events : outbox[e].published /\ copies'[e] # copies[e] => Excused(e)]_vars
    BY <1>1
  <1> QED
    BY <1>2, RelayInvariance, PTL DEF Spec, NoRepublication

-----------------------------------------------------------------------------
(* Copies and what explains them *)

\* A relay without a transaction has still to publish event e.
Adrift(e) == {r \in Relays : lost[r] /\ e \in batch[r]}

\* The copies of an event there are and those that relays adrift will make.
Debt(e) == copies[e] + Cardinality(Adrift(e))

\* Event e is in the topic by right.
Sent(e) == draft[e].published \/ \E r \in Relays : ~lost[r] /\ e \in sent[r]

Explained(e) ==
  /\ Debt(e) <= draft[e].retries + faults + (IF Sent(e) THEN 1 ELSE 0)
  /\ holder[e] # None => Debt(e) <= outbox[e].retries + faults + 1

\* What a relay with a transaction has not published yet has not been written
\* to, and what it has sent is marked before it commits.
InOrder(r) ==
  ~lost[r] =>
    /\ \A e \in batch[r] : draft[e] = outbox[e] /\ draft[e].retries < MaxRetries /\ e \notin sent[r]
    /\ pc[r] = "commit" => \A e \in sent[r] : draft[e].published

CopiesOK ==
  /\ \A r \in Relays : InOrder(r)
  /\ \A e \in Events : IsFiniteSet(Adrift(e)) /\ Explained(e)

LEMMA InOrderStep ==
  ASSUME RelayConsistent, \A r \in Relays : InOrder(r), NEW q \in Relays, [Next]_vars
  PROVE  InOrder(q)'
  <1> USE RelayAssumption DEF RelayConsistent, RelayTypeOK, table
  <1>0. \A e \in Events : \A p \in Relays : e \in InHand(p) /\ ~lost[p] => holder[e] = p
    BY DEF HandIsHeld
  <1>1. CASE \E e \in Events : Record(e)
    <2>1. PICK e \in Events : Record(e)
      BY <1>1
    <2>2. holder[e] = None /\ draft[e] = outbox[e]
      BY <2>1 DEF HeldIsPending, DraftIsHeld, Record, NoRow
    <2>3. batch' = batch /\ sent' = sent /\ pc' = pc /\ lost' = lost
      BY <2>1 DEF Record, relay
    <2>4. \A f \in Events \ {e} : draft'[f] = draft[f] /\ outbox'[f] = outbox[f]
      BY <2>1 DEF Record
    <2>5. ~lost[q] => e \notin InHand(q)
      BY <1>0, <2>2
    <2>6. InOrder(q)
      OBVIOUS
    <2>7. CASE lost[q]
      BY <2>3, <2>7 DEF InOrder
    <2>8. CASE ~lost[q]
      <3>1. \A f \in batch[q] \union sent[q] : draft'[f] = draft[f] /\ outbox'[f] = outbox[f]
        BY <2>4, <2>5, <2>8 DEF InHand
      <3> QED
        BY <2>3, <2>6, <2>8, <3>1 DEF InOrder
    <2> QED
      BY <2>7, <2>8
  <1>2. ASSUME NEW r \in Relays, Start(r) \/ Wake(r, "tick") \/ Wake(r, "off") \/ PollFails(r) PROVE InOrder(q)'
    BY <1>2 DEF InOrder, Start, Wake, PollFails, NothingInHand
  <1>3. ASSUME NEW r \in Relays, Poll(r) PROVE InOrder(q)'
    <2>1. CASE q = r
      <3>1. batch'[q] = Polled /\ sent'[q] = {} /\ draft' = draft /\ outbox' = outbox
        BY <1>3, <2>1 DEF Poll, NothingInHand
      <3>2. \A e \in Polled : draft[e] = outbox[e] /\ draft[e].retries < MaxRetries
        BY DEF Polled, Pending, Skippable, DraftIsHeld
      <3> QED
        BY <3>1, <3>2 DEF InOrder
    <2>2. CASE q # r
      BY <1>3, <2>2 DEF InOrder, Poll
    <2> QED
      BY <2>1, <2>2
  <1>4. ASSUME NEW r \in Relays, Publish(r) PROVE InOrder(q)'
    BY <1>4 DEF InOrder, Publish, EventDone
  <1>5. ASSUME NEW r \in Relays, PublishFails(r) PROVE InOrder(q)'
    <2>1. PICK e \in batch[r], taken \in {0, 1} :
            /\ EventDone(r, e, {})
            /\ draft' = IF lost[r] THEN draft ELSE [draft EXCEPT ![e] = Failed(@)]
      BY <1>5 DEF PublishFails
    <2>2. outbox' = outbox /\ lost' = lost
      BY <1>5 DEF PublishFails
    <2>3. CASE q = r
      <3>1. \A f \in batch'[q] : f \in batch[q] /\ draft'[f] = draft[f]
        BY <2>1, <2>3 DEF EventDone
      <3>2. ~lost[q] => sent'[q] = sent[q] /\ (pc'[q] = "commit" => sent[q] = {})
        BY <2>1, <2>3 DEF EventDone
      <3> QED
        BY <2>2, <3>1, <3>2 DEF InOrder
    <2>4. CASE q # r
      <3>1. \A f \in InHand(q) : ~lost[q] => draft'[f] = draft[f]
        BY <1>0, <2>1, <2>4 DEF InHand
      <3>2. batch'[q] = batch[q] /\ sent'[q] = sent[q] /\ pc'[q] = pc[q]
        BY <2>1, <2>4 DEF EventDone
      <3> QED
        BY <2>2, <3>1, <3>2 DEF InOrder, InHand
    <2> QED
      BY <2>3, <2>4
  <1>6. ASSUME NEW r \in Relays, MarkPublished(r) PROVE InOrder(q)'
    <2>1. CASE q = r
      <3>1. pc[q] = "mark" /\ \A e \in sent[q] : draft'[e].published
        BY <1>6, <2>1 DEF MarkPublished, Marked, Row
      <3>2. ~lost[q] => \A e \in batch[q] : e \notin sent[q]
        BY DEF InOrder
      <3> QED
        BY <1>6, <2>1, <3>1, <3>2 DEF InOrder, MarkPublished, Marked
    <2>2. CASE q # r
      <3>1. \A f \in InHand(q) : ~lost[q] => draft'[f] = draft[f]
        BY <1>0, <1>6, <2>2 DEF MarkPublished, Marked, InHand
      <3> QED
        BY <1>6, <2>2, <3>1 DEF InOrder, MarkPublished, InHand
    <2> QED
      BY <2>1, <2>2
  <1>7. ASSUME NEW r \in Relays, Commit(r) PROVE InOrder(q)'
    <2>1. CASE q = r
      BY <1>7, <2>1 DEF InOrder, Commit, EndTick
    <2>2. CASE q # r
      <3>1. \A f \in InHand(q) : ~lost[q] => outbox'[f] = outbox[f]
        BY <1>0, <1>7, <2>2 DEF Commit, InHand
      <3> QED
        BY <1>7, <2>2, <3>1 DEF InOrder, Commit, EndTick, InHand
    <2> QED
      BY <2>1, <2>2
  <1>8. ASSUME NEW r \in Relays, NoticeLoss(r) PROVE InOrder(q)'
    BY <1>8 DEF InOrder, NoticeLoss, EndTick
  <1>9. ASSUME NEW r \in Relays, LoseTransaction(r) \/ Crash(r) PROVE InOrder(q)'
    <2>1. CASE q = r
      BY <1>9, <2>1 DEF InOrder, LoseTransaction, Crash, EndTick
    <2>2. CASE q # r
      <3>1. \A f \in InHand(q) : ~lost[q] => draft'[f] = draft[f]
        BY <1>0, <1>9, <2>2 DEF LoseTransaction, Crash, RollBack, InHand
      <3>2. outbox' = outbox /\ batch'[q] = batch[q] /\ sent'[q] = sent[q] /\ pc'[q] = pc[q] /\ lost'[q] = lost[q]
        BY <1>9, <2>2 DEF LoseTransaction, Crash, RollBack, EndTick
      <3> QED
        BY <3>1, <3>2 DEF InOrder, InHand
    <2> QED
      BY <2>1, <2>2
  <1>10. CASE UNCHANGED vars
    BY <1>10 DEF InOrder, vars, relay
  <1> QED
    BY <1>1, <1>2, <1>3, <1>4, <1>5, <1>6, <1>7, <1>8, <1>9, <1>10 DEF Next, Tick

-----------------------------------------------------------------------------
LEMMA Removed ==
  ASSUME NEW S, NEW x \in S, IsFiniteSet(S)
  PROVE  IsFiniteSet(S \ {x}) /\ Cardinality(S \ {x}) = Cardinality(S) - 1
  BY FS_RemoveElement

LEMMA Added ==
  ASSUME NEW S, NEW x, NEW T \in SUBSET (S \cup {x}), IsFiniteSet(S)
  PROVE  IsFiniteSet(T) /\ Cardinality(T) \in Nat /\ Cardinality(T) <= Cardinality(S) + 1
  <1>1. IsFiniteSet(S \cup {x}) /\ Cardinality(S \cup {x}) <= Cardinality(S) + 1
    <2>1. Cardinality(S) \in Nat
      BY FS_CardinalityType
    <2>2. /\ IsFiniteSet(S \cup {x})
          /\ Cardinality(S \cup {x}) = IF x \in S THEN Cardinality(S) ELSE Cardinality(S) + 1
      BY FS_AddElement
    <2> QED
      BY <2>1, <2>2
  <1>2. IsFiniteSet(T) /\ Cardinality(T) <= Cardinality(S \cup {x})
    BY <1>1, FS_Subset
  <1>3. Cardinality(S) \in Nat /\ Cardinality(T) \in Nat /\ Cardinality(S \cup {x}) \in Nat
    BY <1>1, <1>2, FS_CardinalityType
  <1> QED
    BY <1>1, <1>2, <1>3

\* Publishing event e, with success or not, in a tick that has it in its batch.
Publishing(r, e) ==
  /\ Publish(r) \/ PublishFails(r)
  /\ e \in batch[r] /\ \A p \in Relays : batch'[p] = IF p = r THEN batch[p] \ {e} ELSE batch[p]
  /\ lost' = lost /\ copies'[e] \in {copies[e], copies[e] + 1}

\* A debt grows when a relay with a transaction publishes the event, or loses
\* the transaction in which it was to.
LEMMA DebtMoves ==
  ASSUME RelayConsistent, [Next]_vars, NEW e \in Events, IsFiniteSet(Adrift(e))
  PROVE  /\ IsFiniteSet(Adrift(e)')
         /\ Debt(e) \in Nat /\ Debt(e)' \in Nat
         /\ \/ Debt(e)' <= Debt(e)
            \/ /\ Debt(e)' <= Debt(e) + 1
               /\ \E r \in Relays : /\ ~lost[r] /\ e \in batch[r]
                                    /\ Publishing(r, e) \/ LoseTransaction(r)
  <1> DEFINE S == Adrift(e)
             T == Adrift(e)'
             n == Cardinality(S)
             m == Cardinality(T)
  <1>1. copies[e] \in Nat /\ copies'[e] \in Nat /\ n \in Nat
    <2>1. n \in Nat
      BY FS_CardinalityType
    <2>2. RelayTypeOK'
      BY StepConsistent DEF RelayConsistent
    <2> QED
      BY <2>1, <2>2 DEF RelayConsistent, RelayTypeOK
  <1>2. Debt(e) = copies[e] + n /\ Debt(e)' = copies'[e] + m
    BY DEF Debt
  <1>3. ASSUME T \subseteq S, copies'[e] = copies[e]
        PROVE  IsFiniteSet(T) /\ m \in Nat /\ Debt(e)' <= Debt(e)
    <2>1. IsFiniteSet(T) /\ m <= n
      BY <1>3, FS_Subset
    <2>2. m \in Nat
      BY <2>1, FS_CardinalityType
    <2> HIDE DEF S, T, n, m
    <2> QED
      BY <1>1, <1>2, <1>3, <2>1, <2>2
  <1>4. ASSUME NEW r \in Relays, Publishing(r, e), lost[r]
        PROVE  IsFiniteSet(T) /\ m \in Nat /\ Debt(e)' <= Debt(e)
    <2>1. r \in S /\ T = S \ {r}
      BY <1>4 DEF Publishing, Adrift, RelayConsistent, RelayTypeOK
    <2>2. IsFiniteSet(T) /\ m = n - 1
      <3> HIDE DEF T
      <3> QED
        BY <2>1, Removed DEF S
    <2>3. m \in Nat
      BY <2>2, FS_CardinalityType
    <2>4. copies'[e] <= copies[e] + 1
      BY <1>1, <1>4 DEF Publishing
    <2> HIDE DEF S, T, n, m
    <2> QED
      BY <1>1, <1>2, <2>2, <2>3, <2>4
  <1>5. ASSUME NEW r \in Relays, Publishing(r, e), ~lost[r]
        PROVE  IsFiniteSet(T) /\ m \in Nat /\ Debt(e)' <= Debt(e) + 1
    <2>1. T \subseteq S
      BY <1>5 DEF Publishing, Adrift
    <2>2. IsFiniteSet(T) /\ m <= n
      BY <2>1, FS_Subset
    <2>3. m \in Nat
      BY <2>2, FS_CardinalityType
    <2>4. copies'[e] <= copies[e] + 1
      BY <1>1, <1>5 DEF Publishing
    <2> HIDE DEF S, T, n, m
    <2> QED
      BY <1>1, <1>2, <2>2, <2>3, <2>4
  <1>6. ASSUME NEW r \in Relays, LoseTransaction(r)
        PROVE  /\ IsFiniteSet(T) /\ m \in Nat
               /\ Debt(e)' <= Debt(e) \/ (Debt(e)' <= Debt(e) + 1 /\ e \in batch[r])
    <2>1. T \subseteq S \cup {r} /\ copies'[e] = copies[e] /\ (e \notin batch[r] => T \subseteq S)
      BY <1>6 DEF LoseTransaction, Adrift, RelayConsistent, RelayTypeOK
    <2>2. CASE e \notin batch[r]
      BY <1>3, <2>1, <2>2
    <2>3. CASE e \in batch[r]
      <3>1. IsFiniteSet(T) /\ m \in Nat /\ m <= n + 1
        <4> HIDE DEF T
        <4> QED
          BY <2>1, Added DEF S
      <3> HIDE DEF S, T, n, m
      <3> QED
        BY <1>1, <1>2, <2>1, <2>3, <3>1
    <2> QED
      BY <2>2, <2>3
  <1>7. \/ T \subseteq S /\ copies'[e] = copies[e]
        \/ \E r \in Relays : Publishing(r, e) \/ LoseTransaction(r)
    <2> USE DEF RelayConsistent, RelayTypeOK
    <2>1. CASE \E f \in Events : Record(f)
      BY <2>1 DEF Record, relay, Adrift
    <2>2. ASSUME NEW r \in Relays, Start(r) \/ Wake(r, "tick") \/ Wake(r, "off") \/ PollFails(r)
          PROVE  T \subseteq S /\ copies'[e] = copies[e]
      BY <2>2 DEF Start, Wake, PollFails, Adrift
    <2>3. ASSUME NEW r \in Relays, Poll(r)
          PROVE  T \subseteq S /\ copies'[e] = copies[e]
      <3>1. lost' = lost /\ ~lost[r] /\ \A p \in Relays \ {r} : batch'[p] = batch[p]
        BY <2>3 DEF Poll, NothingInHand
      <3> QED
        BY <2>3, <3>1 DEF Poll, Adrift
    <2>4. ASSUME NEW r \in Relays, Publish(r) \/ PublishFails(r)
          PROVE  (T \subseteq S /\ copies'[e] = copies[e]) \/ Publishing(r, e)
      <3>1. PICK f \in batch[r] :
              /\ batch' = [batch EXCEPT ![r] = @ \ {f}]
              /\ \E taken \in {0, 1} : copies' = [copies EXCEPT ![f] = @ + taken]
        <4>1. CASE Publish(r)
          BY <4>1 DEF Publish, EventDone
        <4>2. CASE PublishFails(r)
          BY <4>2 DEF PublishFails, EventDone
        <4> QED
          BY <2>4, <4>1, <4>2
      <3>2. lost' = lost
        BY <2>4 DEF Publish, PublishFails
      <3>3. \A p \in Relays : batch'[p] = IF p = r THEN batch[p] \ {f} ELSE batch[p]
        BY <3>1
      <3>4. CASE f = e
        <4>1. copies'[e] \in {copies[e], copies[e] + 1}
          BY <3>1, <3>4
        <4> QED
          BY <2>4, <3>2, <3>3, <3>4, <4>1 DEF Publishing
      <3>5. CASE f # e
        BY <3>1, <3>2, <3>3, <3>5 DEF Adrift
      <3> QED
        BY <3>4, <3>5
    <2>5. ASSUME NEW r \in Relays, MarkPublished(r)
          PROVE  T \subseteq S /\ copies'[e] = copies[e]
      BY <2>5 DEF MarkPublished, Adrift
    <2>6. ASSUME NEW r \in Relays, Commit(r) \/ NoticeLoss(r) \/ Crash(r)
          PROVE  T \subseteq S /\ copies'[e] = copies[e]
      BY <2>6 DEF Commit, NoticeLoss, Crash, EndTick, Adrift
    <2>7. CASE UNCHANGED vars
      BY <2>7 DEF vars, relay, Adrift
    <2> QED
      BY <2>1, <2>2, <2>3, <2>4, <2>5, <2>6, <2>7 DEF Next, Tick
  <1>8. CASE T \subseteq S /\ copies'[e] = copies[e]
    BY <1>1, <1>2, <1>3, <1>8
  <1>9. ASSUME NEW r \in Relays, Publishing(r, e) PROVE
          /\ IsFiniteSet(T) /\ m \in Nat
          /\ Debt(e)' <= Debt(e) \/ (Debt(e)' <= Debt(e) + 1 /\ ~lost[r] /\ e \in batch[r])
    BY <1>4, <1>5, <1>9 DEF Publishing
  <1>10. ASSUME NEW r \in Relays, LoseTransaction(r) PROVE ~lost[r]
    BY <1>10 DEF LoseTransaction
  <1> HIDE DEF S, n, m
  <1>11. ASSUME NEW r \in Relays, Publishing(r, e) \/ LoseTransaction(r) PROVE
          /\ IsFiniteSet(T) /\ m \in Nat
          /\ Debt(e)' <= Debt(e) \/ (Debt(e)' <= Debt(e) + 1 /\ ~lost[r] /\ e \in batch[r])
    BY <1>6, <1>9, <1>10, <1>11
  <1>12. m \in Nat => Debt(e) \in Nat /\ Debt(e)' \in Nat
    BY <1>1, <1>2
  <1> QED
    BY <1>7, <1>3, <1>11, <1>12

LEMMA ExplainedStep ==
  ASSUME RelayConsistent, CopiesOK, [Next]_vars, NEW e \in Events
  PROVE  Explained(e)'
  <1> DEFINE c == Debt(e)
             d == Debt(e)'
             Few == /\ d <= draft'[e].retries + faults' + (IF Sent(e)' THEN 1 ELSE 0)
                    /\ holder'[e] # None => d <= outbox'[e].retries + faults' + 1
  <1>1. /\ c \in Nat /\ d \in Nat
        /\ \/ d <= c
           \/ /\ d <= c + 1
              /\ \E r \in Relays : /\ ~lost[r] /\ e \in batch[r]
                                   /\ Publishing(r, e) \/ LoseTransaction(r)
    BY DebtMoves DEF CopiesOK
  <1>2. /\ c <= draft[e].retries + faults + (IF Sent(e) THEN 1 ELSE 0)
        /\ holder[e] # None => c <= outbox[e].retries + faults + 1
    BY DEF CopiesOK, Explained
  <1>3. SUFFICES Few
    BY DEF Explained
  <1> HIDE DEF c, d
  <1>4. RelayConsistent'
    BY StepConsistent
  <1>5. /\ draft[e].retries \in Nat /\ outbox[e].retries \in Nat /\ faults \in Nat
        /\ draft'[e].retries \in Nat /\ outbox'[e].retries \in Nat /\ faults' \in Nat
    <2>1. draft[e] \in Row /\ outbox[e] \in Row /\ draft'[e] \in Row /\ outbox'[e] \in Row
      BY <1>4 DEF RelayConsistent, RelayTypeOK
    <2>2. faults \in Nat /\ faults' \in Nat
      BY <1>4, RelayAssumption DEF RelayConsistent, RelayTypeOK
    <2> QED
      BY <2>1, <2>2 DEF Row
  <1>6. \A r \in Relays : e \in InHand(r) /\ ~lost[r] => holder[e] = r /\ r # None
    BY RelayAssumption DEF RelayConsistent, HandIsHeld
  <1>7. ASSUME d <= c, draft'[e].retries >= draft[e].retries, faults' >= faults, Sent(e) => Sent(e)',
               \/ holder'[e] = None
               \/ holder'[e] = holder[e] /\ outbox'[e].retries = outbox[e].retries
        PROVE  Few
    BY <1>1, <1>2, <1>5, <1>7
  <1>8. ASSUME NEW r \in Relays, ~lost[r], e \in batch[r]
        PROVE  /\ holder[e] = r /\ draft[e] = outbox[e] /\ draft[e].retries < MaxRetries
               /\ c <= draft[e].retries + faults
    <2>1. holder[e] = r /\ r # None
      BY <1>6, <1>8 DEF InHand
    <2>2. draft[e] = outbox[e] /\ draft[e].retries < MaxRetries /\ e \notin sent[r]
      BY <1>8 DEF CopiesOK, InOrder
    <2>3. ~draft[e].published
      BY <2>1, <2>2 DEF RelayConsistent, HeldIsPending
    <2>4. ~Sent(e)
      BY <1>6, <2>1, <2>2, <2>3 DEF Sent, InHand
    <2> QED
      BY <1>2, <1>5, <2>1, <2>2, <2>4
  <1>9. ASSUME NEW r \in Relays, ~lost[r], e \in batch[r], Publishing(r, e), d <= c + 1
        PROVE  Few
    <2> USE DEF RelayConsistent, RelayTypeOK
    <2>1. CASE Publish(r)
      <3>1. draft' = draft /\ outbox' = outbox /\ faults' = faults /\ holder' = holder /\ lost' = lost
        BY <2>1 DEF Publish, table
      <3>2. PICK f \in batch[r] : EventDone(r, f, {f})
        BY <2>1 DEF Publish
      <3>3. batch'[r] = batch[r] \ {f} /\ batch'[r] = batch[r] \ {e} /\ sent'[r] = sent[r] \cup {f}
        BY <1>9, <3>2 DEF EventDone, Publishing
      <3>4. Sent(e)'
        BY <1>9, <3>1, <3>3 DEF Sent
      <3> QED
        BY <1>1, <1>5, <1>8, <1>9, <3>1, <3>4
    <2>2. CASE PublishFails(r)
      <3>1. outbox' = outbox /\ faults' = faults /\ holder' = holder
        BY <2>2 DEF PublishFails
      <3>2. PICK f \in batch[r] : batch' = [batch EXCEPT ![r] = @ \ {f}] /\ draft' = [draft EXCEPT ![f] = Failed(@)]
        BY <1>9, <2>2 DEF PublishFails, EventDone
      <3>3. f = e
        BY <1>9, <3>2 DEF Publishing
      <3>4. draft'[e] = Failed(draft[e])
        BY <3>2, <3>3
      <3>5. draft[e] \in Row
        OBVIOUS
      <3>6. draft'[e].retries = draft[e].retries + 1
        BY <1>8, <1>9, <3>4, <3>5 DEF Failed, Row
      <3>7. c <= draft[e].retries + faults /\ draft[e] = outbox[e]
        BY <1>8, <1>9
      <3> HIDE DEF RelayConsistent, RelayTypeOK
      <3> QED
        BY <1>1, <1>5, <1>9, <3>1, <3>6, <3>7
    <2> QED
      BY <1>9, <2>1, <2>2 DEF Publishing
  <1>10. ASSUME NEW r \in Relays, LoseTransaction(r) \/ Crash(r), holder[e] = r
         PROVE  d <= c \/ (d <= c + 1 /\ e \in batch[r] /\ ~lost[r]) => Few
    <2>1. draft'[e] = outbox[e] /\ holder'[e] = None /\ faults' = faults + 1
      BY <1>10 DEF LoseTransaction, Crash, RollBack, Unlock, RelayConsistent, RelayTypeOK
    <2>2. c <= outbox[e].retries + faults + 1
      BY <1>2, <1>10, RelayAssumption
    <2>3. e \in batch[r] /\ ~lost[r] => c <= outbox[e].retries + faults
      BY <1>8
    <2> QED
      BY <1>1, <1>5, <2>1, <2>2, <2>3
  <1>11. CASE d <= c
    <2> USE DEF RelayConsistent, RelayTypeOK
    <2>1. ASSUME NEW f \in Events, Record(f) PROVE Few
      <3>1. /\ draft'[e].retries = draft[e].retries /\ draft'[e].published = draft[e].published
            /\ outbox'[e].retries = outbox[e].retries
        BY <2>1 DEF Record, Row
      <3>2. holder' = holder /\ faults' = faults /\ sent' = sent /\ lost' = lost
        BY <2>1 DEF Record, relay
      <3>3. Sent(e) => Sent(e)'
        BY <3>1, <3>2 DEF Sent
      <3> QED
        BY <1>5, <1>7, <1>11, <3>1, <3>2, <3>3
    <2>2. ASSUME NEW r \in Relays, Start(r) \/ Wake(r, "tick") \/ Wake(r, "off") \/ PollFails(r) PROVE Few
      <3>1. draft' = draft /\ outbox' = outbox /\ holder' = holder /\ sent' = sent /\ lost' = lost
        BY <2>2 DEF Start, Wake, PollFails, table
      <3>2. faults' >= faults
        BY <1>5, <2>2 DEF Start, Wake, PollFails
      <3>3. Sent(e) => Sent(e)'
        BY <3>1 DEF Sent
      <3> QED
        BY <1>5, <1>7, <1>11, <3>1, <3>2, <3>3
    <2>3. ASSUME NEW r \in Relays, Poll(r) PROVE Few
      <3>1. draft' = draft /\ outbox' = outbox /\ faults' = faults /\ sent' = sent /\ lost' = lost
        BY <2>3 DEF Poll
      <3>2. Sent(e) => Sent(e)'
        BY <3>1 DEF Sent
      <3>3. CASE e \in Polled
        <4>1. draft[e] = outbox[e]
          BY <3>3 DEF Polled, Skippable, DraftIsHeld
        <4> HIDE DEF RelayConsistent, RelayTypeOK
        <4> QED
          BY <1>1, <1>2, <1>5, <1>11, <3>1, <3>2, <4>1
      <3>4. CASE e \notin Polled
        <4>1. holder'[e] = holder[e]
          BY <2>3, <3>4 DEF Poll
        <4> QED
          BY <1>5, <1>7, <1>11, <3>1, <3>2, <4>1
      <3> QED
        BY <3>3, <3>4
    <2>4. ASSUME NEW r \in Relays, Publish(r) PROVE Few
      <3>1. draft' = draft /\ outbox' = outbox /\ holder' = holder /\ faults' = faults /\ lost' = lost
        BY <2>4 DEF Publish, table
      <3>2. \A p \in Relays : sent[p] \subseteq sent'[p]
        BY <2>4 DEF Publish, EventDone
      <3>3. Sent(e) => Sent(e)'
        BY <3>1, <3>2 DEF Sent
      <3> QED
        BY <1>5, <1>7, <1>11, <3>1, <3>3
    <2>5. ASSUME NEW r \in Relays, PublishFails(r) PROVE Few
      <3>1. outbox' = outbox /\ holder' = holder /\ faults' = faults /\ lost' = lost
        BY <2>5 DEF PublishFails
      <3>2. PICK f \in batch[r] :
              EventDone(r, f, {}) /\ (draft' = draft \/ draft' = [draft EXCEPT ![f] = Failed(@)])
        BY <2>5 DEF PublishFails
      <3>3. \A p \in Relays : sent'[p] = sent[p]
        BY <3>2 DEF EventDone
      <3>4. draft'[e] \in {draft[e], Failed(draft[e])}
        BY <3>2
      <3>5. draft[e] \in Row
        OBVIOUS
      <3>6. draft'[e].published = draft[e].published /\ draft'[e].retries >= draft[e].retries
        <4> HIDE DEF RelayConsistent, RelayTypeOK
        <4> QED
          BY <3>4, <3>5 DEF Failed, Row
      <3>7. Sent(e) => Sent(e)'
        BY <3>1, <3>3, <3>6 DEF Sent
      <3> QED
        BY <1>5, <1>7, <1>11, <3>1, <3>6, <3>7
    <2>6. ASSUME NEW r \in Relays, MarkPublished(r) PROVE Few
      <3>1. /\ outbox' = outbox /\ holder' = holder /\ faults' = faults
            /\ sent' = sent /\ lost' = lost
        BY <2>6 DEF MarkPublished
      <3>2. draft'[e].retries = draft[e].retries /\ (draft[e].published => draft'[e].published)
        BY <2>6 DEF MarkPublished, Row
      <3>3. Sent(e) => Sent(e)'
        BY <3>1, <3>2 DEF Sent
      <3> QED
        BY <1>5, <1>7, <1>11, <3>1, <3>2, <3>3
    <2>7. ASSUME NEW r \in Relays, Commit(r) PROVE Few
      <3>1. draft' = draft /\ faults' = faults
        BY <2>7 DEF Commit
      <3>2. IF holder[e] = r THEN holder'[e] = None ELSE holder'[e] = holder[e] /\ outbox'[e] = outbox[e]
        BY <2>7 DEF Commit, Unlock
      <3>3. \A p \in Relays \ {r} : sent'[p] = sent[p] /\ lost'[p] = lost[p]
        BY <2>7 DEF Commit, EndTick
      <3>4. e \in sent[r] => draft[e].published
        BY <2>7 DEF Commit, CopiesOK, InOrder
      <3>5. Sent(e) => Sent(e)'
        BY <3>1, <3>3, <3>4 DEF Sent
      <3> QED
        BY <1>5, <1>7, <1>11, <3>1, <3>2, <3>5
    <2>8. ASSUME NEW r \in Relays, NoticeLoss(r) PROVE Few
      <3>1. draft' = draft /\ outbox' = outbox /\ holder' = holder /\ faults' = faults
        BY <2>8 DEF NoticeLoss, table
      <3>2. lost[r] /\ \A p \in Relays \ {r} : sent'[p] = sent[p] /\ lost'[p] = lost[p]
        BY <2>8 DEF NoticeLoss, EndTick
      <3>3. Sent(e) => Sent(e)'
        BY <3>1, <3>2 DEF Sent
      <3> QED
        BY <1>5, <1>7, <1>11, <3>1, <3>3
    <2>9. ASSUME NEW r \in Relays, LoseTransaction(r) \/ Crash(r), holder[e] # r PROVE Few
      <3>1. draft'[e] = draft[e] /\ outbox' = outbox /\ holder'[e] = holder[e] /\ faults' = faults + 1
        BY <2>9 DEF LoseTransaction, Crash, RollBack, Unlock
      <3>2. \A p \in Relays \ {r} : sent'[p] = sent[p] /\ lost'[p] = lost[p]
        BY <2>9 DEF LoseTransaction, Crash, EndTick
      <3>3. Sent(e) => Sent(e)'
        BY <1>6, <2>9, <3>1, <3>2 DEF Sent, InHand
      <3> QED
        BY <1>5, <1>7, <1>11, <3>1, <3>3
    <2>10. CASE UNCHANGED vars
      <3>1. /\ draft' = draft /\ outbox' = outbox /\ holder' = holder /\ faults' = faults
            /\ sent' = sent /\ lost' = lost
        BY <2>10 DEF vars, table, relay
      <3>2. Sent(e) => Sent(e)'
        BY <3>1 DEF Sent
      <3> QED
        BY <1>5, <1>7, <1>11, <3>1, <3>2
    <2>11. ASSUME NEW r \in Relays, LoseTransaction(r) \/ Crash(r) PROVE Few
      BY <1>10, <1>11, <2>9, <2>11
    <2> HIDE DEF Few
    <2> QED
      BY <2>1, <2>2, <2>3, <2>4, <2>5, <2>6, <2>7, <2>8, <2>10, <2>11 DEF Next, Tick
  <1>12. ASSUME NEW r \in Relays, ~lost[r], e \in batch[r], LoseTransaction(r), d <= c + 1
         PROVE  Few
    BY <1>8, <1>10, <1>12
  <1> HIDE DEF Few
  <1> QED
    BY <1>1, <1>9, <1>11, <1>12

LEMMA CopiesInvariance == Spec => [](RelayConsistent /\ CopiesOK)
  <1>1. Init => CopiesOK
    <2> SUFFICES ASSUME Init PROVE CopiesOK
      OBVIOUS
    <2>1. \A e \in Events : Adrift(e) = {}
      BY DEF Init, Adrift
    <2>2. \A e \in Events : IsFiniteSet(Adrift(e)) /\ Debt(e) = 0
      BY <2>1, FS_EmptySet DEF Debt, Init
    <2>3. \A e \in Events : Explained(e)
      BY <2>2, RelayAssumption DEF Explained, Init, NoRow, Sent
    <2>4. \A r \in Relays : InOrder(r)
      BY DEF InOrder, Init
    <2> QED
      BY <2>2, <2>3, <2>4 DEF CopiesOK
  <1>2. RelayConsistent /\ CopiesOK /\ [Next]_vars => CopiesOK'
    <2> SUFFICES ASSUME RelayConsistent, CopiesOK, [Next]_vars PROVE CopiesOK'
      OBVIOUS
    <2>1. \A r \in Relays : InOrder(r)'
      BY InOrderStep DEF CopiesOK
    <2>2. \A e \in Events : IsFiniteSet(Adrift(e)')
      BY DebtMoves DEF CopiesOK
    <2>3. \A e \in Events : Explained(e)'
      BY ExplainedStep
    <2> QED
      BY <2>1, <2>2, <2>3 DEF CopiesOK
  <1> QED
    BY <1>1, <1>2, InitConsistent, StepConsistent, PTL DEF Spec

\* Every copy of an event beyond the first is owed to a failure that was
\* counted, a crash or a lost transaction.
THEOREM DuplicatesTheorem == Spec => []DuplicatesAreExplained
  <1>1. ASSUME RelayConsistent, CopiesOK PROVE DuplicatesAreExplained
    <2> SUFFICES ASSUME NEW e \in Events PROVE copies[e] <= 1 + draft[e].retries + faults
      BY DEF DuplicatesAreExplained
    <2>1. Cardinality(Adrift(e)) \in Nat
      BY <1>1, FS_CardinalityType DEF CopiesOK
    <2>2. draft[e].retries \in Nat /\ faults \in Nat /\ copies[e] \in Nat
      BY <1>1, RelayAssumption DEF RelayConsistent, RelayTypeOK, Row
    <2>3. Debt(e) <= draft[e].retries + faults + (IF Sent(e) THEN 1 ELSE 0)
      BY <1>1 DEF CopiesOK, Explained
    <2> QED
      BY <2>1, <2>2, <2>3 DEF Debt
  <1> QED
    BY <1>1, CopiesInvariance, PTL

=============================================================================
