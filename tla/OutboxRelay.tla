----------------------------- MODULE OutboxRelay ------------------------------
(***************************************************************************)
(* The outbox table and the relays that empty it: event/outbox/publisher.go *)
(* over postgres/outbox_repository.go.                                     *)
(*                                                                         *)
(* A tick of a relay is one transaction: it locks a batch of pending rows, *)
(* publishes them one by one, marks what was published and what failed,    *)
(* and commits.  Rows that another relay has locked are skipped.  As in    *)
(* OrderStore a row has a committed version (outbox) and a newest one      *)
(* (draft), which differ only while a transaction holds the row.           *)
(*                                                                         *)
(* PostgreSQL ends a transaction and frees its rows as soon as one of its  *)
(* statements fails or its connection is lost.  The relay notices only at  *)
(* its next statement, and the error of MarkFailedInTx is only logged: it  *)
(* may go on publishing rows it no longer holds.                           *)
(*                                                                         *)
(* The broker is outside the repository: a publication appends a copy of   *)
(* the event to its topic and is confirmed, or it fails, and then the copy *)
(* may be there all the same.                                              *)
(***************************************************************************)
EXTENDS Integers, FiniteSets

CONSTANTS
  Relays,         \* relay processes
  Events,         \* outbox.id, in the order of created_at
  BatchSize,      \* the rows a tick takes at most
  MaxRetries,     \* the publish failures after which an event is given up
  MaxFaults,      \* bounds the crashes and the lost transactions
  None            \* no holder

ASSUME RelayAssumption ==
  /\ Events \subseteq Nat
  /\ BatchSize \in Nat \ {0}
  /\ MaxRetries \in Nat \ {0}
  /\ MaxFaults \in Nat
  /\ None \notin Relays

VARIABLES
  outbox,         \* the rows, committed: table, retry_count, published_at IS NOT NULL
  draft,          \* the rows, newest version
  holder,         \* the relay whose transaction holds a row
  copies,         \* the copies of an event in the broker's topic
  pc,             \* what a relay does next
  batch,          \* the events of its tick that it has still to publish
  sent,           \* the events of its tick the broker has confirmed
  lost,           \* its transaction is gone, and it has not noticed
  faults

table == <<outbox, draft, holder>>
relay == <<pc, batch, sent, lost>>
vars == <<table, copies, relay, faults>>

\* Where a row is: not inserted, in the outbox, or in outbox_dead_letter.
Places == {"nowhere", "outbox", "dead_letter"}

Row == [place : Places, retries : Nat, published : BOOLEAN]

NoRow == [place |-> "nowhere", retries |-> 0, published |-> FALSE]

Init ==
  /\ outbox = [e \in Events |-> NoRow]
  /\ draft = outbox
  /\ holder = [e \in Events |-> None]
  /\ copies = [e \in Events |-> 0]
  /\ pc = [r \in Relays |-> "off"]
  /\ batch = [r \in Relays |-> {}]
  /\ sent = [r \in Relays |-> {}]
  /\ lost = [r \in Relays |-> FALSE]
  /\ faults = 0

-----------------------------------------------------------------------------
(* Rows *)

\* Mutant: only the failures of a row are looked at.
Pending_Unmarked(row) == row.place = "outbox" /\ row.retries < MaxRetries

\* published_at IS NULL AND retry_count < 5
Pending(row) == row.place = "outbox" /\ ~row.published /\ row.retries < MaxRetries

\* Mutant: a SELECT without FOR UPDATE SKIP LOCKED.
Skippable_NoLocks(e) == FALSE

\* SKIP LOCKED
Skippable(e) == holder[e] # None

\* The rows a poll returns: ORDER BY created_at LIMIT n.
Polled ==
  LET ready == {e \in Events : Pending(outbox[e]) /\ ~Skippable(e)}
  IN  {e \in ready : Cardinality({f \in ready : f < e}) < BatchSize}

\* Mutant: the counter goes down.
Failed_CountsDown(row) == [row EXCEPT !.retries = @ - 1]

\* MarkFailedInTx counts the failure, or moves a row that has had its retries.
Failed(row) ==
  IF row.retries < MaxRetries THEN [row EXCEPT !.retries = @ + 1]
                              ELSE [row EXCEPT !.place = "dead_letter"]

-----------------------------------------------------------------------------
(* Transactions *)

Unlock(r) == holder' = [e \in Events |-> IF holder[e] = r THEN None ELSE holder[e]]

\* Mutant: the rows stay locked.
RollBack_Locked(r) == UNCHANGED table

RollBack(r) ==
  /\ draft' = [e \in Events |-> IF holder[e] = r THEN outbox[e] ELSE draft[e]]
  /\ UNCHANGED outbox
  /\ Unlock(r)

\* Relay r has no tick any more and is at the given place.
EndTick(r, where) ==
  /\ pc' = [pc EXCEPT ![r] = where]
  /\ batch' = [batch EXCEPT ![r] = {}]
  /\ sent' = [sent EXCEPT ![r] = {}]
  /\ lost' = [lost EXCEPT ![r] = FALSE]

-----------------------------------------------------------------------------
(* The relay *)

\* A handler commits a transaction with event e.
Record(e) ==
  /\ outbox[e] = NoRow
  /\ outbox' = [outbox EXCEPT ![e].place = "outbox"]
  /\ draft' = [draft EXCEPT ![e].place = "outbox"]
  /\ UNCHANGED <<holder, copies, relay, faults>>

\* The loop ticks at once when it starts, ...
Start(r) ==
  /\ pc[r] = "off"
  /\ pc' = [pc EXCEPT ![r] = "tick"]
  /\ UNCHANGED <<table, copies, batch, sent, lost, faults>>

\* ... then at every interval, and stops between two ticks.
Wake(r, where) ==
  /\ pc[r] = "wait"
  /\ pc' = [pc EXCEPT ![r] = where]
  /\ UNCHANGED <<table, copies, batch, sent, lost, faults>>

\* BeginTx, PollPendingInTx.
Poll(r) ==
  /\ pc[r] = "tick"
  /\ holder' = [e \in Events |-> IF e \in Polled THEN r ELSE holder[e]]
  /\ batch' = [batch EXCEPT ![r] = Polled]
  /\ pc' = [pc EXCEPT ![r] = IF Polled = {} THEN "wait" ELSE "publish"]
  /\ UNCHANGED <<outbox, draft, copies, sent, lost, faults>>

\* The first event of the batch is dealt with.
EventDone(r, e, confirmed) ==
  /\ e \in batch[r]
  /\ \A f \in batch[r] : e <= f
  /\ batch' = [batch EXCEPT ![r] = @ \ {e}]
  /\ sent' = [sent EXCEPT ![r] = @ \cup confirmed]
  /\ pc' = [pc EXCEPT ![r] = CASE batch[r] # {e} -> "publish"
                               [] batch[r] = {e} /\ sent[r] \cup confirmed = {} -> "commit"
                               [] OTHER -> "mark"]

\* One call of the writer is one copy at most; its own attempts are left out.
Publish(r) ==
  /\ pc[r] = "publish"
  /\ \E e \in batch[r] :
       /\ EventDone(r, e, {e})
       /\ copies' = [copies EXCEPT ![e] = @ + 1]
  /\ UNCHANGED <<table, lost, faults>>

\* Publish returns an error, whether the broker has taken the event or not.
\* MarkFailedInTx writes to the row if there is still a transaction.
PublishFails(r) ==
  /\ pc[r] = "publish"
  /\ \E e \in batch[r], taken \in {0, 1} :
       /\ EventDone(r, e, {})
       /\ copies' = [copies EXCEPT ![e] = @ + taken]
       /\ draft' = IF lost[r] THEN draft ELSE [draft EXCEPT ![e] = Failed(@)]
  /\ UNCHANGED <<outbox, holder, lost, faults>>

\* Mutant: the whole batch is marked, with what failed.
Marked_WholeBatch(r) == {e \in Events : holder[e] = r}

\* The ids MarkPublishedInTx is called with.
Marked(r) == sent[r]

\* MarkPublishedInTx.
MarkPublished(r) ==
  /\ pc[r] = "mark"
  /\ ~lost[r]
  /\ draft' = [e \in Events |-> IF e \in Marked(r) THEN [draft[e] EXCEPT !.published = TRUE]
                                                  ELSE draft[e]]
  /\ pc' = [pc EXCEPT ![r] = "commit"]
  /\ UNCHANGED <<outbox, holder, copies, batch, sent, lost, faults>>

Commit(r) ==
  /\ pc[r] = "commit"
  /\ ~lost[r]
  /\ outbox' = [e \in Events |-> IF holder[e] = r THEN draft[e] ELSE outbox[e]]
  /\ Unlock(r)
  /\ EndTick(r, "wait")
  /\ UNCHANGED <<draft, copies, faults>>

\* MarkPublishedInTx, or COMMIT, fails because the transaction is gone.
NoticeLoss(r) ==
  /\ pc[r] \in {"mark", "commit"}
  /\ lost[r]
  /\ EndTick(r, "wait")
  /\ UNCHANGED <<table, copies, faults>>

-----------------------------------------------------------------------------
(* Failures *)

\* A statement of the transaction fails, or the connection is lost.
LoseTransaction(r) ==
  /\ pc[r] \in {"publish", "mark", "commit"}
  /\ ~lost[r]
  /\ faults < MaxFaults
  /\ faults' = faults + 1
  /\ RollBack(r)
  /\ lost' = [lost EXCEPT ![r] = TRUE]
  /\ UNCHANGED <<copies, pc, batch, sent>>

\* BeginTx or PollPendingInTx returns an error: nothing this tick.
PollFails(r) ==
  /\ pc[r] = "tick"
  /\ faults < MaxFaults
  /\ faults' = faults + 1
  /\ pc' = [pc EXCEPT ![r] = "wait"]
  /\ UNCHANGED <<table, copies, batch, sent, lost>>

Crash(r) ==
  /\ pc[r] # "off"
  /\ faults < MaxFaults
  /\ faults' = faults + 1
  /\ RollBack(r)
  /\ EndTick(r, "off")
  /\ UNCHANGED copies

-----------------------------------------------------------------------------

Tick(r) ==
  Poll(r) \/ Publish(r) \/ PublishFails(r) \/ MarkPublished(r) \/ Commit(r) \/ NoticeLoss(r)

Next ==
  \/ \E e \in Events : Record(e)
  \/ \E r \in Relays :
       \/ Start(r) \/ Tick(r) \/ Wake(r, "tick") \/ Wake(r, "off")
       \/ LoseTransaction(r) \/ PollFails(r) \/ Crash(r)

Spec == Init /\ [][Next]_vars

\* The process is started again, the timer fires or the loop is stopped, and
\* the server and the broker answer, with success or an error.
Fairness == \A r \in Relays : WF_vars(Start(r) \/ Tick(r) \/ Wake(r, "tick"))

FairSpec == Spec /\ Fairness

=============================================================================
