----------------------------- MODULE EventConsumer -----------------------------
(***************************************************************************)
(* The consumers of one partition of an event topic: event/kafka/consumer.go *)
(* over a consumer group of the broker.                                    *)
(*                                                                         *)
(* A consumer fetches a record, decodes it, asks its deduplicator whether  *)
(* the event was processed, calls the handler, marks the event and commits *)
(* the record's offset; a record that does not decode, or whose handler    *)
(* fails, is written to the dead letter topic instead.  Every error ends   *)
(* Start.  Each call is a step, so that a crash, a rebalance or the other  *)
(* consumers come between any two.                                         *)
(*                                                                         *)
(* The relay publishes an event once or more (OutboxRelay); the key is its *)
(* id, so that its copies are records of one partition.  The broker is     *)
(* outside the repository: it gives the partition to one member of the     *)
(* group, a former owner hears of it late, and a commit of a former owner  *)
(* may be taken or refused.                                                *)
(***************************************************************************)
EXTENDS Integers, Sequences

CONSTANTS
  Consumers,      \* consumer processes of the group
  Events,         \* event ids
  Garbage,        \* a record that decodeBody refuses
  None,           \* no owner
  MaxLog,         \* bounds the records of the partition
  MaxFaults       \* bounds the crashes, errors and rebalances

ASSUME ConsumerAssumption ==
  /\ Garbage \notin Events
  /\ None \notin Consumers
  /\ MaxLog \in Nat
  /\ MaxFaults \in Nat

VARIABLES
  topic,          \* the records of the partition: offset o is topic[o]
  committed,      \* the last offset the group has committed
  owner,          \* the member that the group has given the partition
  pc,             \* what a consumer does next
  position,       \* the offset it fetches next; 0 without the partition
  message,        \* the offset of the record in its hands
  shared,         \* the deduplicator is a store that outlives the processes
  seen,           \* the events a consumer's deduplicator knows
  effects,        \* how often an event was handled with success
  dlq,            \* the offsets of the records in the dead letter topic
  faults

group == <<committed, owner>>
process == <<pc, position, message>>
dedup == <<shared, seen>>
vars == <<topic, group, process, dedup, effects, dlq, faults>>

Init ==
  /\ topic = << >>
  /\ committed = 0
  /\ owner = None
  /\ pc = [c \in Consumers |-> "off"]
  /\ position = [c \in Consumers |-> 0]
  /\ message = [c \in Consumers |-> 0]
  /\ shared \in BOOLEAN
  /\ seen = [c \in Consumers |-> {}]
  /\ effects = [e \in Events |-> 0]
  /\ dlq = {}
  /\ faults = 0

Goto(c, where) == pc' = [pc EXCEPT ![c] = where]

Fault ==
  /\ faults < MaxFaults
  /\ faults' = faults + 1

\* What the deduplicators know once consumer c has marked event e.
MarkProcessed(c, e) ==
  [d \in Consumers |-> IF shared \/ d = c THEN seen[d] \cup {e} ELSE seen[d]]

-----------------------------------------------------------------------------
(* The broker *)

\* The relay publishes an event, or somebody else writes to the topic.
Produce(record) ==
  /\ Len(topic) < MaxLog
  /\ topic' = Append(topic, record)
  /\ UNCHANGED <<group, process, dedup, effects, dlq, faults>>

\* A member of the group is given the partition from the committed offset on.
GivePartition(c) ==
  /\ pc[c] \notin {"off", "returned"}
  /\ owner' = c
  /\ position' = [position EXCEPT ![c] = committed + 1]
  /\ UNCHANGED <<topic, committed, pc, message, dedup, effects, dlq>>

Assign(c) == owner = None /\ GivePartition(c) /\ UNCHANGED faults

Rebalance(c) == owner \notin {None, c} /\ GivePartition(c) /\ Fault

\* The former owner hears of it.
Revoked(c) ==
  /\ owner # c
  /\ position[c] # 0
  /\ position' = [position EXCEPT ![c] = 0]
  /\ UNCHANGED <<topic, group, pc, message, dedup, effects, dlq, faults>>

-----------------------------------------------------------------------------
(* The consumer *)

\* Consumer c leaves the group.
Leave(c) ==
  /\ owner' = IF owner = c THEN None ELSE owner
  /\ position' = [position EXCEPT ![c] = 0]
  /\ message' = [message EXCEPT ![c] = 0]

\* Start returns an error, with the record in hand uncommitted.
Return(c) ==
  /\ Fault
  /\ Goto(c, "returned")
  /\ UNCHANGED <<topic, owner, position, message>>

\* NewConsumer and Start in a new process.
Start(c) ==
  /\ pc[c] = "off"
  /\ Goto(c, "fetch")
  /\ UNCHANGED <<topic, group, position, message, dedup, effects, dlq, faults>>

\* Mutant: the reader stays in the group.
Close_KeepsReader(c) ==
  /\ pc[c] = "returned"
  /\ position' = [position EXCEPT ![c] = 0]
  /\ Goto(c, "off")
  /\ UNCHANGED <<topic, group, message, dedup, effects, dlq, faults>>

\* The caller closes a Consumer that has returned, and may make another.
Close(c) ==
  /\ pc[c] = "returned"
  /\ Leave(c)
  /\ Goto(c, "off")
  /\ UNCHANGED <<topic, committed, dedup, effects, dlq, faults>>

\* decodeBody
Decodes(record) == record # Garbage

\* FetchMessage, and decodeBody of the record.
FetchMessage(c) ==
  /\ pc[c] = "fetch"
  /\ position[c] \in 1 .. Len(topic)
  /\ message' = [message EXCEPT ![c] = position[c]]
  /\ position' = [position EXCEPT ![c] = @ + 1]
  /\ Goto(c, IF Decodes(topic[position[c]]) THEN "check" ELSE "dead_letter")
  /\ UNCHANGED <<topic, group, dedup, effects, dlq, faults>>

\* Mutant: nothing is a duplicate.
IsDuplicate_Never(c) ==
  /\ pc[c] = "check"
  /\ Goto(c, "handle")
  /\ UNCHANGED <<topic, group, position, message, dedup, effects, dlq, faults>>

\* Mutant: the check marks the event, as SETNX would.
IsDuplicate_Claims(c) ==
  /\ pc[c] = "check"
  /\ Goto(c, IF topic[message[c]] \in seen[c] THEN "commit" ELSE "handle")
  /\ seen' = MarkProcessed(c, topic[message[c]])
  /\ UNCHANGED <<topic, group, position, message, shared, effects, dlq, faults>>

IsDuplicate(c) ==
  /\ pc[c] = "check"
  /\ Goto(c, IF topic[message[c]] \in seen[c] THEN "commit" ELSE "handle")
  /\ UNCHANGED <<topic, group, position, message, dedup, effects, dlq, faults>>

\* The store of a shared deduplicator does not answer.
DedupFails(c) ==
  /\ shared
  /\ pc[c] \in {"check", "mark"}
  /\ Return(c)
  /\ UNCHANGED <<committed, dedup, effects, dlq>>

Handle(c) ==
  /\ pc[c] = "handle"
  /\ effects' = [effects EXCEPT ![topic[message[c]]] = @ + 1]
  /\ Goto(c, "mark")
  /\ UNCHANGED <<topic, group, position, message, dedup, dlq, faults>>

\* Mutant: the record of a failed handler is committed.
HandlerFails_Commits(c) ==
  /\ pc[c] = "handle"
  /\ Goto(c, "commit")
  /\ UNCHANGED <<topic, group, position, message, dedup, effects, dlq, faults>>

HandlerFails(c) ==
  /\ pc[c] = "handle"
  /\ Goto(c, "dead_letter")
  /\ UNCHANGED <<topic, group, position, message, dedup, effects, dlq, faults>>

Mark(c) ==
  /\ pc[c] = "mark"
  /\ seen' = MarkProcessed(c, topic[message[c]])
  /\ Goto(c, "commit")
  /\ UNCHANGED <<topic, group, position, message, shared, effects, dlq, faults>>

DeadLetter(c) ==
  /\ pc[c] = "dead_letter"
  /\ dlq' = dlq \cup {message[c]}
  /\ Goto(c, "commit")
  /\ UNCHANGED <<topic, group, position, message, dedup, effects, faults>>

\* The write is not confirmed; the record may be there.
DeadLetterFails(c) ==
  /\ pc[c] = "dead_letter"
  /\ dlq' \in {dlq, dlq \cup {message[c]}}
  /\ Return(c)
  /\ UNCHANGED <<committed, dedup, effects>>

\* Mutant: the offset of the next record is committed as handled.
CommitMessages_Next(c) ==
  /\ pc[c] = "commit"
  /\ committed' = message[c] + 1
  /\ Goto(c, "fetch")
  /\ UNCHANGED <<topic, owner, position, message, dedup, effects, dlq, faults>>

CommitMessages(c) ==
  /\ pc[c] = "commit"
  /\ committed' = message[c]
  /\ Goto(c, "fetch")
  /\ UNCHANGED <<topic, owner, position, message, dedup, effects, dlq, faults>>

\* The commit is refused, as a former owner's is, or its answer is lost.
CommitFails(c) ==
  /\ pc[c] = "commit"
  /\ committed' \in {committed, message[c]}
  /\ Return(c)
  /\ UNCHANGED <<dedup, effects, dlq>>

\* The process dies, and an in-memory deduplicator with it.
Crash(c) ==
  /\ pc[c] # "off"
  /\ Leave(c)
  /\ Goto(c, "off")
  /\ seen' = IF shared THEN seen ELSE [seen EXCEPT ![c] = {}]
  /\ Fault
  /\ UNCHANGED <<topic, committed, shared, effects, dlq>>

\* What the consumer does of its own accord when nothing fails.
Work(c) ==
  \/ FetchMessage(c) \/ IsDuplicate(c) \/ Handle(c) \/ HandlerFails(c)
  \/ Mark(c) \/ DeadLetter(c) \/ CommitMessages(c)

Next ==
  \/ \E record \in Events \cup {Garbage} : Produce(record)
  \/ \E c \in Consumers :
       \/ Assign(c) \/ Rebalance(c) \/ Revoked(c)
       \/ Start(c) \/ Close(c)
       \/ Work(c) \/ DedupFails(c) \/ DeadLetterFails(c) \/ CommitFails(c)
       \/ Crash(c)

Spec == Init /\ [][Next]_vars

\* The consumers work and are restarted, and the group gives the partition to
\* one of them.
FairSpec ==
  /\ Spec
  /\ \A c \in Consumers : WF_vars(Work(c)) /\ WF_vars(Start(c)) /\ WF_vars(Close(c))
  /\ WF_vars(\E c \in Consumers : Assign(c))

=============================================================================
