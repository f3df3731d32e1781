-------------------------- MODULE ConsumerProperties --------------------------
(***************************************************************************)
(* What EventConsumer is checked for.                                      *)
(***************************************************************************)
EXTENDS EventConsumer

\* Every variable has its type.
ConsumerTypeOK ==
  /\ topic \in Seq(Events \cup {Garbage})
  /\ committed \in 0 .. Len(topic)
  /\ owner \in Consumers \cup {None}
  /\ pc \in [Consumers -> {"off", "fetch", "check", "handle", "mark", "dead_letter",
                           "commit", "returned"}]
  /\ position \in [Consumers -> Nat]
  /\ message \in [Consumers -> Nat]
  /\ shared \in BOOLEAN
  /\ seen \in [Consumers -> SUBSET Events]
  /\ effects \in [Events -> Nat]
  /\ dlq \in SUBSET Nat
  /\ faults \in 0 .. MaxFaults

\* A record's event was handled, or the record is in the dead letter topic.
Settled(o) == o \in dlq \/ (topic[o] \in Events /\ effects[topic[o]] > 0)

\* At least once: the group never commits past a record that is neither
\* handled nor dead-lettered, whatever crashed, failed or moved on the way.
CommittedIsSettled == \A o \in 1 .. committed : Settled(o)

\* The copies that a relay makes of an event are absorbed: it is handled a
\* second time only after a crash, an error or a rebalance, once for each.
EffectsAreExplained == \A e \in Events : effects[e] <= 1 + faults

\* What a deduplicator knows was handled: an event is never skipped as a
\* duplicate of nothing.
SeenIsHandled == \A c \in Consumers : \A e \in seen[c] : effects[e] > 0

\* Every record is handled or dead-lettered in the end: none is fetched for
\* ever, and none blocks the records behind it.
EveryRecordIsSettled ==
  \A o \in 1 .. MaxLog : Len(topic) >= o ~> o <= Len(topic) /\ Settled(o)

=============================================================================
