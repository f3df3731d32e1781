--------------------------- MODULE OutboxProperties ---------------------------
(***************************************************************************)
(* What OutboxRelay is checked for.                                        *)
(***************************************************************************)
EXTENDS OutboxRelay

\* Every variable has its type.
RelayTypeOK ==
  /\ outbox \in [Events -> Row]
  /\ draft \in [Events -> Row]
  /\ holder \in [Events -> Relays \cup {None}]
  /\ copies \in [Events -> Nat]
  /\ pc \in [Relays -> {"off", "wait", "tick", "publish", "mark", "commit"}]
  /\ batch \in [Relays -> SUBSET Events]
  /\ sent \in [Relays -> SUBSET Events]
  /\ lost \in [Relays -> BOOLEAN]
  /\ faults \in 0 .. MaxFaults

\* published_at is the truth: an event that is marked is in the broker's topic,
\* whatever failed between its publication and the mark, and whoever made it.
PublishedIsDelivered == \A e \in Events : outbox[e].published => copies[e] > 0

InHand(r) == batch[r] \cup sent[r]

\* Two relays whose transactions are alive never have one event in hand, so
\* that they do not publish it twice.
OneRelayPerEvent ==
  \A r, q \in Relays : r # q /\ ~lost[r] /\ ~lost[q] => InHand(r) \cap InHand(q) = {}

\* Each copy of an event beyond the first is owed to a failure: one that was
\* counted in its retries, or a crash or lost transaction.
DuplicatesAreExplained ==
  \A e \in Events : copies[e] <= 1 + draft[e].retries + faults

\* An event that is marked is sent again only by a relay that has lost its
\* transaction with the event in its batch.
NoRepublication ==
  [][\A e \in Events :
       outbox[e].published /\ copies'[e] # copies[e] =>
         \E r \in Relays : lost[r] /\ e \in batch[r]]_vars

\* An event in the outbox is published, or it has failed so often that it is
\* given up: no row stays locked, skipped or unmarked for ever.
EveryEventIsSettled ==
  \A e \in Events :
    outbox[e].place = "outbox" ~> outbox[e].published \/ outbox[e].retries >= MaxRetries

=============================================================================
