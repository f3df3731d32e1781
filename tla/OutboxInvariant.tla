--------------------------- MODULE OutboxInvariant ----------------------------
(***************************************************************************)
(* The inductive invariant behind the safety of OutboxRelay: what a row's  *)
(* lock entitles its holder to.                                            *)
(***************************************************************************)
EXTENDS OutboxProperties

\* Relay r has a transaction.
Alive(r) == pc[r] \in {"publish", "mark", "commit"} /\ ~lost[r]

\* Only a relay with a transaction holds rows: those that died, stopped or
\* lost their connection have given them back.
HoldersAreAlive == \A e \in Events : holder[e] # None => Alive(holder[e])

\* A relay whose transaction is alive holds every event it has in hand.
HandIsHeld == \A r \in Relays : ~lost[r] => \A e \in InHand(r) : holder[e] = r

\* A row has an uncommitted version only while it is held, and a held row is
\* one that was pending when it was polled.
DraftIsHeld == \A e \in Events : holder[e] = None => draft[e] = outbox[e]

HeldIsPending ==
  \A e \in Events : holder[e] # None => outbox[e].place = "outbox" /\ ~outbox[e].published

\* What is marked, even in a draft, or about to be marked is in the topic.
SentIsDelivered == \A r \in Relays : \A e \in sent[r] : copies[e] > 0

MarkIsDelivered == \A e \in Events : draft[e].published => copies[e] > 0

\* Between two ticks a relay has nothing in hand.
NothingInHand ==
  \A r \in Relays :
    pc[r] \in {"off", "wait", "tick"} => batch[r] = {} /\ sent[r] = {} /\ ~lost[r]

RelayConsistent ==
  /\ RelayTypeOK
  /\ HoldersAreAlive
  /\ HandIsHeld
  /\ DraftIsHeld
  /\ HeldIsPending
  /\ SentIsDelivered
  /\ MarkIsDelivered
  /\ NothingInHand

=============================================================================
