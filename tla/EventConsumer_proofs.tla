------------------------- MODULE EventConsumer_proofs --------------------------
(***************************************************************************)
(* At least once, for any number of consumers, events, records and faults: *)
(* the group never commits past a record that is not settled, and no event *)
(* is skipped that was not handled.                                        *)
(*                                                                         *)
(* A commit names one record but settles all before it, so the invariant   *)
(* says of every consumer that what is before the record in its hands      *)
(* (InHand), and before the position it fetches from (Behind), is settled; *)
(* a rebalance makes these two differ.  What is settled stays settled.     *)
(*                                                                         *)
(* That an event is handled once, and once more for a fault at most, is    *)
(* counted: EffectsInv adds those who would handle it next.                *)
(***************************************************************************)
EXTENDS ConsumerProperties, FiniteSetTheorems, TLAPS

Busy == {"check", "handle", "mark", "dead_letter", "commit"}

InHand(c) ==
  pc[c] \in Busy =>
    /\ message[c] \in 1 .. Len(topic)
    /\ \A o \in 1 .. message[c] - 1 : Settled(o)

Behind(c) ==
  pc[c] \in Busy \cup {"fetch"} =>
    \A o \in 1 .. position[c] - 1 : o <= Len(topic) /\ (Settled(o) \/ (pc[c] \in Busy /\ o = message[c]))

Decoded(c) == pc[c] \in {"check", "handle", "mark"} => topic[message[c]] \in Events

Handled(c) == pc[c] = "mark" => effects[topic[message[c]]] > 0

Finished(c) == pc[c] = "commit" => Settled(message[c])

Away(c) == pc[c] = "off" => position[c] = 0

ConsumerOK(c) ==
  InHand(c) /\ Behind(c) /\ Decoded(c) /\ Handled(c) /\ Finished(c) /\ Away(c)

ConsumerInv ==
  /\ ConsumerTypeOK
  /\ SeenIsHandled
  /\ CommittedIsSettled
  /\ \A c \in Consumers : ConsumerOK(c)

\* The records and what became of them: records are only appended, and no
\* outcome is taken back.
Grows ==
  /\ Len(topic) <= Len(topic')
  /\ \A o \in 1 .. Len(topic) : topic'[o] = topic[o]
  /\ dlq \subseteq dlq'
  /\ \A e \in Events : effects[e] <= effects'[e]

Same(d) == pc'[d] = pc[d] /\ message'[d] = message[d] /\ position'[d] = position[d]

-----------------------------------------------------------------------------

LEMMA TypeFacts ==
  ASSUME ConsumerTypeOK
  PROVE  /\ topic \in Seq(Events \cup {Garbage}) /\ Len(topic) \in Nat
         /\ committed \in Nat /\ committed <= Len(topic)
         /\ \A c \in Consumers : message[c] \in Nat /\ position[c] \in Nat
<1>1. topic \in Seq(Events \cup {Garbage}) /\ committed \in 0 .. Len(topic)
  BY DEF ConsumerTypeOK
<1>2. Len(topic) \in Nat
  BY <1>1
<1>3. committed \in Nat /\ committed <= Len(topic)
  BY <1>1, <1>2
<1> QED
  BY <1>1, <1>2, <1>3 DEF ConsumerTypeOK

LEMMA SettledStays ==
  ASSUME ConsumerTypeOK, ConsumerTypeOK', Grows, NEW o \in 1 .. Len(topic), Settled(o)
  PROVE  Settled(o)'
<1>1. topic'[o] = topic[o] /\ dlq \subseteq dlq'
  BY DEF Grows
<1>2. CASE o \in dlq
  BY <1>1, <1>2 DEF Settled
<1>3. CASE topic[o] \in Events /\ effects[topic[o]] > 0
  <2> DEFINE e == topic[o]
  <2>1. effects[e] <= effects'[e] /\ effects[e] \in Nat /\ effects'[e] \in Nat
    BY <1>3 DEF Grows, ConsumerTypeOK
  <2>2. effects'[e] > 0
    BY <1>3, <2>1
  <2> QED
    BY <1>1, <1>3, <2>2 DEF Settled
<1> QED
  BY <1>2, <1>3 DEF Settled

\* A consumer that does nothing is as it was.
LEMMA OthersStay ==
  ASSUME ConsumerInv, ConsumerTypeOK', Grows, NEW d \in Consumers, Same(d)
  PROVE  ConsumerOK(d)'
<1>1. /\ pc'[d] = pc[d] /\ message'[d] = message[d] /\ position'[d] = position[d]
      /\ ConsumerOK(d)
  BY DEF Same, ConsumerInv
<1>2. \A o \in 1 .. Len(topic) : Settled(o) => Settled(o)'
  BY SettledStays DEF ConsumerInv
<1>3. /\ Len(topic) \in Nat /\ Len(topic') \in Nat /\ Len(topic) <= Len(topic')
      /\ message[d] \in Nat /\ position[d] \in Nat
  <2>1. Len(topic') \in Nat
    <3>1. topic' \in Seq(Events \cup {Garbage})
      BY DEF ConsumerTypeOK
    <3> QED
      BY <3>1
  <2> QED
    BY <2>1, TypeFacts DEF ConsumerInv, Grows
<1>4. InHand(d)'
  <2> SUFFICES ASSUME pc[d] \in Busy
               PROVE  /\ message[d] \in 1 .. Len(topic')
                      /\ \A o \in 1 .. message[d] - 1 : Settled(o)'
    BY <1>1 DEF InHand
  <2>1. message[d] \in 1 .. Len(topic) /\ \A o \in 1 .. message[d] - 1 : Settled(o)
    BY <1>1 DEF ConsumerOK, InHand
  <2>2. \A o \in 1 .. message[d] - 1 : o \in 1 .. Len(topic)
    BY <1>3, <2>1
  <2> QED
    BY <1>2, <1>3, <2>1, <2>2
<1>5. Behind(d)'
  <2> SUFFICES ASSUME pc[d] \in Busy \cup {"fetch"}, NEW o \in 1 .. position[d] - 1
               PROVE  o <= Len(topic') /\ (Settled(o)' \/ (pc[d] \in Busy /\ o = message[d]))
    BY <1>1 DEF Behind
  <2>1. o <= Len(topic) /\ (Settled(o) \/ (pc[d] \in Busy /\ o = message[d]))
    BY <1>1 DEF ConsumerOK, Behind
  <2>2. o \in 1 .. Len(topic) /\ o <= Len(topic')
    BY <1>3, <2>1
  <2> QED
    BY <1>2, <2>1, <2>2
<1>6. /\ pc[d] \in Busy => message[d] \in 1 .. Len(topic) /\ topic'[message[d]] = topic[message[d]]
      /\ Busy = {"check", "handle", "mark", "dead_letter", "commit"}
  BY <1>1 DEF ConsumerOK, InHand, Grows, Busy
<1>7. Decoded(d)'
  BY <1>1, <1>6 DEF ConsumerOK, Decoded
<1>8. Handled(d)'
  <2> SUFFICES ASSUME pc[d] = "mark" PROVE effects'[topic'[message[d]]] > 0
    BY <1>1 DEF Handled
  <2> DEFINE e == topic[message[d]]
  <2>1. e \in Events /\ topic'[message[d]] = e /\ effects[e] > 0
    BY <1>1, <1>6 DEF ConsumerOK, Decoded, Handled
  <2>2. effects[e] <= effects'[e] /\ effects[e] \in Nat /\ effects'[e] \in Nat
    BY <2>1 DEF Grows, ConsumerInv, ConsumerTypeOK
  <2> HIDE DEF e
  <2>3. effects'[e] > 0
    BY <2>1, <2>2
  <2> QED
    BY <2>1, <2>3
<1>9. Finished(d)'
  BY <1>1, <1>2, <1>6 DEF ConsumerOK, Finished
<1>10. Away(d)'
  BY <1>1 DEF ConsumerOK, Away
<1> QED
  BY <1>4, <1>5, <1>7, <1>8, <1>9, <1>10 DEF ConsumerOK

\* A step of consumer c keeps the invariant when it keeps c's part of it, settles
\* what it commits, and marks only what was handled.
LEMMA StepKeeps ==
  ASSUME ConsumerInv, ConsumerTypeOK', Grows, NEW c \in Consumers,
         \A d \in Consumers \ {c} : Same(d),
         \A d \in Consumers : \A e \in seen'[d] : e \in seen[d] \/ effects'[e] > 0,
         committed' = committed \/ \A o \in 1 .. committed' : Settled(o)',
         ConsumerOK(c)'
  PROVE  ConsumerInv'
<1>1. \A d \in Consumers : ConsumerOK(d)'
  BY OthersStay
<1>2. SeenIsHandled'
  <2> SUFFICES ASSUME NEW d \in Consumers, NEW e \in seen'[d], e \in seen[d]
               PROVE  effects'[e] > 0
    BY DEF SeenIsHandled
  <2>1. e \in Events /\ effects[e] > 0
    BY DEF ConsumerInv, SeenIsHandled, ConsumerTypeOK
  <2>2. effects[e] <= effects'[e] /\ effects[e] \in Nat /\ effects'[e] \in Nat
    BY <2>1 DEF Grows, ConsumerInv, ConsumerTypeOK
  <2> QED
    BY <2>1, <2>2
<1>3. CommittedIsSettled'
  <2>1. ASSUME committed' = committed, NEW o \in 1 .. committed PROVE Settled(o)'
    <3>1. o \in 1 .. Len(topic) /\ Settled(o)
      BY <2>1, TypeFacts DEF ConsumerInv, CommittedIsSettled
    <3> QED
      BY <3>1, SettledStays DEF ConsumerInv
  <2> QED
    BY <2>1 DEF CommittedIsSettled
<1> QED
  BY <1>1, <1>2, <1>3 DEF ConsumerInv

\* A step that moves consumer c and nothing else.
LEMMA MoveKeeps ==
  ASSUME ConsumerInv, ConsumerTypeOK', NEW c \in Consumers,
         UNCHANGED <<topic, dlq, effects, seen, committed>>,
         \A d \in Consumers \ {c} : Same(d),
         ConsumerOK(c)'
  PROVE  ConsumerInv'
<1>1. Len(topic) \in Nat /\ \A e \in Events : effects[e] \in Nat
  BY TypeFacts DEF ConsumerInv, ConsumerTypeOK
<1>2. Grows
  BY <1>1 DEF Grows
<1>3. \A d \in Consumers : \A e \in seen'[d] : e \in seen[d] \/ effects'[e] > 0
  OBVIOUS
<1> QED
  BY <1>2, <1>3, StepKeeps

\* The consumer's own part, in the terms of its new position and record, when
\* the records and what became of them have not changed.
LEMMA MovedOK ==
  ASSUME ConsumerInv, NEW c \in Consumers, UNCHANGED <<topic, dlq, effects>>,
         pc'[c] \in Busy => /\ message'[c] \in 1 .. Len(topic)
                           /\ \A o \in 1 .. message'[c] - 1 : Settled(o),
         pc'[c] \in Busy \cup {"fetch"} =>
           \A o \in 1 .. position'[c] - 1 :
             o <= Len(topic) /\ (Settled(o) \/ (pc'[c] \in Busy /\ o = message'[c])),
         pc'[c] \in {"check", "handle", "mark"} => topic[message'[c]] \in Events,
         pc'[c] = "mark" => effects[topic[message'[c]]] > 0,
         pc'[c] = "commit" => Settled(message'[c]),
         pc'[c] = "off" => position'[c] = 0
  PROVE  ConsumerOK(c)'
<1>1. \A o : Settled(o)' = Settled(o)
  BY DEF Settled
<1> QED
  BY <1>1 DEF ConsumerOK, InHand, Behind, Decoded, Handled, Finished, Away

-----------------------------------------------------------------------------
(* The group *)

LEMMA GivenKeeps ==
  ASSUME ConsumerInv, NEW c \in Consumers, Assign(c) \/ Rebalance(c)
  PROVE  ConsumerInv'
<1>1. /\ pc[c] \notin {"off", "returned"} /\ owner' = c
      /\ position' = [position EXCEPT ![c] = committed + 1]
      /\ UNCHANGED <<topic, committed, pc, message, shared, seen, effects, dlq>>
      /\ faults' = faults \/ (faults < MaxFaults /\ faults' = faults + 1)
  BY DEF Assign, Rebalance, GivePartition, Fault, dedup
<1>2. position \in [Consumers -> Nat] /\ committed \in Nat /\ committed <= Len(topic)
      /\ Len(topic) \in Nat
  BY TypeFacts DEF ConsumerInv, ConsumerTypeOK
<1>3. position' \in [Consumers -> Nat] /\ position'[c] = committed + 1
  BY <1>1, <1>2
<1>4. faults' \in 0 .. MaxFaults
  BY <1>1, ConsumerAssumption DEF ConsumerInv, ConsumerTypeOK
<1>5. ConsumerTypeOK'
  BY <1>1, <1>3, <1>4 DEF ConsumerInv, ConsumerTypeOK
<1>6. \A d \in Consumers \ {c} : Same(d)
  BY <1>1, <1>2 DEF Same
<1>7. ConsumerOK(c)
  BY DEF ConsumerInv
<1>8. \A o \in 1 .. position'[c] - 1 : o <= Len(topic) /\ Settled(o)
  BY <1>2, <1>3 DEF ConsumerInv, CommittedIsSettled
<1>9. ConsumerOK(c)'
  BY <1>1, <1>7, <1>8, MovedOK DEF ConsumerOK, InHand, Decoded, Handled, Finished
<1> QED
  BY <1>1, <1>5, <1>6, <1>9, MoveKeeps

\* A consumer without the partition, and without a record, knows nothing.
LEMMA LeftKeeps ==
  ASSUME ConsumerInv, ConsumerTypeOK', NEW c \in Consumers,
         UNCHANGED <<topic, dlq, effects, committed>>,
         \A d \in Consumers : \A e \in seen'[d] : e \in seen[d],
         \A d \in Consumers \ {c} : Same(d),
         pc'[c] = "off", position'[c] = 0
  PROVE  ConsumerInv'
<1>1. Len(topic) \in Nat /\ \A e \in Events : effects[e] \in Nat
  BY TypeFacts DEF ConsumerInv, ConsumerTypeOK
<1>2. Grows
  BY <1>1 DEF Grows
<1>3. ConsumerOK(c)'
  BY MovedOK DEF Busy
<1> QED
  BY <1>2, <1>3, StepKeeps

LEMMA RevokedKeeps ==
  ASSUME ConsumerInv, NEW c \in Consumers, Revoked(c)
  PROVE  ConsumerInv'
<1>1. /\ position' = [position EXCEPT ![c] = 0]
      /\ UNCHANGED <<topic, committed, owner, pc, message, shared, seen, effects, dlq, faults>>
  BY DEF Revoked, group, dedup
<1>2. position' \in [Consumers -> Nat] /\ position'[c] = 0
  BY <1>1 DEF ConsumerInv, ConsumerTypeOK
<1>3. ConsumerTypeOK'
  BY <1>1, <1>2 DEF ConsumerInv, ConsumerTypeOK
<1>4. \A d \in Consumers \ {c} : Same(d)
  BY <1>1 DEF Same, ConsumerInv, ConsumerTypeOK
<1>5. ConsumerOK(c)
  BY DEF ConsumerInv
<1>6. ConsumerOK(c)'
  BY <1>1, <1>2, <1>5, MovedOK DEF ConsumerOK, InHand, Decoded, Handled, Finished
<1> QED
  BY <1>1, <1>3, <1>4, <1>6, MoveKeeps

LEMMA CloseKeeps ==
  ASSUME ConsumerInv, NEW c \in Consumers, Close(c)
  PROVE  ConsumerInv'
<1>1. /\ pc' = [pc EXCEPT ![c] = "off"]
      /\ position' = [position EXCEPT ![c] = 0] /\ message' = [message EXCEPT ![c] = 0]
      /\ owner' = IF owner = c THEN None ELSE owner
      /\ UNCHANGED <<topic, committed, shared, seen, effects, dlq, faults>>
  BY DEF Close, Leave, Goto, dedup
<1>2. ConsumerTypeOK'
  BY <1>1 DEF ConsumerInv, ConsumerTypeOK
<1>3. /\ pc'[c] = "off" /\ position'[c] = 0
      /\ \A d \in Consumers \ {c} : Same(d)
  BY <1>1 DEF Same, ConsumerInv, ConsumerTypeOK
<1> QED
  BY <1>1, <1>2, <1>3, LeftKeeps

LEMMA CrashKeeps ==
  ASSUME ConsumerInv, NEW c \in Consumers, Crash(c)
  PROVE  ConsumerInv'
<1>1. /\ pc' = [pc EXCEPT ![c] = "off"]
      /\ position' = [position EXCEPT ![c] = 0] /\ message' = [message EXCEPT ![c] = 0]
      /\ owner' = IF owner = c THEN None ELSE owner
      /\ seen' = IF shared THEN seen ELSE [seen EXCEPT ![c] = {}]
      /\ faults < MaxFaults /\ faults' = faults + 1
      /\ UNCHANGED <<topic, committed, shared, effects, dlq>>
  BY DEF Crash, Leave, Goto, Fault
<1>2. faults' \in 0 .. MaxFaults
  BY <1>1, ConsumerAssumption DEF ConsumerInv, ConsumerTypeOK
<1>3. /\ seen' \in [Consumers -> SUBSET Events]
      /\ \A d \in Consumers : \A e \in seen'[d] : e \in seen[d]
  <2>1. seen \in [Consumers -> SUBSET Events]
    BY DEF ConsumerInv, ConsumerTypeOK
  <2>2. CASE shared
    BY <1>1, <2>1, <2>2
  <2>3. CASE ~shared
    <3>1. seen' = [seen EXCEPT ![c] = {}]
      BY <1>1, <2>3
    <3> QED
      BY <2>1, <3>1
  <2> QED
    BY <2>2, <2>3
<1>4. ConsumerTypeOK'
  BY <1>1, <1>2, <1>3 DEF ConsumerInv, ConsumerTypeOK
<1>5. /\ pc'[c] = "off" /\ position'[c] = 0
      /\ \A d \in Consumers \ {c} : Same(d)
  BY <1>1 DEF Same, ConsumerInv, ConsumerTypeOK
<1> QED
  BY <1>1, <1>3, <1>4, <1>5, LeftKeeps

-----------------------------------------------------------------------------
(* Errors *)

\* A consumer whose Start has returned has nothing to answer for.
LEMMA ReturnedKeeps ==
  ASSUME ConsumerInv, ConsumerTypeOK', Grows, NEW c \in Consumers, seen' = seen,
         \A d \in Consumers \ {c} : Same(d),
         committed' = committed \/ \A o \in 1 .. committed' : Settled(o)',
         pc'[c] = "returned"
  PROVE  ConsumerInv'
<1>1. ConsumerOK(c)'
  BY DEF ConsumerOK, InHand, Behind, Decoded, Handled, Finished, Away, Busy
<1> QED
  BY <1>1, StepKeeps

\* A record in hand is one of the topic, and all up to a finished one is settled.
LEMMA RecordInHand ==
  ASSUME ConsumerInv, NEW c \in Consumers, pc[c] \in Busy
  PROVE  /\ message[c] \in 1 .. Len(topic) /\ message[c] \in Nat /\ Len(topic) \in Nat
         /\ \A o \in 1 .. message[c] - 1 : Settled(o)
         /\ pc[c] = "commit" => \A o \in 1 .. message[c] : Settled(o)
<1>1. /\ message[c] \in 1 .. Len(topic) /\ Len(topic) \in Nat
      /\ \A o \in 1 .. message[c] - 1 : Settled(o)
      /\ pc[c] = "commit" => Settled(message[c])
  BY TypeFacts DEF ConsumerInv, ConsumerOK, InHand, Finished
<1>2. message[c] \in Nat /\ \A o \in 1 .. message[c] : o \in 1 .. message[c] - 1 \/ o = message[c]
  BY <1>1
<1> QED
  BY <1>1, <1>2

LEMMA StepTypes ==
  ASSUME ConsumerInv, NEW c \in Consumers,
         NEW where \in {"off", "fetch", "check", "handle", "mark", "dead_letter", "commit", "returned"},
         Goto(c, where)
  PROVE  /\ pc' \in [Consumers -> {"off", "fetch", "check", "handle", "mark", "dead_letter",
                                   "commit", "returned"}]
         /\ pc'[c] = where /\ \A d \in Consumers \ {c} : pc'[d] = pc[d]
BY DEF Goto, ConsumerInv, ConsumerTypeOK

LEMMA DedupFailsKeeps ==
  ASSUME ConsumerInv, NEW c \in Consumers, DedupFails(c)
  PROVE  ConsumerInv'
<1>1. /\ Goto(c, "returned") /\ faults < MaxFaults /\ faults' = faults + 1
      /\ UNCHANGED <<topic, owner, position, message, committed, shared, seen, effects, dlq>>
  BY DEF DedupFails, Return, Fault, dedup
<1>2. faults' \in 0 .. MaxFaults
  BY <1>1, ConsumerAssumption DEF ConsumerInv, ConsumerTypeOK
<1>3. ConsumerTypeOK'
  BY <1>1, <1>2, StepTypes DEF ConsumerInv, ConsumerTypeOK
<1>4. pc'[c] = "returned" /\ \A d \in Consumers \ {c} : Same(d)
  BY <1>1, StepTypes DEF Same
<1>5. Grows
  <2>1. Len(topic) \in Nat /\ \A e \in Events : effects[e] \in Nat
    BY TypeFacts DEF ConsumerInv, ConsumerTypeOK
  <2> QED
    BY <1>1, <2>1 DEF Grows
<1> QED
  BY <1>1, <1>3, <1>4, <1>5, ReturnedKeeps

LEMMA DeadLetterFailsKeeps ==
  ASSUME ConsumerInv, NEW c \in Consumers, DeadLetterFails(c)
  PROVE  ConsumerInv'
<1>1. /\ pc[c] = "dead_letter" /\ dlq' \in {dlq, dlq \cup {message[c]}}
      /\ Goto(c, "returned") /\ faults < MaxFaults /\ faults' = faults + 1
      /\ UNCHANGED <<topic, owner, position, message, committed, shared, seen, effects>>
  BY DEF DeadLetterFails, Return, Fault, dedup
<1>2. faults' \in 0 .. MaxFaults
  BY <1>1, ConsumerAssumption DEF ConsumerInv, ConsumerTypeOK
<1>3. dlq' \in SUBSET Nat
  BY <1>1, TypeFacts DEF ConsumerInv, ConsumerTypeOK
<1>4. ConsumerTypeOK'
  BY <1>1, <1>2, <1>3, StepTypes DEF ConsumerInv, ConsumerTypeOK
<1>5. pc'[c] = "returned" /\ \A d \in Consumers \ {c} : Same(d)
  BY <1>1, StepTypes DEF Same
<1>6. Grows
  <2>1. Len(topic) \in Nat /\ \A e \in Events : effects[e] \in Nat
    BY TypeFacts DEF ConsumerInv, ConsumerTypeOK
  <2> QED
    BY <1>1, <2>1 DEF Grows
<1> QED
  BY <1>1, <1>4, <1>5, <1>6, ReturnedKeeps

\* Whether or not the broker took the commit, what it names is settled.
LEMMA CommitFailsKeeps ==
  ASSUME ConsumerInv, NEW c \in Consumers, CommitFails(c)
  PROVE  ConsumerInv'
<1>1. /\ pc[c] = "commit" /\ committed' \in {committed, message[c]}
      /\ Goto(c, "returned") /\ faults < MaxFaults /\ faults' = faults + 1
      /\ UNCHANGED <<topic, owner, position, message, shared, seen, effects, dlq>>
  BY DEF CommitFails, Return, Fault, dedup
<1>2. /\ message[c] \in Nat /\ message[c] <= Len(topic) /\ Len(topic) \in Nat
      /\ \A o \in 1 .. message[c] : Settled(o)
  BY <1>1, RecordInHand DEF Busy
<1>3. faults' \in 0 .. MaxFaults
  BY <1>1, ConsumerAssumption DEF ConsumerInv, ConsumerTypeOK
<1>4. committed' \in 0 .. Len(topic)
  BY <1>1, <1>2, TypeFacts DEF ConsumerInv
<1>5. ConsumerTypeOK'
  BY <1>1, <1>3, <1>4, StepTypes DEF ConsumerInv, ConsumerTypeOK
<1>6. pc'[c] = "returned" /\ \A d \in Consumers \ {c} : Same(d)
  BY <1>1, StepTypes DEF Same
<1>7. Grows
  <2>1. Len(topic) \in Nat /\ \A e \in Events : effects[e] \in Nat
    BY TypeFacts DEF ConsumerInv, ConsumerTypeOK
  <2> QED
    BY <1>1, <2>1 DEF Grows
<1>8. committed' = committed \/ \A o \in 1 .. committed' : Settled(o)'
  BY <1>1, <1>2 DEF Settled
<1> QED
  BY <1>1, <1>5, <1>6, <1>7, <1>8, ReturnedKeeps

-----------------------------------------------------------------------------
(* The consumer at work *)

\* Work on the record in hand leaves the positions alone.
LEMMA WorkedOK ==
  ASSUME ConsumerInv, ConsumerTypeOK', Grows, topic' = topic, NEW c \in Consumers,
         pc[c] \in Busy, pc'[c] \in Busy,
         message'[c] = message[c], position'[c] = position[c],
         pc'[c] \in {"check", "handle", "mark"} => topic[message[c]] \in Events,
         pc'[c] = "mark" => effects'[topic[message[c]]] > 0,
         pc'[c] = "commit" => Settled(message[c])'
  PROVE  ConsumerOK(c)'
<1>1. \A o \in 1 .. Len(topic) : Settled(o) => Settled(o)'
  BY SettledStays DEF ConsumerInv
<1>2. /\ message[c] \in 1 .. Len(topic) /\ message[c] \in Nat /\ Len(topic) \in Nat
      /\ \A o \in 1 .. message[c] - 1 : Settled(o)
  BY RecordInHand
<1>3. position[c] \in Nat
  BY TypeFacts DEF ConsumerInv
<1>4. \A o \in 1 .. position[c] - 1 : o <= Len(topic) /\ (Settled(o) \/ o = message[c])
  BY DEF ConsumerInv, ConsumerOK, Behind
<1>5. InHand(c)'
  <2>1. \A o \in 1 .. message[c] - 1 : o \in 1 .. Len(topic)
    BY <1>2
  <2>2. \A o \in 1 .. message[c] - 1 : Settled(o)'
    BY <1>1, <1>2, <2>1
  <2> QED
    BY <1>2, <2>2 DEF InHand
<1>6. Behind(c)'
  <2>1. \A o \in 1 .. position[c] - 1 : o \in 1 .. Len(topic)
    BY <1>2, <1>3, <1>4
  <2>2. \A o \in 1 .. position[c] - 1 : Settled(o)' \/ o = message[c]
    BY <1>1, <1>4, <2>1
  <2> QED
    BY <1>4, <2>2 DEF Behind
<1>7. pc'[c] # "off"
  BY DEF Busy
<1> QED
  BY <1>5, <1>6, <1>7 DEF ConsumerOK, Decoded, Handled, Finished, Away

LEMMA StartKeeps ==
  ASSUME ConsumerInv, NEW c \in Consumers, Start(c)
  PROVE  ConsumerInv'
<1>1. /\ pc[c] = "off" /\ Goto(c, "fetch")
      /\ UNCHANGED <<topic, committed, owner, position, message, shared, seen, effects, dlq, faults>>
  BY DEF Start, group, dedup
<1>2. ConsumerTypeOK'
  BY <1>1, StepTypes DEF ConsumerInv, ConsumerTypeOK
<1>3. pc'[c] = "fetch" /\ \A d \in Consumers \ {c} : Same(d)
  BY <1>1, StepTypes DEF Same
<1>4. position'[c] = 0
  BY <1>1 DEF ConsumerInv, ConsumerOK, Away
<1>5. ConsumerOK(c)'
  BY <1>1, <1>3, <1>4, MovedOK DEF Busy
<1> QED
  BY <1>1, <1>2, <1>3, <1>5, MoveKeeps

LEMMA FetchKeeps ==
  ASSUME ConsumerInv, NEW c \in Consumers, FetchMessage(c)
  PROVE  ConsumerInv'
<1> DEFINE m == position[c]
<1> DEFINE where == IF Decodes(topic[m]) THEN "check" ELSE "dead_letter"
<1>1. /\ pc[c] = "fetch" /\ m \in 1 .. Len(topic)
      /\ message' = [message EXCEPT ![c] = m] /\ position' = [position EXCEPT ![c] = m + 1]
      /\ Goto(c, where)
      /\ UNCHANGED <<topic, committed, owner, shared, seen, effects, dlq, faults>>
  BY DEF FetchMessage, group, dedup
<1>2. /\ message \in [Consumers -> Nat] /\ position \in [Consumers -> Nat]
      /\ m \in Nat /\ Len(topic) \in Nat /\ topic \in Seq(Events \cup {Garbage})
  BY TypeFacts DEF ConsumerInv, ConsumerTypeOK
<1>3. /\ message' \in [Consumers -> Nat] /\ message'[c] = m
      /\ position' \in [Consumers -> Nat] /\ position'[c] = m + 1
      /\ \A d \in Consumers \ {c} : message'[d] = message[d] /\ position'[d] = position[d]
  BY <1>1, <1>2
<1>4. where \in {"check", "dead_letter"}
  OBVIOUS
<1>5. ConsumerTypeOK'
  BY <1>1, <1>3, <1>4, StepTypes DEF ConsumerInv, ConsumerTypeOK
<1>6. pc'[c] = where /\ \A d \in Consumers \ {c} : Same(d)
  BY <1>1, <1>3, <1>4, StepTypes DEF Same
<1>7. \A o \in 1 .. m - 1 : Settled(o) /\ o <= Len(topic)
  BY <1>1 DEF ConsumerInv, ConsumerOK, Behind, Busy
<1>8. \A o \in 1 .. (m + 1) - 1 : o \in 1 .. m - 1 \/ o = m
  BY <1>2
<1>9. where = "check" => topic[m] \in Events
  BY <1>1, <1>2 DEF Decodes
<1>10. ConsumerOK(c)'
  <2>1. pc'[c] \in {"check", "dead_letter"}
    BY <1>4, <1>6
  <2>2. pc'[c] = "check" => topic[m] \in Events
    BY <1>6, <1>9
  <2> HIDE DEF m, where
  <2>3. \A o \in 1 .. position'[c] - 1 : o <= Len(topic) /\ (Settled(o) \/ o = message'[c])
    BY <1>1, <1>2, <1>3, <1>7, <1>8
  <2> QED
    BY <1>1, <1>3, <1>7, <2>1, <2>2, <2>3, MovedOK DEF Busy
<1> QED
  BY <1>1, <1>5, <1>6, <1>10, MoveKeeps

\* A duplicate is finished because its event was handled before.
LEMMA IsDuplicateKeeps ==
  ASSUME ConsumerInv, NEW c \in Consumers, IsDuplicate(c)
  PROVE  ConsumerInv'
<1> DEFINE where == IF topic[message[c]] \in seen[c] THEN "commit" ELSE "handle"
<1>1. /\ pc[c] = "check" /\ Goto(c, where)
      /\ UNCHANGED <<topic, committed, owner, position, message, shared, seen, effects, dlq, faults>>
  BY DEF IsDuplicate, group, dedup
<1>2. where \in {"commit", "handle"}
  OBVIOUS
<1>3. ConsumerTypeOK'
  BY <1>1, <1>2, StepTypes DEF ConsumerInv, ConsumerTypeOK
<1>4. pc'[c] = where /\ \A d \in Consumers \ {c} : Same(d)
  BY <1>1, <1>2, StepTypes DEF Same
<1>5. topic[message[c]] \in Events
  BY <1>1 DEF ConsumerInv, ConsumerOK, Decoded
<1>6. where = "commit" => Settled(message[c])
  BY <1>5 DEF Settled, ConsumerInv, SeenIsHandled
<1>7. ConsumerOK(c)'
  <2>1. Grows
    <3>1. Len(topic) \in Nat /\ \A e \in Events : effects[e] \in Nat
      BY TypeFacts DEF ConsumerInv, ConsumerTypeOK
    <3> QED
      BY <1>1, <3>1 DEF Grows
  <2>2. pc'[c] = "commit" => Settled(message[c])'
    BY <1>1, <1>4, <1>6 DEF Settled
  <2>3. pc'[c] \in {"commit", "handle"}
    BY <1>2, <1>4
  <2> HIDE DEF where
  <2> QED
    BY <1>1, <1>3, <1>5, <2>1, <2>2, <2>3, WorkedOK DEF Busy
<1> QED
  BY <1>1, <1>3, <1>4, <1>7, MoveKeeps

LEMMA HandleKeeps ==
  ASSUME ConsumerInv, NEW c \in Consumers, Handle(c)
  PROVE  ConsumerInv'
<1> DEFINE e == topic[message[c]]
<1>1. /\ pc[c] = "handle" /\ Goto(c, "mark")
      /\ effects' = [effects EXCEPT ![e] = @ + 1]
      /\ UNCHANGED <<topic, committed, owner, position, message, shared, seen, dlq, faults>>
  BY DEF Handle, group, dedup
<1>2. e \in Events /\ effects \in [Events -> Nat]
  BY <1>1 DEF ConsumerInv, ConsumerTypeOK, ConsumerOK, Decoded
<1>3. /\ effects' \in [Events -> Nat] /\ effects'[e] > 0
      /\ \A x \in Events : effects[x] <= effects'[x]
  <2> HIDE DEF e
  <2> QED
    BY <1>1, <1>2
<1>4. ConsumerTypeOK'
  BY <1>1, <1>3, StepTypes DEF ConsumerInv, ConsumerTypeOK
<1>5. pc'[c] = "mark" /\ \A d \in Consumers \ {c} : Same(d)
  BY <1>1, StepTypes DEF Same
<1>6. Grows
  BY <1>1, <1>3, TypeFacts DEF Grows, ConsumerInv
<1>7. ConsumerOK(c)'
  BY <1>1, <1>2, <1>3, <1>4, <1>5, <1>6, WorkedOK DEF Busy
<1> QED
  BY <1>1, <1>4, <1>5, <1>6, <1>7, StepKeeps

LEMMA HandlerFailsKeeps ==
  ASSUME ConsumerInv, NEW c \in Consumers, HandlerFails(c)
  PROVE  ConsumerInv'
<1>1. /\ pc[c] = "handle" /\ Goto(c, "dead_letter")
      /\ UNCHANGED <<topic, committed, owner, position, message, shared, seen, effects, dlq, faults>>
  BY DEF HandlerFails, group, dedup
<1>2. ConsumerTypeOK'
  BY <1>1, StepTypes DEF ConsumerInv, ConsumerTypeOK
<1>3. pc'[c] = "dead_letter" /\ \A d \in Consumers \ {c} : Same(d)
  BY <1>1, StepTypes DEF Same
<1>4. Grows
  <2>1. Len(topic) \in Nat /\ \A e \in Events : effects[e] \in Nat
    BY TypeFacts DEF ConsumerInv, ConsumerTypeOK
  <2> QED
    BY <1>1, <2>1 DEF Grows
<1>5. ConsumerOK(c)'
  BY <1>1, <1>2, <1>3, <1>4, WorkedOK DEF Busy
<1> QED
  BY <1>1, <1>2, <1>3, <1>5, MoveKeeps

LEMMA MarkKeeps ==
  ASSUME ConsumerInv, NEW c \in Consumers, Mark(c)
  PROVE  ConsumerInv'
<1> DEFINE e == topic[message[c]]
<1>1. /\ pc[c] = "mark" /\ Goto(c, "commit") /\ seen' = MarkProcessed(c, e)
      /\ UNCHANGED <<topic, committed, owner, position, message, shared, effects, dlq, faults>>
  BY DEF Mark, group
<1>2. e \in Events /\ effects[e] > 0
  BY <1>1 DEF ConsumerInv, ConsumerOK, Decoded, Handled
<1>3. /\ seen' \in [Consumers -> SUBSET Events]
      /\ \A d \in Consumers : \A x \in seen'[d] : x \in seen[d] \/ effects'[x] > 0
  <2>1. seen \in [Consumers -> SUBSET Events]
    BY DEF ConsumerInv, ConsumerTypeOK
  <2>2. \A d \in Consumers : seen'[d] \in {seen[d], seen[d] \cup {e}}
    BY <1>1, <2>1 DEF MarkProcessed
  <2>3. seen' = [d \in Consumers |-> seen'[d]]
    BY <1>1 DEF MarkProcessed
  <2> HIDE DEF e
  <2>4. \A d \in Consumers : seen'[d] \in SUBSET Events
    BY <1>2, <2>1, <2>2
  <2>5. \A d \in Consumers : \A x \in seen'[d] : x \in seen[d] \/ x = e
    BY <2>2
  <2> QED
    BY <1>1, <1>2, <2>3, <2>4, <2>5
<1>4. ConsumerTypeOK'
  BY <1>1, <1>3, StepTypes DEF ConsumerInv, ConsumerTypeOK
<1>5. pc'[c] = "commit" /\ \A d \in Consumers \ {c} : Same(d)
  BY <1>1, StepTypes DEF Same
<1>6. Grows
  <2>1. Len(topic) \in Nat /\ \A x \in Events : effects[x] \in Nat
    BY TypeFacts DEF ConsumerInv, ConsumerTypeOK
  <2> QED
    BY <1>1, <2>1 DEF Grows
<1>7. Settled(message[c])'
  BY <1>1, <1>2 DEF Settled
<1>8. ConsumerOK(c)'
  BY <1>1, <1>4, <1>5, <1>6, <1>7, WorkedOK DEF Busy
<1> QED
  BY <1>1, <1>3, <1>4, <1>5, <1>6, <1>8, StepKeeps

LEMMA DeadLetterKeeps ==
  ASSUME ConsumerInv, NEW c \in Consumers, DeadLetter(c)
  PROVE  ConsumerInv'
<1>1. /\ pc[c] = "dead_letter" /\ Goto(c, "commit") /\ dlq' = dlq \cup {message[c]}
      /\ UNCHANGED <<topic, committed, owner, position, message, shared, seen, effects, faults>>
  BY DEF DeadLetter, group, dedup
<1>2. dlq' \in SUBSET Nat
  BY <1>1, TypeFacts DEF ConsumerInv, ConsumerTypeOK
<1>3. ConsumerTypeOK'
  BY <1>1, <1>2, StepTypes DEF ConsumerInv, ConsumerTypeOK
<1>4. pc'[c] = "commit" /\ \A d \in Consumers \ {c} : Same(d)
  BY <1>1, StepTypes DEF Same
<1>5. Grows
  <2>1. Len(topic) \in Nat /\ \A e \in Events : effects[e] \in Nat
    BY TypeFacts DEF ConsumerInv, ConsumerTypeOK
  <2> QED
    BY <1>1, <2>1 DEF Grows
<1>6. Settled(message[c])'
  BY <1>1 DEF Settled
<1>7. ConsumerOK(c)'
  BY <1>1, <1>3, <1>4, <1>5, <1>6, WorkedOK DEF Busy
<1> QED
  BY <1>1, <1>3, <1>4, <1>5, <1>7, StepKeeps

\* The commit names the record in hand, and all before it are settled.
LEMMA CommitKeeps ==
  ASSUME ConsumerInv, NEW c \in Consumers, CommitMessages(c)
  PROVE  ConsumerInv'
<1>1. /\ pc[c] = "commit" /\ Goto(c, "fetch") /\ committed' = message[c]
      /\ UNCHANGED <<topic, owner, position, message, shared, seen, effects, dlq, faults>>
  BY DEF CommitMessages, dedup
<1>2. /\ message[c] \in Nat /\ message[c] <= Len(topic) /\ Len(topic) \in Nat
      /\ \A o \in 1 .. message[c] : Settled(o)
  BY <1>1, RecordInHand DEF Busy
<1>3. committed' \in 0 .. Len(topic)
  BY <1>1, <1>2
<1>4. ConsumerTypeOK'
  BY <1>1, <1>3, StepTypes DEF ConsumerInv, ConsumerTypeOK
<1>5. pc'[c] = "fetch" /\ \A d \in Consumers \ {c} : Same(d)
  BY <1>1, StepTypes DEF Same
<1>6. Grows
  <2>1. \A e \in Events : effects[e] \in Nat
    BY DEF ConsumerInv, ConsumerTypeOK
  <2> QED
    BY <1>1, <1>2, <2>1 DEF Grows
<1>7. \A o \in 1 .. committed' : Settled(o)'
  BY <1>1, <1>2 DEF Settled
<1>8. Settled(message[c]) /\ ConsumerOK(c)
  BY <1>1 DEF ConsumerInv, ConsumerOK, Finished
<1>9. ConsumerOK(c)'
  <2>1. \A o \in 1 .. position[c] - 1 : o <= Len(topic) /\ Settled(o)
    BY <1>1, <1>8 DEF ConsumerOK, Behind, Busy
  <2> QED
    BY <1>1, <1>5, <2>1, MovedOK DEF Busy
<1> QED
  BY <1>1, <1>4, <1>5, <1>6, <1>7, <1>9, StepKeeps

-----------------------------------------------------------------------------

LEMMA ProduceKeeps ==
  ASSUME ConsumerInv, NEW record \in Events \cup {Garbage}, Produce(record)
  PROVE  ConsumerInv'
<1>1. /\ topic' = Append(topic, record)
      /\ UNCHANGED <<committed, owner, pc, position, message, shared, seen, effects, dlq, faults>>
  BY DEF Produce, group, process, dedup
<1>2. topic \in Seq(Events \cup {Garbage}) /\ Len(topic) \in Nat /\ committed \in 0 .. Len(topic)
  BY TypeFacts DEF ConsumerInv
<1>3. /\ topic' \in Seq(Events \cup {Garbage}) /\ Len(topic') = Len(topic) + 1
      /\ \A o \in 1 .. Len(topic) : topic'[o] = topic[o]
  BY <1>1, <1>2
<1>4. committed' \in 0 .. Len(topic')
  BY <1>1, <1>2, <1>3
<1>5. ConsumerTypeOK'
  BY <1>1, <1>3, <1>4 DEF ConsumerInv, ConsumerTypeOK
<1>6. Grows
  <2>1. \A e \in Events : effects[e] \in Nat
    BY DEF ConsumerInv, ConsumerTypeOK
  <2> QED
    BY <1>1, <1>2, <1>3, <2>1 DEF Grows
<1>7. \A d \in Consumers : ConsumerOK(d)'
  BY <1>1, <1>5, <1>6, OthersStay DEF Same
<1>8. SeenIsHandled'
  BY <1>1 DEF ConsumerInv, SeenIsHandled
<1>9. CommittedIsSettled'
  <2> SUFFICES ASSUME NEW o \in 1 .. committed PROVE Settled(o)'
    BY <1>1 DEF CommittedIsSettled
  <2>1. o \in 1 .. Len(topic) /\ Settled(o)
    BY <1>2 DEF ConsumerInv, CommittedIsSettled
  <2> QED
    BY <1>5, <1>6, <2>1, SettledStays DEF ConsumerInv
<1> QED
  BY <1>5, <1>7, <1>8, <1>9 DEF ConsumerInv

LEMMA ConsumerStart == Init => ConsumerInv
<1> SUFFICES ASSUME Init PROVE ConsumerInv
  OBVIOUS
<1>1. Len(topic) = 0 /\ topic \in Seq(Events \cup {Garbage})
  BY DEF Init
<1>2. ConsumerTypeOK
  BY <1>1, ConsumerAssumption DEF Init, ConsumerTypeOK
<1>3. SeenIsHandled /\ CommittedIsSettled
  BY DEF Init, SeenIsHandled, CommittedIsSettled
<1>4. ASSUME NEW c \in Consumers PROVE ConsumerOK(c)
  BY DEF Init, ConsumerOK, InHand, Behind, Decoded, Handled, Finished, Away, Busy
<1> QED
  BY <1>2, <1>3, <1>4 DEF ConsumerInv

LEMMA ConsumerInductive == Spec => []ConsumerInv
<1>1. ConsumerInv /\ [Next]_vars => ConsumerInv'
  <2> SUFFICES ASSUME ConsumerInv, [Next]_vars PROVE ConsumerInv'
    OBVIOUS
  <2>1. ASSUME NEW record \in Events \cup {Garbage}, Produce(record) PROVE ConsumerInv'
    BY <2>1, ProduceKeeps
  <2>2. ASSUME NEW c \in Consumers, Assign(c) \/ Rebalance(c) \/ Revoked(c) PROVE ConsumerInv'
    BY <2>2, GivenKeeps, RevokedKeeps
  <2>3. ASSUME NEW c \in Consumers, Start(c) \/ Close(c) \/ Crash(c) PROVE ConsumerInv'
    BY <2>3, StartKeeps, CloseKeeps, CrashKeeps
  <2>4. ASSUME NEW c \in Consumers, Work(c) PROVE ConsumerInv'
    BY <2>4, FetchKeeps, IsDuplicateKeeps, HandleKeeps, HandlerFailsKeeps, MarkKeeps,
       DeadLetterKeeps, CommitKeeps DEF Work
  <2>5. ASSUME NEW c \in Consumers, DedupFails(c) \/ DeadLetterFails(c) \/ CommitFails(c)
        PROVE  ConsumerInv'
    BY <2>5, DedupFailsKeeps, DeadLetterFailsKeeps, CommitFailsKeeps
  <2>6. CASE UNCHANGED vars
    <3>1. UNCHANGED <<topic, committed, owner, pc, position, message, shared, seen, effects, dlq, faults>>
      BY <2>6 DEF vars, group, process, dedup
    <3> QED
      BY <3>1 DEF ConsumerInv, ConsumerTypeOK, SeenIsHandled, CommittedIsSettled, ConsumerOK,
                  InHand, Behind, Decoded, Handled, Finished, Away, Settled
  <2> QED
    BY <2>1, <2>2, <2>3, <2>4, <2>5, <2>6 DEF Next
<1> QED
  BY <1>1, ConsumerStart, PTL DEF Spec

\* Every variable of the consumers keeps its type (Consumer, MemoryDeduplicator).
THEOREM ConsumerTypeTheorem == Spec => []ConsumerTypeOK
<1>1. ConsumerInv => ConsumerTypeOK
  BY DEF ConsumerInv
<1> QED
  BY <1>1, ConsumerInductive, PTL

\* At least once: a committed record was handled or dead-lettered (Start,
\* processMessage).
THEOREM AtLeastOnce == Spec => []CommittedIsSettled
<1>1. ConsumerInv => CommittedIsSettled
  BY DEF ConsumerInv
<1> QED
  BY <1>1, ConsumerInductive, PTL

\* A deduplicator knows only what was handled (IsDuplicate, MarkProcessed).
THEOREM SeenTheorem == Spec => []SeenIsHandled
<1>1. ConsumerInv => SeenIsHandled
  BY DEF ConsumerInv
<1> QED
  BY <1>1, ConsumerInductive, PTL

-----------------------------------------------------------------------------
(* How often an event is handled.  Every handling uses up a consumer that  *)
(* would handle the event (Ready), and a consumer becomes one only when it *)
(* is given the partition: after a rebalance, which is a fault, or when no *)
(* member that still works has it (Ungiven), which only a fault brings     *)
(* about after the first time.                                             *)

\* Consumer c would handle event e with the partition as it is.
WouldHandle(c, e) ==
  \/ pc[c] = "handle" /\ topic[message[c]] = e
  \/ /\ e \notin seen[c]
     /\ \/ pc[c] = "check" /\ topic[message[c]] = e
        \/ /\ position[c] # 0
           /\ pc[c] \notin {"off", "returned"}
           /\ ~(pc[c] = "mark" /\ topic[message[c]] = e)

Ready(e) == {c \in Consumers : WouldHandle(c, e)}

Ungiven == owner = None \/ pc[owner] = "returned"

Slack == IF Ungiven THEN 1 ELSE 0

Bounded(e) ==
  IsFiniteSet(Ready(e)) /\ effects[e] + Cardinality(Ready(e)) + Slack <= 1 + faults

EffectsInv ==
  /\ \A c \in Consumers : pc[c] = "off" => owner # c
  /\ \A e \in Events : Bounded(e)

\* A consumer that does nothing is no more ready than it was.
LEMMA OthersReady ==
  ASSUME ConsumerInv, NEW d \in Consumers, Same(d), seen[d] \subseteq seen'[d],
         \A o \in 1 .. Len(topic) : topic'[o] = topic[o],
         NEW e \in Events, WouldHandle(d, e)'
  PROVE  WouldHandle(d, e)
<1>1. pc'[d] = pc[d] /\ message'[d] = message[d] /\ position'[d] = position[d]
  BY DEF Same
<1>2. pc[d] \in Busy => topic'[message[d]] = topic[message[d]]
  BY DEF ConsumerInv, ConsumerOK, InHand
<1> QED
  BY <1>1, <1>2 DEF WouldHandle, Busy

\* A step that makes no consumer ready, and costs a fault when it leaves the
\* partition to nobody.
LEMMA NoneReady ==
  ASSUME ConsumerInv, EffectsInv, effects' = effects,
         \/ faults' = faults + 1
         \/ faults' = faults /\ (Ungiven' => Ungiven),
         \A d \in Consumers : \A e \in Events : WouldHandle(d, e)' => WouldHandle(d, e),
         \A d \in Consumers : pc'[d] = "off" => owner' # d
  PROVE  EffectsInv'
<1>1. Slack \in {0, 1} /\ Slack' \in {0, 1} /\ faults \in Nat
  BY ConsumerAssumption DEF Slack, ConsumerInv, ConsumerTypeOK
<1>2. faults' = faults + 1 \/ (faults' = faults /\ Slack' <= Slack)
  BY <1>1 DEF Slack
<1>3. ASSUME NEW e \in Events PROVE Bounded(e)'
  <2>1. Ready(e)' \in SUBSET Ready(e)
    BY DEF Ready
  <2>2. IsFiniteSet(Ready(e)) /\ effects[e] + Cardinality(Ready(e)) + Slack <= 1 + faults
    BY DEF EffectsInv, Bounded
  <2>3. /\ IsFiniteSet(Ready(e)') /\ Cardinality(Ready(e)') <= Cardinality(Ready(e))
        /\ Cardinality(Ready(e)) \in Nat /\ Cardinality(Ready(e)') \in Nat
    BY <2>1, <2>2, FS_Subset, FS_CardinalityType
  <2>4. effects[e] \in Nat
    BY DEF ConsumerInv, ConsumerTypeOK
  <2>5. effects[e] + Cardinality(Ready(e)') + Slack' <= 1 + faults'
    BY <1>1, <1>2, <2>2, <2>3, <2>4
  <2> QED
    BY <2>3, <2>5 DEF Bounded
<1> QED
  BY <1>3 DEF EffectsInv

LEMMA GivenReady ==
  ASSUME ConsumerInv, EffectsInv, NEW c \in Consumers, Assign(c) \/ Rebalance(c)
  PROVE  EffectsInv'
<1>1. /\ pc[c] \notin {"off", "returned"} /\ owner' = c
      /\ position' = [position EXCEPT ![c] = committed + 1]
      /\ UNCHANGED <<topic, pc, message, seen, effects>>
      /\ \/ owner = None /\ faults' = faults
         \/ faults' = faults + 1
  BY DEF Assign, Rebalance, GivePartition, Fault, dedup
<1>2. c # None /\ ~Ungiven'
  BY <1>1, ConsumerAssumption DEF Ungiven
<1>3. Slack' = 0 /\ Slack \in {0, 1} /\ faults \in Nat
  BY <1>2, ConsumerAssumption DEF Slack, ConsumerInv, ConsumerTypeOK
<1>4. faults' = faults + 1 \/ (faults' = faults /\ Slack = 1)
  BY <1>1 DEF Slack, Ungiven
<1>5. \A d \in Consumers \ {c} : Same(d)
  BY <1>1 DEF Same, ConsumerInv, ConsumerTypeOK
<1>6. ASSUME NEW e \in Events PROVE Bounded(e)'
  <2>1. \A d \in Consumers \ {c} : WouldHandle(d, e)' => WouldHandle(d, e)
    BY <1>1, <1>5, OthersReady
  <2>2. Ready(e)' \in SUBSET (Ready(e) \cup {c})
    BY <2>1 DEF Ready
  <2>3. IsFiniteSet(Ready(e)) /\ effects[e] + Cardinality(Ready(e)) + Slack <= 1 + faults
    BY DEF EffectsInv, Bounded
  <2>4. /\ IsFiniteSet(Ready(e) \cup {c}) /\ Cardinality(Ready(e) \cup {c}) <= Cardinality(Ready(e)) + 1
        /\ Cardinality(Ready(e)) \in Nat /\ Cardinality(Ready(e) \cup {c}) \in Nat
    <3>1. Cardinality(Ready(e)) \in Nat
      BY <2>3, FS_CardinalityType
    <3>2. /\ IsFiniteSet(Ready(e) \cup {c})
          /\ Cardinality(Ready(e) \cup {c}) =
               IF c \in Ready(e) THEN Cardinality(Ready(e)) ELSE Cardinality(Ready(e)) + 1
      BY <2>3, FS_AddElement, Zenon
    <3> QED
      BY <3>1, <3>2
  <2>5. IsFiniteSet(Ready(e)') /\ Cardinality(Ready(e)') <= Cardinality(Ready(e) \cup {c})
    BY <2>2, <2>4, FS_Subset
  <2>6. Cardinality(Ready(e)') \in Nat /\ effects[e] \in Nat
    BY <2>5, FS_CardinalityType DEF ConsumerInv, ConsumerTypeOK
  <2>7. effects[e] + Cardinality(Ready(e)') + Slack' <= 1 + faults'
    BY <1>3, <1>4, <2>3, <2>4, <2>5, <2>6
  <2> QED
    BY <1>1, <2>5, <2>7 DEF Bounded
<1>7. \A d \in Consumers : pc'[d] = "off" => owner' # d
  BY <1>1
<1> QED
  BY <1>6, <1>7 DEF EffectsInv

\* Handle uses c up for its event, and is nothing to the others.
LEMMA HandledReady ==
  ASSUME ConsumerInv, EffectsInv, NEW c \in Consumers, Handle(c)
  PROVE  EffectsInv'
<1> DEFINE done == topic[message[c]]
<1>1. /\ pc[c] = "handle" /\ Goto(c, "mark")
      /\ effects' = [effects EXCEPT ![done] = @ + 1]
      /\ UNCHANGED <<topic, owner, position, message, seen, faults>>
  BY DEF Handle, group, dedup
<1>2. pc'[c] = "mark" /\ \A d \in Consumers \ {c} : Same(d)
  BY <1>1, StepTypes DEF Same
<1>3. owner \in Consumers => (pc'[owner] = "returned" <=> pc[owner] = "returned")
  BY <1>1, <1>2 DEF Same
<1>4. Slack' = Slack /\ Slack \in {0, 1} /\ faults \in Nat
  BY <1>1, <1>3, ConsumerAssumption DEF Slack, Ungiven, ConsumerInv, ConsumerTypeOK
<1>5. \A d \in Consumers \ {c} : \A e \in Events : WouldHandle(d, e)' => WouldHandle(d, e)
  BY <1>1, <1>2, OthersReady
<1>6. \A e \in Events : WouldHandle(c, e)' => WouldHandle(c, e) /\ e # done
  BY <1>1, <1>2 DEF WouldHandle
<1>7. WouldHandle(c, done)
  BY <1>1 DEF WouldHandle
<1> HIDE DEF done
<1>8. ASSUME NEW e \in Events PROVE Bounded(e)'
  <2>1. IsFiniteSet(Ready(e)) /\ effects[e] + Cardinality(Ready(e)) + Slack <= 1 + faults
    BY DEF EffectsInv, Bounded
  <2>2. effects \in [Events -> Nat] /\ effects[e] \in Nat /\ Cardinality(Ready(e)) \in Nat
    BY <2>1, FS_CardinalityType DEF ConsumerInv, ConsumerTypeOK
  <2>3. CASE e = done
    <3>1. c \in Ready(e) /\ Ready(e)' \in SUBSET (Ready(e) \ {c})
      BY <1>5, <1>6, <1>7, <2>3 DEF Ready
    <3>2. IsFiniteSet(Ready(e) \ {c}) /\ Cardinality(Ready(e) \ {c}) = Cardinality(Ready(e)) - 1
      BY <2>1, <3>1, FS_RemoveElement
    <3>3. IsFiniteSet(Ready(e)') /\ Cardinality(Ready(e)') <= Cardinality(Ready(e)) - 1
      BY <3>1, <3>2, FS_Subset
    <3>4. Cardinality(Ready(e)') \in Nat
      BY <3>3, FS_CardinalityType
    <3>5. effects'[e] = effects[e] + 1
      BY <1>1, <2>2, <2>3
    <3>6. effects'[e] + Cardinality(Ready(e)') + Slack' <= 1 + faults
      BY <1>4, <2>1, <2>2, <3>3, <3>4, <3>5
    <3> QED
      BY <1>1, <3>3, <3>6 DEF Bounded
  <2>4. CASE e # done
    <3>1. Ready(e)' \in SUBSET Ready(e)
      BY <1>5, <1>6 DEF Ready
    <3>2. IsFiniteSet(Ready(e)') /\ Cardinality(Ready(e)') <= Cardinality(Ready(e))
      BY <2>1, <3>1, FS_Subset
    <3>3. Cardinality(Ready(e)') \in Nat
      BY <3>2, FS_CardinalityType
    <3>4. effects'[e] = effects[e]
      BY <1>1, <2>2, <2>4
    <3>5. effects'[e] + Cardinality(Ready(e)') + Slack' <= 1 + faults
      BY <1>4, <2>1, <2>2, <3>2, <3>3, <3>4
    <3> QED
      BY <1>1, <3>2, <3>5 DEF Bounded
  <2> QED
    BY <2>3, <2>4
<1>9. \A d \in Consumers : pc'[d] = "off" => owner' # d
  <2>1. \A d \in Consumers : pc'[d] = "off" => pc[d] = "off"
    BY <1>2 DEF Same
  <2> QED
    BY <1>1, <2>1 DEF EffectsInv
<1> QED
  BY <1>8, <1>9 DEF EffectsInv

\* The rest of the work: no fault, no handling, and the owner does not change.
LEMMA WorkedReady ==
  ASSUME ConsumerInv, EffectsInv, NEW c \in Consumers,
         FetchMessage(c) \/ IsDuplicate(c) \/ HandlerFails(c) \/ Mark(c) \/ DeadLetter(c)
         \/ CommitMessages(c) \/ Start(c) \/ Revoked(c)
  PROVE  EffectsInv'
<1>1. /\ topic' = topic /\ owner' = owner /\ effects' = effects /\ faults' = faults
      /\ \A d \in Consumers : seen[d] \subseteq seen'[d]
  BY DEF FetchMessage, IsDuplicate, HandlerFails, Mark, MarkProcessed, DeadLetter,
         CommitMessages, Start, Revoked, group, dedup
<1>2. /\ \A d \in Consumers \ {c} : Same(d)
      /\ pc'[c] = pc[c] \/ pc'[c] \notin {"off", "returned"}
  <2>1. /\ pc \in [Consumers -> {"off", "fetch", "check", "handle", "mark", "dead_letter",
                                 "commit", "returned"}]
        /\ position \in [Consumers -> Nat] /\ message \in [Consumers -> Nat]
    BY DEF ConsumerInv, ConsumerTypeOK
  <2>2. CASE FetchMessage(c)
    BY <2>1, <2>2 DEF FetchMessage, Goto, Same
  <2>3. CASE IsDuplicate(c)
    BY <2>1, <2>3 DEF IsDuplicate, Goto, Same
  <2>4. CASE HandlerFails(c) \/ Mark(c) \/ DeadLetter(c)
    BY <2>1, <2>4 DEF HandlerFails, Mark, DeadLetter, Goto, Same
  <2>5. CASE CommitMessages(c) \/ Start(c)
    BY <2>1, <2>5 DEF CommitMessages, Start, Goto, Same
  <2>6. CASE Revoked(c)
    BY <2>1, <2>6 DEF Revoked, Same
  <2> QED
    BY <2>2, <2>3, <2>4, <2>5, <2>6
<1>3. ASSUME NEW e \in Events, WouldHandle(c, e)' PROVE WouldHandle(c, e)
  <2>1. /\ c \in DOMAIN pc /\ c \in DOMAIN position /\ c \in DOMAIN message
        /\ position[c] \in Nat
    BY DEF ConsumerInv, ConsumerTypeOK
  <2>2. CASE FetchMessage(c)
    <3>1. pc[c] = "fetch" /\ position[c] # 0 /\ seen' = seen /\ pc'[c] \in {"check", "dead_letter"}
      BY <2>1, <2>2 DEF FetchMessage, Goto, dedup
    <3> QED
      BY <1>3, <3>1 DEF WouldHandle
  <2>3. CASE IsDuplicate(c)
    BY <1>3, <2>1, <2>3 DEF IsDuplicate, Goto, WouldHandle, process, dedup
  <2>4. CASE HandlerFails(c)
    BY <1>3, <2>1, <2>4 DEF HandlerFails, Goto, WouldHandle, dedup
  <2>5. CASE Mark(c)
    <3>1. /\ pc'[c] = "commit" /\ seen'[c] = seen[c] \cup {topic[message[c]]} /\ pc[c] = "mark"
          /\ position' = position /\ message' = message
      BY <2>1, <2>5 DEF Mark, Goto, MarkProcessed
    <3> QED
      BY <1>1, <1>3, <3>1 DEF WouldHandle
  <2>6. CASE DeadLetter(c) \/ CommitMessages(c)
    BY <1>3, <2>1, <2>6 DEF DeadLetter, CommitMessages, Goto, WouldHandle, dedup
  <2>7. CASE Start(c)
    <3>1. position[c] = 0 /\ pc'[c] = "fetch" /\ position' = position
      BY <2>1, <2>7 DEF Start, Goto, ConsumerInv, ConsumerOK, Away
    <3> QED
      BY <1>3, <3>1 DEF WouldHandle
  <2>8. CASE Revoked(c)
    BY <1>3, <2>1, <2>8 DEF Revoked, WouldHandle, dedup
  <2> QED
    BY <2>2, <2>3, <2>4, <2>5, <2>6, <2>7, <2>8
<1>4. \A d \in Consumers : \A e \in Events : WouldHandle(d, e)' => WouldHandle(d, e)
  BY <1>1, <1>2, <1>3, OthersReady
<1>5. Ungiven' => Ungiven
  <2>1. owner \in Consumers \cup {None}
    BY DEF ConsumerInv, ConsumerTypeOK
  <2> QED
    BY <1>1, <1>2, <2>1 DEF Ungiven, Same
<1>6. \A d \in Consumers : pc'[d] = "off" => owner' # d
  <2>1. \A d \in Consumers : pc'[d] = "off" => pc[d] = "off"
    BY <1>2 DEF Same
  <2> QED
    BY <1>1, <2>1 DEF EffectsInv
<1> QED
  BY <1>1, <1>4, <1>5, <1>6, NoneReady

\* An error costs a fault, and the consumer that has returned does nothing.
LEMMA ReturnedReady ==
  ASSUME ConsumerInv, EffectsInv, NEW c \in Consumers,
         DedupFails(c) \/ DeadLetterFails(c) \/ CommitFails(c)
  PROVE  EffectsInv'
<1>1. /\ Goto(c, "returned") /\ faults' = faults + 1
      /\ UNCHANGED <<topic, owner, position, message, seen, effects>>
  BY DEF DedupFails, DeadLetterFails, CommitFails, Return, Fault, dedup
<1>2. pc'[c] = "returned" /\ \A d \in Consumers \ {c} : Same(d)
  BY <1>1, StepTypes DEF Same
<1>3. \A d \in Consumers \ {c} : \A e \in Events : WouldHandle(d, e)' => WouldHandle(d, e)
  BY <1>1, <1>2, OthersReady
<1>4. \A e \in Events : ~WouldHandle(c, e)'
  BY <1>2 DEF WouldHandle
<1>5. \A d \in Consumers : pc'[d] = "off" => owner' # d
  <2>1. \A d \in Consumers : pc'[d] = "off" => pc[d] = "off"
    BY <1>2 DEF Same
  <2> QED
    BY <1>1, <2>1 DEF EffectsInv
<1> QED
  BY <1>1, <1>3, <1>4, <1>5, NoneReady

\* A consumer that leaves had returned, or dies of a fault.
LEMMA LeftReady ==
  ASSUME ConsumerInv, EffectsInv, NEW c \in Consumers, Close(c) \/ Crash(c)
  PROVE  EffectsInv'
<1>1. /\ Leave(c) /\ Goto(c, "off") /\ topic' = topic /\ effects' = effects
      /\ \/ pc[c] = "returned" /\ faults' = faults
         \/ faults' = faults + 1
  BY DEF Close, Crash, Fault
<1>2. pc'[c] = "off" /\ \A d \in Consumers \ {c} : pc'[d] = pc[d]
  BY <1>1, StepTypes
<1>3. \A d \in Consumers \ {c} : Same(d) /\ seen[d] \subseteq seen'[d]
  <2>1. \A d \in Consumers \ {c} : seen'[d] = seen[d]
    BY DEF Close, Crash, dedup, ConsumerInv, ConsumerTypeOK
  <2> QED
    BY <1>1, <1>2, <2>1 DEF Leave, Same, ConsumerInv, ConsumerTypeOK
<1>4. \A d \in Consumers \ {c} : \A e \in Events : WouldHandle(d, e)' => WouldHandle(d, e)
  BY <1>1, <1>3, OthersReady
<1>5. \A e \in Events : ~WouldHandle(c, e)'
  BY <1>2 DEF WouldHandle
<1>6. owner' = IF owner = c THEN None ELSE owner
  BY <1>1 DEF Leave
<1>7. pc[c] = "returned" => (Ungiven' => Ungiven)
  <2>1. owner \in Consumers \cup {None}
    BY DEF ConsumerInv, ConsumerTypeOK
  <2> QED
    BY <1>2, <1>6, <2>1 DEF Ungiven
<1>8. \A d \in Consumers : pc'[d] = "off" => owner' # d
  BY <1>2, <1>6, ConsumerAssumption DEF EffectsInv
<1> QED
  BY <1>1, <1>4, <1>5, <1>7, <1>8, NoneReady

LEMMA EffectsStart == Init => EffectsInv
<1> SUFFICES ASSUME Init PROVE EffectsInv
  OBVIOUS
<1>1. \A e \in Events : Ready(e) = {} /\ effects[e] = 0
  BY DEF Init, Ready, WouldHandle
<1>2. Slack = 1 /\ faults = 0
  BY DEF Init, Slack, Ungiven
<1>3. IsFiniteSet({}) /\ Cardinality({}) = 0
  BY FS_EmptySet
<1>4. \A e \in Events : Bounded(e)
  BY <1>1, <1>2, <1>3 DEF Bounded
<1> QED
  BY <1>4, ConsumerAssumption DEF Init, EffectsInv

LEMMA EffectsStep ==
  ASSUME ConsumerInv, EffectsInv, [Next]_vars
  PROVE  EffectsInv'
<1>1. ASSUME NEW record \in Events \cup {Garbage}, Produce(record) PROVE EffectsInv'
  <2>1. /\ topic' = Append(topic, record)
        /\ UNCHANGED <<owner, pc, position, message, seen, effects, faults>>
    BY <1>1 DEF Produce, group, process, dedup
  <2>2. topic \in Seq(Events \cup {Garbage})
    BY DEF ConsumerInv, ConsumerTypeOK
  <2>3. \A o \in 1 .. Len(topic) : topic'[o] = topic[o]
    BY <2>1, <2>2
  <2>4. \A d \in Consumers : \A e \in Events : WouldHandle(d, e)' => WouldHandle(d, e)
    BY <2>1, <2>3, OthersReady DEF Same
  <2>5. (Ungiven' => Ungiven) /\ \A d \in Consumers : pc'[d] = "off" => owner' # d
    BY <2>1 DEF Ungiven, EffectsInv
  <2> QED
    BY <2>1, <2>4, <2>5, NoneReady
<1>2. ASSUME NEW c \in Consumers,
             \/ Assign(c) \/ Rebalance(c) \/ Revoked(c)
             \/ Start(c) \/ Close(c)
             \/ Work(c) \/ DedupFails(c) \/ DeadLetterFails(c) \/ CommitFails(c)
             \/ Crash(c)
      PROVE  EffectsInv'
  <2>1. CASE Assign(c) \/ Rebalance(c)
    BY <2>1, GivenReady
  <2>2. CASE Handle(c)
    BY <2>2, HandledReady
  <2>3. CASE DedupFails(c) \/ DeadLetterFails(c) \/ CommitFails(c)
    BY <2>3, ReturnedReady
  <2>4. CASE Close(c) \/ Crash(c)
    BY <2>4, LeftReady
  <2>5. CASE FetchMessage(c) \/ IsDuplicate(c) \/ HandlerFails(c) \/ Mark(c) \/ DeadLetter(c)
             \/ CommitMessages(c) \/ Start(c) \/ Revoked(c)
    BY <2>5, WorkedReady
  <2> QED
    BY <1>2, <2>1, <2>2, <2>3, <2>4, <2>5 DEF Work
<1>3. CASE UNCHANGED vars
  <2>1. UNCHANGED <<topic, owner, pc, position, message, seen, effects, faults>>
    BY <1>3 DEF vars, group, process, dedup
  <2>2. \A e \in Events : Ready(e)' = Ready(e)
    BY <2>1 DEF Ready, WouldHandle
  <2> QED
    BY <2>1, <2>2 DEF EffectsInv, Bounded, Slack, Ungiven
<1> QED
  BY <1>1, <1>2, <1>3 DEF Next

\* The copies of an event are absorbed: it is handled again only for a crash, an
\* error or a rebalance, once for each (processMessage, MemoryDeduplicator).
THEOREM CopiesAreAbsorbed == Spec => []EffectsAreExplained
<1>1. ConsumerInv /\ EffectsInv => EffectsAreExplained
  <2> SUFFICES ASSUME ConsumerInv, EffectsInv, NEW e \in Events PROVE effects[e] <= 1 + faults
    BY DEF EffectsAreExplained
  <2>1. IsFiniteSet(Ready(e)) /\ effects[e] + Cardinality(Ready(e)) + Slack <= 1 + faults
    BY DEF EffectsInv, Bounded
  <2>2. Cardinality(Ready(e)) \in Nat /\ Slack \in {0, 1} /\ effects[e] \in Nat /\ faults \in Nat
    BY <2>1, FS_CardinalityType, ConsumerAssumption DEF Slack, ConsumerInv, ConsumerTypeOK
  <2> QED
    BY <2>1, <2>2
<1> QED
  BY <1>1, ConsumerInductive, EffectsStart, EffectsStep, PTL DEF Spec

=============================================================================
