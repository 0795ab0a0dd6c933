------------------------- MODULE SubscriptionProofs -------------------------
(***************************************************************************)
(* Proofs about Subscription: type correctness and its safety invariants,  *)
(* for any number of ids, goroutines, publishers and events.               *)
(***************************************************************************)
EXTENDS Subscription, TLAPS, FiniteSetTheorems

\* A goroutine not started yet has no id and no cancelled context; a started
\* one owns a Subscriber from Subscribe to Unsubscribe.
GoroutineInv ==
    \A g \in Runs :
        /\ pc[g] = "off" <=> id[g] = NoId
        /\ pc[g] = "off" => g \notin cancelled
        /\ g \in subscribers <=> pc[g] \in {"wait", "send", "unsubscribe"}

\* The table leads to live goroutines, is empty once the connection is closed
\* and, while no id was used twice, holds every live goroutine.
LiveListed == IdsUnique => \A g \in Runs : Live(g) => table[id[g]] = g

ClosedEmpty == conn = "closed" => \A i \in Ids : table[i] = 0

TableInv == TableSound /\ ClosedEmpty /\ LiveListed

\* The table respects the cap whatever ids the client uses.
CapInv == IsFiniteSet(Entries) /\ Cardinality(Entries) <= MaxSubs

\* A publisher has an event exactly while it is publishing.
PublishInv ==
    /\ NoSendOnClosed
    /\ \A p \in Publishers : (ppc[p] = "idle" <=> pev[p] = 0) /\ pev[p] <= Len(evColl)

Reached(g, e) == e \in got[g] \/ \E n \in 1 .. Len(chan[g]) : chan[g][n] = e

\* A subscriber is owed the events of its collection since it subscribed.  It
\* has those that were published completely, and in the middle of a walk the
\* subscribers no longer left to visit have the event.
Owed(g, e) == g \in subscribers \ slow /\ e > since[g] /\ Wants(g, e)

FeedInv ==
    /\ \A g \in Runs, e \in Returned : Owed(g, e) => Reached(g, e)
    /\ \A p \in Publishers, g \in Runs :
        ppc[p] = "loop" /\ Owed(g, pev[p]) => g \in left[p] \/ Reached(g, pev[p])

IInv == TypeOK /\ GoroutineInv /\ TableInv /\ CapInv /\ PublishInv /\ FeedInv

-----------------------------------------------------------------------------
\* A group of variables that a step leaves alone keeps its type.
LEMMA TypeFrame ==
  ASSUME TypeOK
  PROVE  /\ UNCHANGED client => ClientType'
         /\ UNCHANGED goroutine => GoroutineType'
         /\ UNCHANGED pubsub => PubSubType'
         /\ UNCHANGED publisher => PublisherType'
         /\ UNCHANGED history => HistoryType'
  <1>1. UNCHANGED client => ClientType'
    BY DEF TypeOK, ClientType, client
  <1>2. UNCHANGED goroutine => GoroutineType'
    BY DEF TypeOK, GoroutineType, goroutine
  <1>3. UNCHANGED pubsub => PubSubType'
    BY DEF TypeOK, PubSubType, pubsub
  <1>4. UNCHANGED publisher => PublisherType'
    BY DEF TypeOK, PublisherType, publisher
  <1>5. UNCHANGED history => HistoryType'
    BY DEF TypeOK, HistoryType, history
  <1>6. QED
    BY <1>1, <1>2, <1>3, <1>4, <1>5

\* What the provers need of the index sets, which stay folded elsewhere.
LEMMA Indices ==
    /\ Runs \subseteq Nat /\ 0 \notin Runs /\ Events \subseteq Nat
    /\ MaxSubs \in Nat /\ BufferSize \in Nat /\ MaxEvents \in Nat
    /\ AnyColl \notin Colls /\ Asked \subseteq Colls \cup {AnyColl} /\ NoId \notin Ids
    /\ \A e \in Nat : e < MaxEvents => e + 1 \in Events
    /\ \A e \in Events : e > 0 /\ e <= MaxEvents
    /\ \A n \in Nat : n <= MaxEvents => n \in 0 .. MaxEvents
  BY SubscriptionAssumption DEF Runs, Events

\* Every step keeps the type invariant: the groups an action writes are shown
\* one by one, the others come from TypeFrame.  Publishers append only real
\* events to a channel, which is what PublishInv is for.
LEMMA TypeNext == ASSUME TypeOK, PublishInv, [Next]_vars PROVE TypeOK'
  <1> USE Indices
  <1>1. CASE ConnectionInit
    <2>1. ClientType'
      BY <1>1 DEF ConnectionInit, TypeOK, ClientType
    <2>2. QED
      BY TypeFrame, <1>1, <2>1 DEF ConnectionInit, TypeOK
  <1>2. CASE Close
    <2>1. \A i \in Entries : table[i] \in Runs
      BY DEF Entries, TypeOK, ClientType
    <2>2. cancelled' \subseteq Runs
      BY <1>2, <2>1 DEF Close, TypeOK, ClientType
    <2>3. ClientType'
      BY <1>2, <2>2 DEF Close, TypeOK, ClientType
    <2>4. QED
      BY TypeFrame, <1>2, <2>3 DEF Close, TypeOK
  <1>3. ASSUME NEW i \in Ids, CancelSubscription(i) PROVE TypeOK'
    <2>1. ClientType'
      BY <1>3 DEF CancelSubscription, TypeOK, ClientType
    <2>2. QED
      BY TypeFrame, <1>3, <2>1 DEF CancelSubscription, TypeOK
  <1>4. ASSUME NEW g \in Runs, NEW i \in Ids, NEW col \in Asked, HandleSubscribe(g, i, col)
        PROVE TypeOK'
    <2>1. ClientType'
      BY <1>4 DEF HandleSubscribe, TypeOK, ClientType
    <2>2. GoroutineType'
      BY <1>4 DEF HandleSubscribe, TypeOK, GoroutineType
    <2>3. QED
      BY TypeFrame, <1>4, <2>1, <2>2 DEF HandleSubscribe, TypeOK
  <1>5. ASSUME NEW g \in Runs, Subscribe(g) PROVE TypeOK'
    <2>1. GoroutineType'
      BY <1>5 DEF Subscribe, TypeOK, GoroutineType
    <2>2. PubSubType'
      BY <1>5 DEF Subscribe, TypeOK, PubSubType
    <2>3. HistoryType'
      BY <1>5 DEF Subscribe, TypeOK, HistoryType, PublisherType
    <2>4. QED
      BY TypeFrame, <1>5, <2>1, <2>2, <2>3 DEF Subscribe, TypeOK
  <1>6. ASSUME NEW g \in Runs, Take(g) PROVE TypeOK'
    <2>1. GoroutineType'
      BY <1>6 DEF Take, TypeOK, GoroutineType
    <2>2. chan[g] \in Seq(Events) /\ Head(chan[g]) \in Events /\ Tail(chan[g]) \in Seq(Events)
      BY <1>6 DEF Take, TypeOK, PubSubType
    <2>3. PubSubType'
      BY <1>6, <2>2 DEF Take, TypeOK, PubSubType
    <2>4. HistoryType'
      BY <1>6, <2>2 DEF Take, TypeOK, HistoryType
    <2>5. QED
      BY TypeFrame, <1>6, <2>1, <2>3, <2>4 DEF Take, TypeOK
  <1>7. ASSUME NEW g \in Runs, Send(g) \/ Done(g) PROVE TypeOK'
    <2>1. GoroutineType'
      BY <1>7 DEF Send, Done, TypeOK, GoroutineType
    <2>2. QED
      BY TypeFrame, <1>7, <2>1 DEF Send, Done, TypeOK
  <1>8. ASSUME NEW g \in Runs, Unsubscribe(g) PROVE TypeOK'
    <2>1. GoroutineType'
      BY <1>8 DEF Unsubscribe, TypeOK, GoroutineType
    <2>2. PubSubType'
      BY <1>8 DEF Unsubscribe, Leave, TypeOK, PubSubType
    <2>3. HistoryType'
      BY <1>8 DEF Unsubscribe, Leave, TypeOK, HistoryType
    <2>4. QED
      BY TypeFrame, <1>8, <2>1, <2>2, <2>3 DEF Unsubscribe, TypeOK
  <1>9. ASSUME NEW g \in Runs, CompleteSubscription(g) PROVE TypeOK'
    <2>1. ClientType'
      BY <1>9 DEF CompleteSubscription, TypeOK, ClientType
    <2>2. GoroutineType'
      BY <1>9 DEF CompleteSubscription, TypeOK, GoroutineType
    <2>3. QED
      BY TypeFrame, <1>9, <2>1, <2>2 DEF CompleteSubscription, TypeOK
  <1>10. ASSUME NEW p \in Publishers, NEW col \in Colls, PublishRecord(p, col) PROVE TypeOK'
    <2>1. evColl' \in Seq(Colls) /\ Len(evColl') <= MaxEvents /\ Len(evColl) + 1 \in Events
      BY <1>10 DEF PublishRecord, TypeOK, PublisherType
    <2>2. PublisherType'
      BY <1>10, <2>1 DEF PublishRecord, TypeOK, PublisherType
    <2>3. QED
      BY TypeFrame, <1>10, <2>2 DEF PublishRecord, TypeOK
  <1>11. ASSUME NEW p \in Publishers, PublishLock(p) PROVE TypeOK'
    <2>1. PublisherType'
      BY <1>11 DEF PublishLock, TypeOK, PublisherType, PubSubType
    <2>2. QED
      BY TypeFrame, <1>11, <2>1 DEF PublishLock, TypeOK
  <1>12. ASSUME NEW p \in Publishers, NEW g \in Runs, PublishTo(p, g) PROVE TypeOK'
    <2>1. PublisherType'
      BY <1>12 DEF PublishTo, TypeOK, PublisherType
    <2>2. pev[p] \in Events
      BY <1>12 DEF PublishTo, TypeOK, PublisherType, PublishInv
    <2>3. chan' \in [Runs -> Seq(Events)]
      <3>1. chan' = chan \/ chan' = [chan EXCEPT ![g] = Append(chan[g], pev[p])]
        BY <1>12 DEF PublishTo
      <3>2. Append(chan[g], pev[p]) \in Seq(Events)
        BY <2>2 DEF TypeOK, PubSubType
      <3>3. QED
        BY <3>1, <3>2 DEF TypeOK, PubSubType
    <2>4. HistoryType'
      BY <1>12 DEF PublishTo, TypeOK, HistoryType
    <2>5. QED
      BY TypeFrame, <1>12, <2>1, <2>3, <2>4 DEF PublishTo, TypeOK, PubSubType
  <1>13. ASSUME NEW p \in Publishers, PublishDone(p) PROVE TypeOK'
    <2>1. PublisherType'
      BY <1>13 DEF PublishDone, TypeOK, PublisherType
    <2>2. QED
      BY TypeFrame, <1>13, <2>1 DEF PublishDone, TypeOK
  <1>14. CASE UNCHANGED vars
    BY TypeFrame, <1>14 DEF vars, TypeOK
  <1>15. QED
    BY <1>1, <1>2, <1>3, <1>4, <1>5, <1>6, <1>7, <1>8, <1>9, <1>10, <1>11, <1>12, <1>13,
       <1>14 DEF Next, Client, RunSubscription, PublishRest

-----------------------------------------------------------------------------
\* Goroutines go through their states in order and subscribe once.
LEMMA GoroutineNext ==
  ASSUME TypeOK, GoroutineInv, TableSound, [Next]_vars PROVE GoroutineInv'
  <1> USE Indices DEF GoroutineInv
  <1>1. CASE ConnectionInit
    BY <1>1 DEF ConnectionInit, goroutine, pubsub
  <1>2. CASE Close
    BY <1>2 DEF Close, Entries, TableSound, Live, goroutine, pubsub
  <1>3. ASSUME NEW i \in Ids, CancelSubscription(i) PROVE GoroutineInv'
    BY <1>3 DEF CancelSubscription, TableSound, Live, goroutine, pubsub
  <1>4. ASSUME NEW g \in Runs, NEW i \in Ids, NEW col \in Asked, HandleSubscribe(g, i, col)
        PROVE GoroutineInv'
    BY <1>4 DEF HandleSubscribe, TypeOK, GoroutineType, pubsub
  <1>5. ASSUME NEW g \in Runs, Subscribe(g) PROVE GoroutineInv'
    BY <1>5 DEF Subscribe, TypeOK, GoroutineType, client
  <1>6. ASSUME NEW g \in Runs, Take(g) PROVE GoroutineInv'
    BY <1>6 DEF Take, TypeOK, GoroutineType, client
  <1>7. ASSUME NEW g \in Runs, Send(g) \/ Done(g) PROVE GoroutineInv'
    BY <1>7 DEF Send, Done, TypeOK, GoroutineType, client, pubsub
  <1>8. ASSUME NEW g \in Runs, Unsubscribe(g) PROVE GoroutineInv'
    BY <1>8 DEF Unsubscribe, Leave, TypeOK, GoroutineType, client
  <1>9. ASSUME NEW g \in Runs, CompleteSubscription(g) PROVE GoroutineInv'
    BY <1>9 DEF CompleteSubscription, TypeOK, GoroutineType, pubsub
  <1>10. CASE UNCHANGED <<client, goroutine, subscribers>>
    BY <1>10 DEF client, goroutine
  <1>11. QED
    BY <1>1, <1>2, <1>3, <1>4, <1>5, <1>6, <1>7, <1>8, <1>9, <1>10
    DEF Next, Client, RunSubscription, PublishRest, PublishRecord, PublishLock, PublishTo,
        PublishDone, vars, pubsub

\* The table and the live goroutines.  An id that is unique after a step was
\* unique before it, for an id is only ever given to a goroutine that had none.
LEMMA TableNext ==
  ASSUME TypeOK, GoroutineInv, TableInv, [Next]_vars PROVE TableInv'
  <1> USE Indices
  <1>1. CASE ConnectionInit
    BY <1>1 DEF ConnectionInit, TableInv, TableSound, ClosedEmpty, LiveListed, IdsUnique, Live,
           goroutine
  <1>2. CASE Close
    <2>1. TableSound' /\ ClosedEmpty'
      BY <1>2 DEF Close, TableSound, ClosedEmpty
    <2>2. LiveListed'
      <3>1. SUFFICES ASSUME IdsUnique, NEW g \in Runs, Live(g)' PROVE FALSE
        BY <1>2 DEF Close, LiveListed, IdsUnique, goroutine
      <3>2. Live(g) /\ table[id[g]] = g /\ id[g] \in Ids
        BY <1>2, <3>1 DEF Close, Live, TableInv, LiveListed, GoroutineInv, TypeOK, GoroutineType,
               goroutine
      <3>3. QED
        BY <1>2, <3>1, <3>2 DEF Close, Live, Entries
    <2>3. QED
      BY <2>1, <2>2 DEF TableInv
  <1>3. ASSUME NEW i \in Ids, CancelSubscription(i) PROVE TableInv'
    <2>1. TableSound' /\ ClosedEmpty'
      BY <1>3 DEF CancelSubscription, TableInv, TableSound, ClosedEmpty, Live, TypeOK, ClientType,
             goroutine
    <2>2. LiveListed'
      BY <1>3 DEF CancelSubscription, TableInv, LiveListed, IdsUnique, Live, GoroutineInv, TypeOK,
             ClientType, GoroutineType, goroutine
    <2>3. QED
      BY <2>1, <2>2 DEF TableInv
  <1>4. ASSUME NEW g \in Runs, NEW i \in Ids, NEW col \in Asked, HandleSubscribe(g, i, col)
        PROVE TableInv'
    <2>1. TableSound'
      BY <1>4 DEF HandleSubscribe, TableInv, TableSound, Live, GoroutineInv, TypeOK, ClientType,
             GoroutineType
    <2>2. ClosedEmpty'
      BY <1>4 DEF HandleSubscribe, ClosedEmpty
    <2>3. LiveListed'
      <3>1. SUFFICES ASSUME IdsUnique', NEW h \in Runs, Live(h)' PROVE (table[id[h]] = h)'
        BY DEF LiveListed
      <3>2. IdsUnique
        BY <1>4, <3>1 DEF HandleSubscribe, IdsUnique, GoroutineInv, TypeOK, GoroutineType
      <3>3. CASE h = g
        BY <1>4, <3>3 DEF HandleSubscribe, TypeOK, ClientType, GoroutineType
      <3>4. CASE h # g
        <4>1. Live(h) /\ id'[h] = id[h] /\ id'[g] = i
          BY <1>4, <3>1, <3>4 DEF HandleSubscribe, Live, TypeOK, GoroutineType
        <4>2. id[h] # i
          BY <3>1, <3>4, <4>1 DEF IdsUnique
        <4>3. table[id[h]] = h /\ id[h] \in Ids
          BY <3>2, <4>1 DEF TableInv, LiveListed, GoroutineInv, Live, TypeOK, GoroutineType
        <4>4. QED
          BY <1>4, <4>1, <4>2, <4>3 DEF HandleSubscribe, TypeOK, ClientType
      <3>5. QED
        BY <3>3, <3>4
    <2>4. QED
      BY <2>1, <2>2, <2>3 DEF TableInv
  <1>5. ASSUME UNCHANGED <<client, id>>,
               \A g \in Runs : Live(g)' <=> Live(g)
        PROVE  TableInv'
    <2>1. TableSound'
      BY <1>5 DEF TableInv, TableSound, TypeOK, ClientType, client
    <2>2. QED
      BY <1>5, <2>1 DEF TableInv, ClosedEmpty, LiveListed, IdsUnique, client
  <1>6. ASSUME NEW g \in Runs, Subscribe(g) \/ Take(g) \/ Send(g) \/ Done(g) \/ Unsubscribe(g)
        PROVE TableInv'
    <2>1. UNCHANGED <<client, id>>
      BY <1>6 DEF Subscribe, Take, Send, Done, Unsubscribe
    <2>2. \A h \in Runs : Live(h)' <=> Live(h)
      BY <1>6 DEF Subscribe, Take, Send, Done, Unsubscribe, Live, TypeOK, GoroutineType, client
    <2>3. QED
      BY <1>5, <2>1, <2>2
  <1>7. ASSUME NEW g \in Runs, CompleteSubscription(g) PROVE TableInv'
    <2>1. id[g] \in Ids /\ \A h \in Runs : Live(h)' <=> Live(h)
      BY <1>7 DEF CompleteSubscription, Live, GoroutineInv, TypeOK, GoroutineType
    <2>2. TableSound' /\ ClosedEmpty'
      BY <1>7, <2>1 DEF CompleteSubscription, TableInv, TableSound, ClosedEmpty, TypeOK, ClientType
    <2>3. LiveListed'
      <3>1. SUFFICES ASSUME IdsUnique, NEW h \in Runs, Live(h) PROVE table'[id[h]] = h
        BY <1>7, <2>1 DEF CompleteSubscription, LiveListed, IdsUnique
      <3>2. h # g /\ id[h] # id[g]
        BY <1>7, <2>1, <3>1 DEF CompleteSubscription, Live, IdsUnique
      <3>3. QED
        BY <1>7, <2>1, <3>1, <3>2 DEF CompleteSubscription, TableInv, LiveListed, GoroutineInv,
               Live, TypeOK, ClientType, GoroutineType
    <2>4. QED
      BY <2>2, <2>3 DEF TableInv
  <1>8. CASE UNCHANGED <<client, goroutine>>
    BY <1>5, <1>8 DEF Live, client, goroutine
  <1>9. QED
    BY <1>1, <1>2, <1>3, <1>4, <1>6, <1>7, <1>8
    DEF Next, Client, RunSubscription, PublishRest, PublishRecord, PublishLock, PublishTo,
        PublishDone, vars

\* handleSubscribe is the only step that adds an entry, and it does so below the cap.
LEMMA CapNext == ASSUME TypeOK, CapInv, [Next]_vars PROVE CapInv'
  <1> USE Indices
  <1>1. ASSUME Entries' \subseteq Entries PROVE CapInv'
    <2>1. IsFiniteSet(Entries') /\ Cardinality(Entries') <= Cardinality(Entries)
      BY <1>1, FS_Subset DEF CapInv
    <2>2. Cardinality(Entries) \in Nat /\ Cardinality(Entries') \in Nat
      BY <2>1, FS_CardinalityType DEF CapInv
    <2>3. QED
      BY <2>1, <2>2 DEF CapInv
  <1>2. ASSUME NEW g \in Runs, NEW i \in Ids, NEW col \in Asked, HandleSubscribe(g, i, col)
        PROVE CapInv'
    <2>1. Entries' = Entries \cup {i}
      BY <1>2 DEF HandleSubscribe, Entries, TypeOK, ClientType
    <2>2. IsFiniteSet(Entries') /\ Cardinality(Entries') <= Cardinality(Entries) + 1
      <3>1. /\ IsFiniteSet(Entries \cup {i})
            /\ Cardinality(Entries \cup {i}) =
                 IF i \in Entries THEN Cardinality(Entries) ELSE Cardinality(Entries) + 1
        BY FS_AddElement DEF CapInv
      <3>2. Cardinality(Entries) \in Nat
        BY FS_CardinalityType DEF CapInv
      <3>3. QED
        BY <2>1, <3>1, <3>2
    <2>3. Cardinality(Entries) \in Nat /\ Cardinality(Entries') \in Nat
      BY <2>2, FS_CardinalityType DEF CapInv
    <2>4. QED
      BY <1>2, <2>2, <2>3 DEF CapInv, HandleSubscribe
  <1>3. CASE Close
    BY <1>1, <1>3 DEF Close, Entries
  <1>4. ASSUME NEW i \in Ids, CancelSubscription(i) PROVE CapInv'
    BY <1>1, <1>4 DEF CancelSubscription, Entries, TypeOK, ClientType
  <1>5. ASSUME NEW g \in Runs, CompleteSubscription(g) PROVE CapInv'
    BY <1>1, <1>5 DEF CompleteSubscription, Entries, TypeOK, ClientType
  <1>6. CASE UNCHANGED table
    BY <1>1, <1>6 DEF Entries
  <1>7. QED
    BY <1>2, <1>3, <1>4, <1>5, <1>6
    DEF Next, Client, ConnectionInit, RunSubscription, Subscribe, Take, Send, Done, Unsubscribe,
        PublishRest, PublishRecord, PublishLock, PublishTo, PublishDone, vars, client

\* Event numbers, for the provers' arithmetic.
LEMMA EventNumbers ==
  ASSUME TypeOK PROVE Len(evColl) \in Nat /\ \A p \in Publishers : pev[p] \in Nat
  <1>1. ASSUME NEW p \in Publishers PROVE pev[p] \in Nat
    <2>1. pev[p] \in Events \cup {0}
      BY DEF TypeOK, PublisherType
    <2>2. QED
      BY <2>1 DEF Events
  <1>2. QED
    BY <1>1 DEF TypeOK, PublisherType

\* The read lock keeps what a publisher has yet to visit subscribed.
LEMMA PublishNext == ASSUME TypeOK, PublishInv, [Next]_vars PROVE PublishInv'
  <1> USE Indices DEF PublishInv, NoSendOnClosed
  <1>1. ASSUME NEW g \in Runs, Subscribe(g) PROVE PublishInv'
    BY <1>1 DEF Subscribe, WriteLock, publisher
  <1>2. ASSUME NEW g \in Runs, Unsubscribe(g) PROVE PublishInv'
    BY <1>2 DEF Unsubscribe, WriteLock, publisher
  <1>3. ASSUME NEW p \in Publishers, NEW col \in Colls, PublishRecord(p, col) PROVE PublishInv'
    <2>1. Len(evColl) \in Nat /\ Len(evColl') = Len(evColl) + 1
      BY <1>3 DEF PublishRecord, TypeOK, PublisherType
    <2>2. \A o \in Publishers : pev[o] \in Nat
      BY EventNumbers
    <2>3. NoSendOnClosed'
      BY <1>3 DEF PublishRecord, TypeOK, PublisherType, pubsub
    <2>4. ASSUME NEW o \in Publishers
          PROVE  (ppc'[o] = "idle" <=> pev'[o] = 0) /\ pev'[o] <= Len(evColl')
      <3>1. \/ ppc'[o] = ppc[o] /\ pev'[o] = pev[o]
            \/ ppc'[o] = "lock" /\ pev'[o] = Len(evColl) + 1
        BY <1>3 DEF PublishRecord, TypeOK, PublisherType
      <3>2. QED
        BY <2>1, <2>2, <3>1
    <2>5. QED
      BY <2>3, <2>4
  <1>4. ASSUME NEW p \in Publishers, PublishLock(p) PROVE PublishInv'
    BY <1>4 DEF PublishLock, TypeOK, PublisherType, pubsub
  <1>5. ASSUME NEW p \in Publishers, NEW g \in Runs, PublishTo(p, g) PROVE PublishInv'
    BY <1>5 DEF PublishTo, TypeOK, PublisherType
  <1>6. ASSUME NEW p \in Publishers, PublishDone(p) PROVE PublishInv'
    BY <1>6 DEF PublishDone, TypeOK, PublisherType, pubsub
  <1>7. CASE UNCHANGED <<subscribers, publisher>>
    BY <1>7 DEF publisher
  <1>8. QED
    BY <1>1, <1>2, <1>3, <1>4, <1>5, <1>6, <1>7
    DEF Next, Client, ConnectionInit, Close, CancelSubscription, HandleSubscribe, RunSubscription,
        Take, Send, Done, CompleteSubscription, PublishRest, vars, pubsub

\* What has reached a subscriber stays with it: Take moves an event from the
\* channel to the goroutine, Publish appends behind what is there.
LEMMA ReachedStays ==
  ASSUME TypeOK, NEW g \in Runs, NEW e, Reached(g, e),
         \/ UNCHANGED <<chan, got>>
         \/ \E h \in Runs : Take(h)
         \/ \E h \in Runs : h # g /\ Unsubscribe(h)
         \/ \E p \in Publishers, h \in Runs : PublishTo(p, h)
  PROVE  Reached(g, e)'
  <1> DEFINE s == chan[g]
  <1>0. s \in Seq(Events)
    BY DEF TypeOK, PubSubType
  <1>1. CASE UNCHANGED <<chan, got>>
    BY <1>1 DEF Reached
  <1>2. ASSUME NEW h \in Runs, Take(h) PROVE Reached(g, e)'
    <2>1. CASE h # g
      BY <1>2, <2>1 DEF Take, Reached, TypeOK, PubSubType, HistoryType
    <2>2. CASE h = g
      <3>1. chan'[g] = Tail(s) /\ got'[g] = got[g] \cup {Head(s)} /\ s # <<>>
        BY <1>2, <2>2 DEF Take, TypeOK, PubSubType, HistoryType
      <3>2. CASE e \in got[g]
        BY <3>1, <3>2 DEF Reached
      <3>3. ASSUME NEW n \in 1 .. Len(s), s[n] = e PROVE Reached(g, e)'
        <4>1. CASE n = 1
          BY <1>0, <3>1, <3>3, <4>1 DEF Reached
        <4>2. CASE n # 1
          <5>1. n - 1 \in 1 .. Len(Tail(s)) /\ Tail(s)[n - 1] = e
            BY <1>0, <3>1, <3>3, <4>2
          <5>2. QED
            BY <3>1, <5>1 DEF Reached
        <4>3. QED
          BY <4>1, <4>2
      <3>4. QED
        BY <3>2, <3>3 DEF Reached
    <2>3. QED
      BY <2>1, <2>2
  <1>3. ASSUME NEW h \in Runs, h # g, Unsubscribe(h) PROVE Reached(g, e)'
    BY <1>3 DEF Unsubscribe, Leave, Reached, TypeOK, PubSubType, HistoryType
  <1>4. ASSUME NEW p \in Publishers, NEW h \in Runs, PublishTo(p, h) PROVE Reached(g, e)'
    <2>1. got' = got /\ (chan'[g] = s \/ chan'[g] = Append(s, pev[p]))
      BY <1>4 DEF PublishTo, TypeOK, PubSubType
    <2>2. \A n \in 1 .. Len(s) : n \in 1 .. Len(chan'[g]) /\ chan'[g][n] = s[n]
      BY <1>0, <2>1
    <2>3. QED
      BY <2>1, <2>2 DEF Reached
  <1>5. QED
    BY <1>1, <1>2, <1>3, <1>4

\* Wants does not change for an event published before.
LEMMA WantsStays ==
  ASSUME TypeOK, NEW g \in Runs, NEW e \in 1 .. Len(evColl),
         \/ UNCHANGED <<coll, evColl>>
         \/ \E p \in Publishers, col \in Colls : PublishRecord(p, col)
  PROVE  Wants(g, e)' <=> Wants(g, e)
  <1>1. ASSUME NEW p \in Publishers, NEW col \in Colls, PublishRecord(p, col)
        PROVE  Wants(g, e)' <=> Wants(g, e)
    <2>1. evColl'[e] = evColl[e] /\ coll' = coll
      BY <1>1 DEF PublishRecord, goroutine, TypeOK, PublisherType
    <2>2. QED
      BY <2>1 DEF Wants
  <1>2. QED
    BY <1>1 DEF Wants

\* A step that gives no subscriber a new debt and takes nothing from it.
LEMMA FeedFrame ==
  ASSUME TypeOK, PublishInv, FeedInv, UNCHANGED publisher,
         \A g \in Runs, e \in 1 .. Len(evColl) : Owed(g, e)' => Owed(g, e),
         \A g \in Runs, e \in 1 .. Len(evColl) :
            Owed(g, e)' /\ Reached(g, e) => Reached(g, e)'
  PROVE  FeedInv'
  <1> USE Indices
  <1>1. \A p \in Publishers : ppc[p] = "loop" => pev[p] \in 1 .. Len(evColl)
    <2>1. ASSUME NEW p \in Publishers, ppc[p] = "loop" PROVE pev[p] \in 1 .. Len(evColl)
      <3>1. pev[p] \in Nat /\ pev[p] # 0 /\ pev[p] <= Len(evColl) /\ Len(evColl) \in Nat
        BY <2>1, EventNumbers DEF PublishInv
      <3>2. QED
        BY <3>1
    <2>2. QED
      BY <2>1
  <1>2. Returned' = Returned /\ Returned \subseteq 1 .. Len(evColl)
    BY DEF Returned, publisher
  <1>3. QED
    BY <1>1, <1>2 DEF FeedInv, publisher

\* Client and goroutine steps only end debts; Publish settles the debt of each
\* subscriber it visits, or declares the subscriber slow.
LEMMA FeedNext ==
  ASSUME TypeOK, GoroutineInv, PublishInv, FeedInv, [Next]_vars PROVE FeedInv'
  <1> USE Indices
  <1>1. CASE UNCHANGED <<coll, pubsub, publisher, history>>
    <2>1. \A g \in Runs, e \in 1 .. Len(evColl) : Owed(g, e)' <=> Owed(g, e)
      BY <1>1 DEF Owed, Wants, pubsub, publisher, history
    <2>2. \A g \in Runs, e \in 1 .. Len(evColl) : Reached(g, e)' <=> Reached(g, e)
      BY <1>1 DEF Reached, pubsub, history
    <2>3. QED
      BY <1>1, <2>1, <2>2, FeedFrame
  <1>2. ASSUME NEW g \in Runs, NEW i \in Ids, NEW col \in Asked, HandleSubscribe(g, i, col)
        PROVE FeedInv'
    <2>1. g \notin subscribers
      BY <1>2 DEF HandleSubscribe, GoroutineInv
    <2>2. \A h \in Runs, e \in 1 .. Len(evColl) : Owed(h, e)' => Owed(h, e)
      BY <1>2, <2>1 DEF HandleSubscribe, Owed, Wants, TypeOK, GoroutineType, pubsub, publisher,
             history
    <2>3. \A h \in Runs, e \in 1 .. Len(evColl) : Reached(h, e)' <=> Reached(h, e)
      BY <1>2 DEF HandleSubscribe, Reached, pubsub, history
    <2>4. QED
      BY <1>2, <2>2, <2>3, FeedFrame DEF HandleSubscribe
  <1>3. ASSUME NEW g \in Runs, Subscribe(g) PROVE FeedInv'
    <2>1. ASSUME NEW h \in Runs, NEW e \in 1 .. Len(evColl), Owed(h, e)' PROVE Owed(h, e)
      <3>1. h # g
        BY <1>3, <2>1, EventNumbers DEF Subscribe, Owed, TypeOK, HistoryType
      <3>2. QED
        BY <1>3, <2>1, <3>1 DEF Subscribe, Owed, Wants, TypeOK, HistoryType, publisher
    <2>2. \A h \in Runs, e \in 1 .. Len(evColl) : Reached(h, e)' <=> Reached(h, e)
      BY <1>3 DEF Subscribe, Reached
    <2>3. QED
      BY <1>3, <2>1, <2>2, FeedFrame DEF Subscribe
  <1>4. ASSUME NEW g \in Runs, Take(g) PROVE FeedInv'
    <2>1. \A h \in Runs, e \in 1 .. Len(evColl) : Owed(h, e)' <=> Owed(h, e)
      BY <1>4 DEF Take, Owed, Wants, publisher
    <2>2. \A h \in Runs, e \in 1 .. Len(evColl) : Reached(h, e) => Reached(h, e)'
      BY <1>4, ReachedStays
    <2>3. QED
      BY <1>4, <2>1, <2>2, FeedFrame DEF Take
  <1>5. ASSUME NEW g \in Runs, Unsubscribe(g) PROVE FeedInv'
    <2>1. ASSUME NEW h \in Runs, NEW e \in 1 .. Len(evColl), Owed(h, e)'
          PROVE h # g /\ Owed(h, e)
      BY <1>5, <2>1 DEF Unsubscribe, Leave, Owed, Wants, TypeOK, HistoryType, publisher
    <2>2. ASSUME NEW h \in Runs, NEW e \in 1 .. Len(evColl), Owed(h, e)', Reached(h, e)
          PROVE Reached(h, e)'
      BY <1>5, <2>1, <2>2, ReachedStays
    <2>3. QED
      BY <1>5, <2>1, <2>2, FeedFrame DEF Unsubscribe
  <1>6. ASSUME NEW p \in Publishers, NEW col \in Colls, PublishRecord(p, col) PROVE FeedInv'
    <2>1. \A h \in Runs, e \in 1 .. Len(evColl) :
            (Owed(h, e)' <=> Owed(h, e)) /\ (Reached(h, e)' <=> Reached(h, e))
      <3>1. ASSUME NEW h \in Runs, NEW e \in 1 .. Len(evColl) PROVE Wants(h, e)' <=> Wants(h, e)
        BY <1>6, WantsStays
      <3>2. QED
        BY <1>6, <3>1 DEF PublishRecord, Owed, Reached, pubsub, history
    <2>2. Len(evColl) \in Nat /\ Len(evColl') = Len(evColl) + 1
      BY <1>6 DEF PublishRecord, TypeOK, PublisherType
    <2>3. ASSUME NEW h \in Runs, NEW e \in Returned', Owed(h, e)' PROVE Reached(h, e)'
      <3>1. subscribers # {} /\ pev' = [pev EXCEPT ![p] = Len(evColl) + 1]
        BY <1>6, <2>3 DEF PublishRecord, Owed, pubsub
      <3>2. e \in 1 .. Len(evColl)
        BY <2>2, <2>3, <3>1 DEF Returned, TypeOK, PublisherType
      <3>3. e \in Returned
        <4>1. pev[p] = 0
          BY <1>6 DEF PublishRecord, PublishInv
        <4>2. QED
          BY <2>3, <3>1, <3>2, <4>1 DEF Returned, TypeOK, PublisherType
      <3>4. QED
        BY <2>1, <2>3, <3>2, <3>3 DEF FeedInv
    <2>4. ASSUME NEW o \in Publishers, NEW h \in Runs, ppc'[o] = "loop", Owed(h, pev[o])'
          PROVE  h \in left'[o] \/ Reached(h, pev[o])'
      <3>1. ppc[o] = "loop" /\ pev'[o] = pev[o] /\ left' = left
        BY <1>6, <2>4 DEF PublishRecord, TypeOK, PublisherType
      <3>2. pev[o] \in 1 .. Len(evColl)
        BY <3>1, EventNumbers DEF PublishInv
      <3>3. QED
        BY <2>1, <2>4, <3>1, <3>2 DEF FeedInv
    <2>5. QED
      BY <2>3, <2>4 DEF FeedInv
  <1>7. ASSUME NEW p \in Publishers, PublishLock(p) PROVE FeedInv'
    <2>1. \A h \in Runs, e \in Nat :
            (Owed(h, e)' <=> Owed(h, e)) /\ (Reached(h, e)' <=> Reached(h, e))
      BY <1>7 DEF PublishLock, Owed, Wants, Reached, goroutine, pubsub, history
    <2>2. Returned' = Returned /\ Returned \subseteq Nat
      BY <1>7 DEF PublishLock, Returned
    <2>3. ASSUME NEW o \in Publishers, NEW h \in Runs, ppc'[o] = "loop", Owed(h, pev[o])'
          PROVE  h \in left'[o] \/ Reached(h, pev[o])'
      <3>1. pev' = pev /\ pev[o] \in Nat /\ Owed(h, pev[o])
        BY <1>7, <2>1, <2>3, EventNumbers DEF PublishLock
      <3>2. CASE o = p
        BY <1>7, <3>1, <3>2 DEF PublishLock, Owed, TypeOK, PublisherType
      <3>3. CASE o # p
        BY <1>7, <2>1, <2>3, <3>1, <3>3 DEF PublishLock, FeedInv, TypeOK, PublisherType
      <3>4. QED
        BY <3>2, <3>3
    <2>4. QED
      BY <2>1, <2>2, <2>3 DEF FeedInv
  <1>8. ASSUME NEW p \in Publishers, NEW g \in Runs, PublishTo(p, g) PROVE FeedInv'
    <2>1. ASSUME NEW h \in Runs, NEW e, Owed(h, e)' PROVE Owed(h, e)
      BY <1>8, <2>1 DEF PublishTo, Owed, Wants, goroutine
    <2>2. ASSUME NEW h \in Runs, NEW e, Reached(h, e) PROVE Reached(h, e)'
      BY <1>8, <2>2, ReachedStays
    <2>3. Returned' = Returned
      BY <1>8 DEF PublishTo, Returned
    <2>4. ASSUME NEW o \in Publishers, NEW h \in Runs, ppc'[o] = "loop", Owed(h, pev[o])'
          PROVE  h \in left'[o] \/ Reached(h, pev[o])'
      <3>1. pev' = pev /\ ppc' = ppc /\ Owed(h, pev[o])
        BY <1>8, <2>1, <2>4 DEF PublishTo
      <3>2. CASE o = p /\ h = g
        <4>1. Wants(g, pev[p]) /\ g \notin slow'
          BY <2>4, <3>1, <3>2 DEF Owed
        <4>2. chan' = [chan EXCEPT ![g] = Append(chan[g], pev[p])]
          BY <1>8, <4>1 DEF PublishTo
        <4>3. chan[g] \in Seq(Events) /\ pev[p] \in Events
          BY <1>8 DEF PublishTo, PublishInv, TypeOK, PubSubType, PublisherType
        <4>4. /\ Len(chan[g]) + 1 \in 1 .. Len(chan'[g])
              /\ chan'[g][Len(chan[g]) + 1] = pev[p]
          BY <4>2, <4>3 DEF TypeOK, PubSubType
        <4>5. QED
          BY <3>1, <3>2, <4>4 DEF Reached
      <3>3. CASE o # p \/ h # g
        <4>1. h \in left[o] => h \in left'[o]
          BY <1>8, <3>3 DEF PublishTo, TypeOK, PublisherType
        <4>2. QED
          BY <2>2, <2>4, <3>1, <4>1 DEF FeedInv
      <3>4. QED
        BY <3>2, <3>3
    <2>5. QED
      BY <2>1, <2>2, <2>3, <2>4 DEF FeedInv
  <1>9. ASSUME NEW p \in Publishers, PublishDone(p) PROVE FeedInv'
    <2>1. ASSUME NEW h \in Runs, NEW e
          PROVE  (Owed(h, e)' <=> Owed(h, e)) /\ (Reached(h, e)' <=> Reached(h, e))
      BY <1>9 DEF PublishDone, Owed, Wants, Reached, goroutine, pubsub, history
    <2>2. \A e \in Returned' : e \in Returned \/ e = pev[p]
      BY <1>9 DEF PublishDone, Returned, TypeOK, PublisherType
    <2>3. \A h \in Runs : Owed(h, pev[p]) => Reached(h, pev[p])
      BY <1>9 DEF PublishDone, FeedInv
    <2>4. \A h \in Runs, e \in Returned' : Owed(h, e)' => Reached(h, e)'
      BY <2>1, <2>2, <2>3 DEF FeedInv
    <2>5. \A o \in Publishers : ppc'[o] = "loop" =>
            ppc[o] = "loop" /\ pev'[o] = pev[o] /\ left'[o] = left[o]
      BY <1>9 DEF PublishDone, TypeOK, PublisherType
    <2>6. QED
      BY <2>1, <2>4, <2>5 DEF FeedInv
  <1>10. QED
    BY <1>1, <1>2, <1>3, <1>4, <1>5, <1>6, <1>7, <1>8, <1>9
    DEF Next, Client, ConnectionInit, Close, CancelSubscription, RunSubscription, Send, Done,
        CompleteSubscription, PublishRest, vars, goroutine

-----------------------------------------------------------------------------
\* The inductive invariant holds when the connection is accepted ...
LEMMA InitInv == Init => IInv
  <1> SUFFICES ASSUME Init PROVE IInv
    OBVIOUS
  <1> USE Indices
  <1>1. ClientType /\ GoroutineType
    BY DEF Init, ClientType, GoroutineType
  <1>2. PubSubType /\ HistoryType
    BY DEF Init, PubSubType, HistoryType
  <1>3. PublisherType
    BY DEF Init, PublisherType
  <1>4. GoroutineInv
    BY DEF Init, GoroutineInv
  <1>5. TableInv
    BY DEF Init, TableInv, TableSound, ClosedEmpty, LiveListed, Live
  <1>6. CapInv
    <2>1. Entries = {}
      BY DEF Init, Entries
    <2>2. QED
      BY <2>1, FS_EmptySet DEF CapInv
  <1>7. PublishInv
    BY DEF Init, PublishInv, NoSendOnClosed
  <1>8. FeedInv
    BY DEF Init, FeedInv, Owed
  <1>9. QED
    BY <1>1, <1>2, <1>3, <1>4, <1>5, <1>6, <1>7, <1>8 DEF IInv, TypeOK

\* ... and every step of the client, a goroutine or a publisher keeps it.
LEMMA NextInv == IInv /\ [Next]_vars => IInv'
  <1> SUFFICES ASSUME IInv, [Next]_vars PROVE IInv'
    OBVIOUS
  <1>1. TypeOK' /\ PublishInv'
    BY TypeNext, PublishNext DEF IInv
  <1>2. GoroutineInv' /\ TableInv'
    BY GoroutineNext, TableNext DEF IInv, TableInv
  <1>3. CapInv' /\ FeedInv'
    BY CapNext, FeedNext DEF IInv
  <1>4. QED
    BY <1>1, <1>2, <1>3 DEF IInv

\* Without reused ids the live goroutines are as many as their entries, at most.
LEMMA LiveBounded == IInv => CapHolds
  <1> SUFFICES ASSUME IInv, IdsUnique PROVE Cardinality({g \in Runs : Live(g)}) <= MaxSubs
    BY DEF CapHolds
  <1> DEFINE L == {g \in Runs : Live(g)}
             f == [g \in L |-> id[g]]
  <1>1. \A g \in L : id[g] \in Ids /\ table[id[g]] = g /\ g # 0
    BY Indices DEF IInv, TableInv, LiveListed, GoroutineInv, Live, TypeOK, GoroutineType
  <1>2. f \in Injection(L, Entries)
    BY <1>1 DEF Injection, IsInjective, Entries
  <1>3. Cardinality(L) <= Cardinality(Entries) /\ IsFiniteSet(L)
    <2> HIDE DEF L, f
    <2> QED
      BY <1>2, FS_Injection DEF IInv, CapInv
  <1>4. Cardinality(L) \in Nat /\ Cardinality(Entries) \in Nat
    BY <1>3, FS_CardinalityType DEF IInv, CapInv
  <1>5. QED
    BY <1>3, <1>4, Indices DEF IInv, CapInv

\* So it holds in every reachable state.
LEMMA Invariant == Spec => []IInv
  BY InitInv, NextInv, PTL DEF Spec

\* Every reachable state of the PubSub and of a wsClient is well typed.
THEOREM TypeCorrect == Spec => []TypeOK
  <1>1. IInv => TypeOK
    BY DEF IInv
  <1>2. QED
    BY <1>1, Invariant, PTL

\* Entries of wsClient.subscriptions lead to the live goroutine of their id.
THEOREM EntriesSound == Spec => []TableSound
  <1>1. IInv => TableSound
    BY DEF IInv, TableInv
  <1>2. QED
    BY <1>1, Invariant, PTL

\* Publish never sends on a channel that Unsubscribe has closed.
THEOREM SendsSafe == Spec => []NoSendOnClosed
  <1>1. IInv => NoSendOnClosed
    BY DEF IInv, PublishInv
  <1>2. QED
    BY <1>1, Invariant, PTL

\* A subscriber that never overflows gets every event of its collection that is
\* published from its Subscribe on.
THEOREM OnlySlowMiss == Spec => []FeedComplete
  <1>1. IInv => FeedComplete
    BY DEF IInv, TypeOK, PubSubType, FeedInv, Owed, Reached, FeedComplete
  <1>2. QED
    BY <1>1, Invariant, PTL

\* The cap of handleSubscribe bounds the live goroutines of a client that uses
\* every id once.
THEOREM CapBoundsLive == Spec => []CapHolds
  BY LiveBounded, Invariant, PTL

\* close cancels every live goroutine of a client that uses every id once.
THEOREM CloseCancelsLive == Spec => []CloseReaches
  <1>1. IInv => CloseReaches
    BY Indices DEF IInv, TableInv, ClosedEmpty, LiveListed, GoroutineInv, Live, CloseReaches,
       TypeOK, GoroutineType
  <1>2. QED
    BY <1>1, Invariant, PTL
=============================================================================
