---------------------------- MODULE Subscription ----------------------------
(***************************************************************************)
(* GraphQL subscriptions: the PubSub of graphql/subscription/pubsub.go and *)
(* one wsClient of graphql/subscription/handler.go.                        *)
(*                                                                         *)
(* A subscribe message starts a runSubscription goroutine g \in Runs, which*)
(* owns one Subscriber of the PubSub.  Each critical section of            *)
(* wsClient.mu is one step; PubSub.mu is a read-write lock that a          *)
(* publisher holds for reading while it walks over the subscribers.        *)
(***************************************************************************)
EXTENDS Integers, Sequences, FiniteSets

CONSTANTS
    Ids, NoId,      \* subscription ids a client uses; none yet
    Colls,          \* collections
    AnyColl,        \* the empty collection: a subscription to all of them
    Asked,          \* what clients subscribe to
    Publishers,     \* goroutines that publish record events
    MaxSubs,        \* wsMaxSubsPerClient
    BufferSize,     \* SubscriberBufferSize
    MaxRuns,        \* bound: runSubscription goroutines of the connection
    MaxEvents       \* bound: calls of PublishRecord

ASSUME SubscriptionAssumption ==
    /\ AnyColl \notin Colls /\ Asked \subseteq Colls \cup {AnyColl} /\ NoId \notin Ids
    /\ MaxSubs \in Nat \ {0} /\ BufferSize \in Nat \ {0}
    /\ MaxRuns \in Nat \ {0} /\ MaxEvents \in Nat

Runs == 1 .. MaxRuns
Events == 1 .. MaxEvents

VARIABLES
    conn,           \* the websocket: "new", "ready" (initialized) or "closed"
    table,          \* wsClient.subscriptions: id -> goroutine (0: no entry)
    cancelled,      \* goroutines whose context is cancelled
    pc,             \* runSubscription: control
    id, coll,       \* its id and the collection it asked for
    subscribers,    \* PubSub.subscribers, by owning goroutine
    chan,           \* Subscriber.Events
    ppc, pev, left, \* publisher: control, event, subscribers still to visit
    evColl,         \* history: the collection of each event published so far
    since,          \* history: events begun before the goroutine subscribed
    got,            \* history: events a subscribed goroutine took off its channel
    slow            \* history: subscribed goroutines that had an event dropped

client    == <<conn, table, cancelled>>
goroutine == <<pc, id, coll>>
pubsub    == <<subscribers, chan>>
publisher == <<ppc, pev, left, evColl>>
history   == <<since, got, slow>>
vars == <<client, goroutine, pubsub, publisher, history>>

Init ==
    /\ conn = "new" /\ table = [i \in Ids |-> 0] /\ cancelled = {}
    /\ pc = [g \in Runs |-> "off"] /\ id = [g \in Runs |-> NoId] /\ coll = [g \in Runs |-> AnyColl]
    /\ subscribers = {} /\ chan = [g \in Runs |-> <<>>]
    /\ ppc = [p \in Publishers |-> "idle"] /\ pev = [p \in Publishers |-> 0]
    /\ left = [p \in Publishers |-> {}] /\ evColl = <<>>
    /\ since = [g \in Runs |-> 0] /\ got = [g \in Runs |-> {}] /\ slow = {}

-----------------------------------------------------------------------------
Entries == {i \in Ids : table[i] # 0}

\* PubSub.mu: Subscribe and Unsubscribe write-lock it, so they wait for every
\* publisher that is walking over the subscribers.
WriteLock == \A p \in Publishers : ppc[p] # "loop"

ConnectionInit ==
    /\ conn = "new" /\ conn' = "ready"
    /\ UNCHANGED <<table, cancelled, goroutine, pubsub, publisher, history>>

\* Mutant: off by one at the cap.
HandleSubscribeOver(g, i, col) ==
    /\ conn = "ready"
    /\ Cardinality(Entries) <= MaxSubs /\ table[i] = 0
    /\ pc[g] = "off" /\ \A h \in Runs : h < g => pc[h] # "off"
    /\ table' = [table EXCEPT ![i] = g]
    /\ pc' = [pc EXCEPT ![g] = "start"]
    /\ id' = [id EXCEPT ![g] = i] /\ coll' = [coll EXCEPT ![g] = col]
    /\ UNCHANGED <<conn, cancelled, pubsub, publisher, history>>

\* handleSubscribe registers the subscription and starts its goroutine.  A
\* message before connection_init, a bad payload, a query too deep, an id in use
\* and a client at the cap are answered with an error and change nothing.
HandleSubscribe(g, i, col) ==
    /\ conn = "ready"
    /\ Cardinality(Entries) < MaxSubs /\ table[i] = 0
    /\ pc[g] = "off" /\ \A h \in Runs : h < g => pc[h] # "off"
    /\ table' = [table EXCEPT ![i] = g]
    /\ pc' = [pc EXCEPT ![g] = "start"]
    /\ id' = [id EXCEPT ![g] = i] /\ coll' = [coll EXCEPT ![g] = col]
    /\ UNCHANGED <<conn, cancelled, pubsub, publisher, history>>

\* Mutant: the context is cancelled but the entry stays.
CancelKeepsEntry(i) ==
    /\ conn # "closed" /\ table[i] # 0
    /\ cancelled' = cancelled \cup {table[i]}
    /\ UNCHANGED <<conn, table, goroutine, pubsub, publisher, history>>

\* A complete message: cancelSubscription.
CancelSubscription(i) ==
    /\ conn # "closed" /\ table[i] # 0
    /\ cancelled' = cancelled \cup {table[i]} /\ table' = [table EXCEPT ![i] = 0]
    /\ UNCHANGED <<conn, goroutine, pubsub, publisher, history>>

\* Mutant: the map is dropped without cancelling the contexts in it.
CloseForgets ==
    /\ conn # "closed" /\ conn' = "closed"
    /\ table' = [i \in Ids |-> 0]
    /\ UNCHANGED <<cancelled, goroutine, pubsub, publisher, history>>

\* close: connection_terminate, a read error or the read deadline.
Close ==
    /\ conn # "closed" /\ conn' = "closed"
    /\ cancelled' = cancelled \cup {table[i] : i \in Entries}
    /\ table' = [i \in Ids |-> 0]
    /\ UNCHANGED <<goroutine, pubsub, publisher, history>>

-----------------------------------------------------------------------------
\* Mutant: the PubSub is keyed by the client's id.
SubscribeById(g) ==
    /\ pc[g] = "start" /\ WriteLock
    /\ subscribers' = subscribers \cup {id[g]}
    /\ pc' = [pc EXCEPT ![g] = "wait"]
    /\ since' = [since EXCEPT ![g] = Len(evColl)]
    /\ UNCHANGED <<client, id, coll, chan, publisher, got, slow>>

\* PubSub.Subscribe.
Subscribe(g) ==
    /\ pc[g] = "start" /\ WriteLock
    /\ subscribers' = subscribers \cup {g}
    /\ pc' = [pc EXCEPT ![g] = "wait"]
    /\ since' = [since EXCEPT ![g] = Len(evColl)]
    /\ UNCHANGED <<client, id, coll, chan, publisher, got, slow>>

\* runSubscription: an event is taken off the channel (it may win the select
\* against a cancelled context) ...
Take(g) ==
    /\ pc[g] = "wait" /\ chan[g] # <<>>
    /\ chan' = [chan EXCEPT ![g] = Tail(@)]
    /\ got' = [got EXCEPT ![g] = @ \cup {Head(chan[g])}]
    /\ pc' = [pc EXCEPT ![g] = "send"]
    /\ UNCHANGED <<client, id, coll, subscribers, publisher, since, slow>>

\* ... the query runs on it and the result is written to the websocket; a
\* failed write is only logged.
Send(g) ==
    /\ pc[g] = "send"
    /\ pc' = [pc EXCEPT ![g] = "wait"]
    /\ UNCHANGED <<client, id, coll, pubsub, publisher, history>>

\* Mutant: the goroutine waits for its channel to be closed only.
DoneOnClosedChannel(g) ==
    /\ pc[g] = "wait" /\ g \notin subscribers
    /\ pc' = [pc EXCEPT ![g] = "unsubscribe"]
    /\ UNCHANGED <<client, id, coll, pubsub, publisher, history>>

\* runSubscription: ctx.Done.  (Its channel is closed by its own Unsubscribe
\* only, so the !ok branch is never taken: see NoSendOnClosed.)
Done(g) ==
    /\ pc[g] = "wait" /\ g \in cancelled
    /\ pc' = [pc EXCEPT ![g] = "unsubscribe"]
    /\ UNCHANGED <<client, id, coll, pubsub, publisher, history>>

\* The subscriber is forgotten, and with it its channel.
Leave(g) ==
    /\ subscribers' = subscribers \ {g} /\ chan' = [chan EXCEPT ![g] = <<>>]
    /\ since' = [since EXCEPT ![g] = 0] /\ got' = [got EXCEPT ![g] = {}] /\ slow' = slow \ {g}

\* Mutant: the channel is closed without the lock.
UnsubscribeUnlocked(g) ==
    /\ pc[g] = "unsubscribe"
    /\ Leave(g)
    /\ pc' = [pc EXCEPT ![g] = "complete"]
    /\ UNCHANGED <<client, id, coll, publisher>>

\* PubSub.Unsubscribe: close the channel, forget the subscriber.
Unsubscribe(g) ==
    /\ pc[g] = "unsubscribe" /\ WriteLock
    /\ Leave(g)
    /\ pc' = [pc EXCEPT ![g] = "complete"]
    /\ UNCHANGED <<client, id, coll, publisher>>

\* completeSubscription: after the complete message, the entry under the
\* goroutine's id is deleted, whichever goroutine it belongs to by now.
CompleteSubscription(g) ==
    /\ pc[g] = "complete"
    /\ table' = [table EXCEPT ![id[g]] = 0]
    /\ pc' = [pc EXCEPT ![g] = "end"]
    /\ UNCHANGED <<conn, cancelled, id, coll, pubsub, publisher, history>>

-----------------------------------------------------------------------------
\* PublishRecord: with no subscriber nothing is published.
PublishRecord(p, col) ==
    /\ ppc[p] = "idle" /\ Len(evColl) < MaxEvents
    /\ evColl' = Append(evColl, col)
    /\ IF subscribers = {}
       THEN UNCHANGED <<ppc, pev>>
       ELSE ppc' = [ppc EXCEPT ![p] = "lock"] /\ pev' = [pev EXCEPT ![p] = Len(evColl) + 1]
    /\ UNCHANGED <<client, goroutine, pubsub, left, history>>

\* Publish: RLock, and the walk over the subscribers begins.
PublishLock(p) ==
    /\ ppc[p] = "lock"
    /\ ppc' = [ppc EXCEPT ![p] = "loop"] /\ left' = [left EXCEPT ![p] = subscribers]
    /\ UNCHANGED <<client, goroutine, pubsub, pev, evColl, history>>

Wants(g, e) == coll[g] \in {AnyColl, evColl[e]}

\* Mutant: a full buffer ends the walk.
PublishToOrStop(p, g) ==
    /\ ppc[p] = "loop" /\ g \in left[p]
    /\ IF ~Wants(g, pev[p]) \/ Len(chan[g]) < BufferSize
       THEN /\ left' = [left EXCEPT ![p] = @ \ {g}]
            /\ chan' = IF Wants(g, pev[p]) THEN [chan EXCEPT ![g] = Append(@, pev[p])] ELSE chan
            /\ UNCHANGED slow
       ELSE /\ left' = [left EXCEPT ![p] = {}]
            /\ slow' = slow \cup {g} /\ UNCHANGED chan
    /\ UNCHANGED <<client, goroutine, subscribers, ppc, pev, evColl, since, got>>

\* Publish: one subscriber of the walk, in any order.  A subscription to another
\* collection is passed over, an event for a full channel is dropped.
PublishTo(p, g) ==
    /\ ppc[p] = "loop" /\ g \in left[p]
    /\ left' = [left EXCEPT ![p] = @ \ {g}]
    /\ IF ~Wants(g, pev[p])
       THEN UNCHANGED <<chan, slow>>
       ELSE IF Len(chan[g]) < BufferSize
            THEN chan' = [chan EXCEPT ![g] = Append(@, pev[p])] /\ UNCHANGED slow
            ELSE slow' = slow \cup {g} /\ UNCHANGED chan
    /\ UNCHANGED <<client, goroutine, subscribers, ppc, pev, evColl, since, got>>

\* Publish: RUnlock.
PublishDone(p) ==
    /\ ppc[p] = "loop" /\ left[p] = {}
    /\ ppc' = [ppc EXCEPT ![p] = "idle"] /\ pev' = [pev EXCEPT ![p] = 0]
    /\ UNCHANGED <<client, goroutine, pubsub, left, evColl, history>>

-----------------------------------------------------------------------------
Client ==
    \/ ConnectionInit \/ Close
    \/ \E i \in Ids : CancelSubscription(i)
    \/ \E g \in Runs, i \in Ids, col \in Asked : HandleSubscribe(g, i, col)

RunSubscription(g) ==
    \/ Subscribe(g) \/ Take(g) \/ Send(g) \/ Done(g)
    \/ Unsubscribe(g) \/ CompleteSubscription(g)

PublishRest(p) ==
    PublishLock(p) \/ PublishDone(p) \/ \E g \in Runs : PublishTo(p, g)

Next ==
    \/ Client
    \/ \E g \in Runs : RunSubscription(g)
    \/ \E p \in Publishers : PublishRest(p) \/ \E col \in Colls : PublishRecord(p, col)

Spec == Init /\ [][Next]_vars

\* Goroutines and publishers in the middle of their work are scheduled; nothing
\* makes a client act or a record arrive.
FairSpec ==
    /\ Spec
    /\ \A g \in Runs : WF_vars(RunSubscription(g))
    /\ \A p \in Publishers : WF_vars(PublishRest(p))

-----------------------------------------------------------------------------
\* The type invariant, one part per group of variables.
ClientType ==
    /\ conn \in {"new", "ready", "closed"} /\ table \in [Ids -> Runs \cup {0}]
    /\ cancelled \subseteq Runs

GoroutineType ==
    /\ pc \in [Runs -> {"off", "start", "wait", "send", "unsubscribe", "complete", "end"}]
    /\ id \in [Runs -> Ids \cup {NoId}] /\ coll \in [Runs -> Colls \cup {AnyColl}]

PubSubType == subscribers \subseteq Runs /\ chan \in [Runs -> Seq(Events)]

PublisherType ==
    /\ ppc \in [Publishers -> {"idle", "lock", "loop"}]
    /\ pev \in [Publishers -> Events \cup {0}] /\ left \in [Publishers -> SUBSET Runs]
    /\ evColl \in Seq(Colls) /\ Len(evColl) <= MaxEvents

HistoryType ==
    /\ since \in [Runs -> 0 .. MaxEvents]
    /\ got \in [Runs -> SUBSET Events] /\ slow \subseteq Runs

TypeOK == ClientType /\ GoroutineType /\ PubSubType /\ PublisherType /\ HistoryType

Live(g) == pc[g] \in {"start", "wait", "send"} /\ g \notin cancelled

\* An entry of wsClient.subscriptions always leads to the live goroutine of that
\* id, so that complete and close cancel what they mean to cancel, although
\* goroutines delete entries by id on their way out.
TableSound ==
    \A i \in Ids : table[i] # 0 => id[table[i]] = i /\ Live(table[i])

\* Publish never sends on a channel that Unsubscribe has closed (a panic): what
\* a publisher has yet to visit is still subscribed.
NoSendOnClosed == \A p \in Publishers : ppc[p] = "loop" => left[p] \subseteq subscribers

\* Events whose PublishRecord has returned.
Returned == {e \in 1 .. Len(evColl) : \A p \in Publishers : pev[p] # e}

\* A subscription misses an event only by being slow: every event of its
\* collection whose PublishRecord began after it subscribed, and has returned,
\* reached its channel, unless one of its own events was dropped.
FeedComplete ==
    \A g \in subscribers \ slow : \A e \in Returned :
        e > since[g] /\ Wants(g, e) =>
            e \in got[g] \/ \E n \in 1 .. Len(chan[g]) : chan[g][n] = e

IdsUnique ==
    \A g, h \in Runs : g # h /\ id[g] = id[h] => id[g] = NoId

\* The cap on concurrent subscriptions bounds the live goroutines, for a client
\* that uses every id once.
CapHolds == IdsUnique => Cardinality({g \in Runs : Live(g)}) <= MaxSubs

\* Closing the connection cancels every live goroutine, for a client that uses
\* every id once: none has dropped out of the table that close walks over.
CloseReaches == conn = "closed" /\ IdsUnique => \A g \in Runs : ~Live(g)

\* Cancelled subscriptions release their goroutines and their Subscribers.
CancelReleases ==
    cancelled # {} ~> \A g \in cancelled : pc[g] = "end" /\ g \notin subscribers

Ended == \A g \in Runs : pc[g] \in {"off", "end"}

\* "close closes the WebSocket connection and all subscriptions", whatever ids
\* the client used.
CloseEndsAll == conn = "closed" ~> Ended
=============================================================================
