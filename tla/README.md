# TLA+ models of Magic Indexer

Magic Indexer (the `hypergoat` binary) is a Go AppView server for the AT
Protocol. It follows an upstream event stream, keeps the records of the
configured collections in Postgres, and serves them over GraphQL. This directory
holds TLA+ modules for the parts of it where the order of things matters, TLC
configurations that check them on small instances, and TLAPS proofs.

Contents: [inventory](#inventory) · [modules](#modules) · [runs](#runs) ·
[proofs](#proofs) · [findings](#findings) · [abstractions](#abstractions) ·
[plan](#plan)

## Inventory

| Component | State | Operations | What is hard about it |
|---|---|---|---|
| Jetstream consumer (`internal/jetstream`, `internal/consumer`, `internal/cursor`) | websocket client, event channel, shared atomic cursor, row `jetstream_cursor` | connect, read loop, processEvents, flusher, UpdateCollections, Stop | three goroutines per connection that outlive it; crashes between processing and flushing; two reconnect loops after UpdateCollections |
| Record ingestion (`internal/ingestion`) | record, actor and activity tables | ProcessRecord: log, validate, upsert or delete, publish, hook | redelivery; a crash between the activity row and its status; failure of one step of several |
| Notifications (`internal/notifications`) | tables notification, notification_participant, actor_state | record hook (extract, apply, delete), seen mark, list | several statements per operation and no transaction; redelivery of old versions; two workers |
| GraphQL subscriptions (`internal/graphql/subscription`) | PubSub subscriber map, per-client subscription map, buffered channels | subscribe, complete, close, publish | send on a closed channel; a map keyed by client ids; slow readers |
| Labeler consumer (`internal/labeler`) | row `labeler_cursor:did`, row `labeler_backfill_cursor:did`, in-memory cursor | backfill, subscribe, OutdatedCursor recovery, reset, flush | generations of goroutines; a sentinel cursor; resets under a running consumer |
| Label store (`repositories/labels.go`, `label_definitions.go`, `reports.go`) | labels under partial unique indexes, definitions, reports | insert, negate, expire, resolve a report, lists | any order and repetition of assertions and negations; a resolution is two statements |
| Tap consumer (`internal/tap`) | websocket, retries | dispatch, ack | an unacknowledged event blocks its repository and comes back half done |
| Activity log and cleanup (`jetstream_activity.go`, `internal/workers`) | activity rows | LogActivity, UpdateStatus, janitor, cleanup | pending rows after crashes; the ticker is stopped as Start returns |
| Backfill (`internal/backfill`) | backfill state, worker pools | discover, fetch, deduplicate, insert | snapshots of any age are written next to live ingestion |
| OAuth server (`internal/server`, `internal/oauth`, `repositories/oauth_*.go`) | clients, login requests, codes, tokens, proof ids | authorize, callback, grants, revoke, register, cleanup | chains of statements without a transaction; checks that a later statement relies on |
| OAuth caches (`did_cache.go`, `jti_replay.go`) | documents and flights, used tokens | lookup, invalidate, check and set | invalidation under a flight; eviction at capacity |
| Admin API (`internal/graphql/admin`, `cmd/hypergoat/admin_http.go`) | confirmation tokens, settings, list of administrators | preview and purge, reset, settings, labels, lexicons, clients | read, change, write in separate statements; acts on components that are running |
| Lexicons (`internal/lexicon`, `resolvers_lexicons.go`) | table, registry, schema | upload, register, delete, load, build | the registry is as old as the process, the table is not |
| Queries (`internal/graphql/schema`, `repositories/filter.go`, `records.go`) | cursors in the clients' hands | filter, page | three-valued SQL; rows change between two pages |
| Wiring (`cmd/hypergoat/main.go`) | restart channel | start-up, drain, restart, shutdown | shutdown waits for no consumer |

Interactions: the consumers call `RecordProcessor.ProcessRecord`, which writes the
tables, calls `PubSub.PublishRecord` (subscriptions) and then the notification
hook; backfills write the same tables beside them; the admin endpoints stop, pause
and reset consumers that are running and delete what they wrote; every resumable
consumer keeps its position as a row of the `config` table; a lexicon upload drains
the HTTP server and restarts the process.
`PROJECT.json` lists the components with their source files, and the hazards with
the line where each one bites.

What makes the components correct: a position row never passes work that was not
dealt with; the tables converge to what the upstream says although delivery is
repeated, overlapping and interrupted; every goroutine that is cancelled ends;
counters agree with the rows they count; one slow or failing party does not harm
another.

## Modules

| Module | Models |
|---|---|
| `CursorLog` | abstract: what a resumable consumer promises about its saved cursor |
| `Jetstream` | the Jetstream consumer, reconnect loop and flusher; implements `CursorLog` |
| `Labeler` | a labeler subscription with backfill and recovery; implements `CursorLog` |
| `Subscription` | the PubSub and one websocket client |
| `Notifications` | the notification hook and its tables |
| `IndexDB` | the record, actor and activity tables and their statements |
| `Ingest` | the Tap consumer and the record pipeline, statement by statement |
| `Backfill` | full, startup and actor backfills, the PDS tool |
| `Purge` | purge and reset with confirmation tokens |
| `Index` | `Ingest`, `Backfill` and `Purge` over `IndexDB`, with crashes |
| `Identity` | DID documents: resolution and what is read from them |
| `Bridge` | the outbound half of a login |
| `OAuthStore` | the OAuth tables and their statements |
| `OAuthServer` | endpoints, protected requests, client administration, cleanup |
| `ServiceAuth` | service-auth tokens and the replay cache |
| `DIDCache` | the DID cache with its flights and users |
| `OAuth` | `OAuthServer`, `ServiceAuth` and `DIDCache` on one clock, with crashes |
| `RecordData` | the JSON of records and the lexicons that describe it |
| `Where` | filters: extraction, SQL condition, and what the input means |
| `Labels` | labels, definitions, reports, paginated lists |
| `Pages` | a client walking through a record connection |
| `LexiconAdmin` | lexicon table, registry, uploads, what builds |
| `AdminSettings` | settings and the list of administrators |
| `Serve` | `Pages`, `Labels`, `LexiconAdmin` and `AdminSettings`, with crashes and restarts |
| `Budget` | bounds of `Serve`: how often the environment acts |
| `JetstreamProofs`, `SubscriptionProofs`, `LabelerProofs`, `NotificationsProofs`, `IndexProofs`, `OAuthProofs`, `AdminProofs`, `ServeProofs` | theorems about `Jetstream`, `Subscription`, `Labeler`, `Notifications`, `Index`, `OAuth`, `AdminSettings` and `LexiconAdmin`, and `Labels`, `Pages` and `Serve` |
| `MC*` | instances for TLC |

**Jetstream.** A call of `startInternal` is a connection `c`; `rpc[c]` is the
goroutine that runs it and then `Client.Run`, `wpc[c]` its `processEvents`,
`fpc[c]` its `Flusher.Run`. `client` is `Consumer.client`, which the code reads
again without its lock between `NewClient`, `Connect` and `Launch`. `loop[l]` is
a `RunWithReconnect` loop on context `l`; `UpdateCollections` starts a second one
while the first may still be between two attempts. The time_us of an event is its
index in the constant `Stream`. `Crash` (and the exit after `Stop`, which waits
for nothing) loses everything but the tables. The history `fate` says what became
of each event, `ordered` and `last` in which order commits reached the tables.

**Labeler.** One `runOnce` is a generation; its `processEvents` (`wpc`) and
`cursorFlusher` (`fpc`) may outlive it. `saved` and `ckpt` are the two rows;
`Sentinel` is the value that marks a finished backfill. The backfill, the
subscription and the recovery from `OutdatedCursor` are one control variable
`mpc`, because they run in the goroutine of `Start`. The reset endpoint deletes the two
rows in two statements and stops after one that fails (`AdminReset`, `AdminResetCheckpoint`;
`reset` says how far it is). The history `fate` says of each frame whether its labels
were stored, all rejected, or skipped because they do not decode, or whether the consumer
never received it (missed).

**Subscription.** Each critical section of `wsClient.mu` is a step. `PubSub.mu`
is a read-write lock: a publisher that is walking over the subscribers
(`ppc = "loop"`) keeps Subscribe and Unsubscribe out, and several publishers walk
at once. A websocket client may use an id again as soon as it is free.

**Notifications.** Every SQL statement of `applyOne` and `DeleteByRecordURI` is
an action, because the code uses no transaction. A worker is a `processEvents`
goroutine that reads the log from some position the consumer had reached before;
two may run at once. `torn` remembers envelopes that an operation left half done
(a failure, a crash, or the undo that `applyOne` does not do), `drift` by how much such
an operation left each envelope's count behind its participants. The logs are those a
repository can emit: a record is created only when it is not there
(`CreatesAssumption`).

**Index.** `IndexDB` has the statements of the repositories as operators from a
table to its new value; `Ingest`, `Backfill` and `Purge` say who runs which one
when. `Feed` is what each upstream repository emits. The Tap consumer is one
goroutine (`disp.pc` names its next statement); a failed event is retried
`MaxRetries` times, then the event stays unacknowledged until the connection is
replaced. A backfill is a job that resolves its repositories, takes a snapshot of
each, drops what the table already has, and writes the rest; by then the snapshot
may be out of date. A purge or reset request
recounts, verifies its token, deletes in one transaction and then asks Tap to drop
the repository. Verification is two steps: the claims and the expiry are checked against
a time that is read before the lock is taken (`Verify`), and under the lock used tokens
are pruned by that time, looked up and marked (`Mark`). A token is remembered as the text
of its signature, of which several decode to the same bytes (`Spellings`).
History: `raced` (a backfill wrote back an older version),
`unchecked` (it stored what ingestion refuses), `missed` (an activity write
failed), `gone` (purged repositories), `redeemed` (uses of a token's text before it expires) and
`evicted` (texts that the cap drove out).

**OAuth.** A request occupies a slot and walks down the chain of statements its
handler runs (`Order`); other requests, the cleanup worker, the clock and a crash
come in between. What a handler checks between two statements is part of the next
statement's action. The remote servers' answers are inputs. Signatures, hashes and
encodings are external: a proof or token is a record that says whether they hold.
`DIDCache` has callers, a cache and at most one flight per DID; a document is its
version. `ServiceAuth` is atomic per token, because `checkAndSet` holds its lock.
History: `known` (tokens clients have been given), `lost` (sessions whose answer a crash took),
`ended` (revoked); `issued` (per code or refresh token that was answered, the requests that
had found it good by then and those that got a pair); counts `accepted` (per
DPoP proof, its id and issue time) and `passed` (per service token, its key and
expiry); `forgot` (service tokens whose entry was lost).

**Serve.** `Where` holds three definitions of a filter: the tree the extractor
makes, the value of the SQL that the builder makes of it (true, false, unknown or
error, as in SQL), and `Meets`, which reads the meaning off the input. `Pages` takes
the three as parameters (`FilterTree`, `FilterBuilds`, `FilterValue`, `FilterRaises`,
`InputMet`), which `Serve.cfg` binds to the definitions of `Where`: `Where` is recursive
and the proofs about paging are for any filter. `FilterAssumption` is what they need of
it, that the SQL condition of an accepted input selects the rows that meet the input;
TLC evaluates it for every query of the instance on every content that the record table
can come to have. `Pages` has one client; a page is one statement and the filter and
cursor are evaluated on the table of that moment. `steady` is the set of records that
met the query all along.
`LexiconAdmin` builds the registry from the directory and the table at start, and
says what makes the build of the schema fail (an object without fields, a malformed name,
a clash of generated names). `sound` is history: the last change of the table was an upload
that was checked against the whole table, saved to its end and met no other
change, and no two files had one id. `tidy` is history: every list of administrators
that was given in full had distinct DIDs and nothing else.

Each definition that models code has its source lines in `PROJECT.json` (`map`).
Operators whose comment starts with "Mutant:" are deliberately wrong variants of
the operator that follows them; substituting one must break the property
`PROJECT.json` names for it.

## Runs

| Run | Question | Result |
|---|---|---|
| `js_crash` | two process lives, two connections each, every crash point, replay from a row of an earlier run | `CursorCovered`: the row never passes unsettled work. `TableIsPrefix`: each record is as the stream left it at the event processed last or at a later one processed before, so a replay that has caught up leaves what the stream says. `ImplementsCursorLog` |
| `js_update` | UpdateCollections starts a second loop | `CursorCovered`, `PanicOnlyOnTeardown`, and `Progress`: a consumer that stays up settles the stream |
| `js_failure` | does a failed commit hold the cursor? | violated |
| `subscription` | two ids, two collections, two goroutines, one publisher | `TableSound`, `NoSendOnClosed`, `FeedComplete`, `CapHolds`, `CloseReaches`, `CancelReleases` |
| `subscription_leak` | does close end all subscriptions? | violated |
| `labeler` | backfill, subscription, recovery, reset, crashes | `CursorCovered`, `BackfillCovered`, `GenerationsStopped`, `ImplementsCursorLog` |
| `labeler_promises` | is a positive cursor a complete view, does a rejected frame hold it, does a reset clear it: is one of the three kept? | violated |
| `notifications` | two workers, three starts, one fault | `CountAccounts`, `EnvelopesSettled`, `ReplayConverges`, `OnlyOwnRowsGo` |
| `notifications_ghost` | does a replay leave empty envelopes? | violated |
| `index` | Tap ingestion next to backfills, purges and resets, with retries, panics and crashes | `Converges`, `ActivitySettled`, `TokenOnce`, `EventuallyAcked` |
| `oauth` | logins, grants, revocation, clients, cleanup, service tokens, DID lookups | `NoReplay`, `NoLateIssue`, `NeverStranded`, `DocFresh`, `ServiceOnce` |
| `serve` | paging while rows change; labels, reports, lexicons and settings under several administrators | `PagingExact`, `LabelView`, `ResolvedApplied`, `SchemaBuilds`, `AdminRemains` |

*Bounds.* Two of everything is where the interleavings begin: two connections
(the old goroutines and the new), two loops, two lives, two generations, two
subscription goroutines, two workers; a channel of one slot is already full with one event.
One record with a put and a delete distinguishes every order of delivery (the
theorem `TableCorrect` covers streams with several records). Three
operations per notification log are enough to fill a group, move or remove one
member and see what is left. In `index`, `oauth` and `serve` the behaviour starts by
choosing a quota from `Quotas`: how many requests, failures, crashes and clock ticks
of each kind the environment has. Each quota puts one question (a comment in the MC
module says which), so that the questions add up instead of multiplying; within a
quota every order is explored. One repository with two records of equal content,
a deletion, a rejected version and an unknown operation is enough for every branch
of ingestion and backfill; two slots, two callers and two administrators for every
overlap of two; four deliveries for an assertion, its negation and a repetition of
each. The OAuth times are scaled (a proof lives 300 s, the cleanup keeps 30 s more,
a proof may be 60 s ahead: 1, 1 and 2 in the run). Page size 2 over up to four
records gives full, partial and empty last pages. Each bound is a constant and is named in the guard
that uses it; the last connection of `MaxConns` neither fails nor is lost, so that
an outage ends within the bound.

*Fairness.* Weak fairness only, of steps a running goroutine takes by itself
(the Go scheduler runs it): the actions of a connection, of `processEvents` and of
the flusher, and in `Subscription` of a goroutine and of a publisher that is
inside `Publish`. The upstream is assumed to emit and the process to be restarted.
In `Index` the consumer's goroutine runs, its read deadline of 60 s fires and the
process is started again; `EventuallyAcked` holds for ever again, except for a
repository with an operation that the processor does not know.
Nothing forces a crash, a failure, a client's message or an update. `Progress` is
claimed for a process that stays up and whose last connection lives.

*Deadlock* is not checked: a consumer that has read everything, was stopped, or
has used up its bound of connections rightly stands still, and so does a server
that nobody calls.

## Proofs

`JetstreamProofs`, for every stream, buffer size and number of connections, loops
and restarts (assumption `ConstantsAssumption`):

- `TypeCorrect`: `Spec => []TypeOK`.
- `CursorSafe`: `Spec => []CursorCovered`. The saved row is a copy of a copy (the
  atomic cursor, the value a flusher has read), so the invariant says that all
  copies are covered (`CopiesCovered`). `processEvents` may set the cursor to the
  event in its hand only because everything before that event is settled, and
  that needs the pipe of a connection, from `Client.Run` through the channel to
  `processEvents`, to be complete and in order (`PipeComplete`, `PipeOrdered`),
  and each connection to work on its own client (`OwnClient`). The claim is
  waived once two loops have shared a client (`raced`), which the code allows.
- `Refinement`: `Spec => ImplementsCursorLog`, from the same invariant: a step
  settles events or moves the row to a covered value, never both.
- `TableCorrect`: `Spec => []TableIsPrefix`. The table is judged by the event
  processed last, so the invariant (`OrderInv`, claimed while `ordered`) must say that
  the one worker at work goes on from there: nothing that was read after `last`
  is missing from its connection's pipe unless it could not be parsed
  (`LoneWorker`, `NoHoles`). The event in hand is then the next one for every
  record, or a replay of one that is settled.
- `ReconnectsSafe`: `Spec => PanicOnlyOnTeardown`. Until Stop or UpdateCollections
  has closed a client, one loop runs and each connection works on its own open
  client (`TeardownInv`), so no send meets a closed channel.

`SubscriptionProofs`, for any number of ids, collections, goroutines, events and
concurrent publishers (assumption `SubscriptionAssumption`; the run has one
publisher):

- `TypeCorrect`, `EntriesSound` (`TableSound`), `SendsSafe` (`NoSendOnClosed`),
  `OnlySlowMiss` (`FeedComplete`), `CapBoundsLive` (`CapHolds`) and
  `CloseCancelsLive` (`CloseReaches`), all from one inductive invariant `IInv`.
- A goroutine owns a Subscriber exactly between its Subscribe and its Unsubscribe
  (`GoroutineInv`), so `coll` never changes under a subscriber. The table is
  sound, empty after close and, while no id was used twice, lists every live
  goroutine (`TableInv`); that last part is what fails when ids are reused, and
  `CloseReaches` and `CapHolds` rest on it. The cap itself is an injection of the
  live goroutines into the entries, whose number `CapInv` bounds.
- For `FeedComplete` the invariant follows a walk: in the middle of `Publish`,
  each subscriber that is owed the event is still to be visited or has it
  (`FeedInv`). The write lock of Subscribe and Unsubscribe keeps this and
  `NoSendOnClosed` true, for no subscriber appears or goes during a walk.

`AdminProofs`, for any callers, DIDs and arguments of UpdateSettings, and for any
lexicons, directory, uploads and answers of the network (assumptions
`AdminAssumption`, `LexiconAssumption`):

- `AdminAlwaysRemains`: `AdminSpec => []AdminRemains`. A call holds the list that it
  has read, which others may have replaced since, so that the row alone is not
  inductive: `CallsSound` says that the row is tidy and that the lists in the hands
  of the calls have no entries in excess. A removal counts the entries of the list it
  read and refuses to take the last one (`Removable`); with no entry in excess,
  two entries are two DIDs (`OneLeft`), and one stays. An addition after a failed
  read writes the new DID alone. `AdminCallsSound` is the invariant as a theorem.
- `UploadsBuild`: `LexiconSpec => []SchemaBuilds`. The check registers the live registry's
  files and the upload, a start the directory's and the table's, in another order.
  `Describes` says that a registry is what a set of files makes that have different
  ids; each list of files adds its set (`RegisterAllAdds`, with the least prefix that
  fails in place of an induction), so both end in the same registry. The invariant has
  each upload under way carry the verdict on the table it means to leave.
- `TypesLeast`: the types of a schema, which `Types` finds by a bounded iteration, are the
  least set that has the records and is closed under references. While an iteration is
  not closed the next one has a definition more, and there are finitely many.
- `SchemaWhole`: `LexiconSpec => []ServedWhole`, from `FilesInv` (every row, and every row
  that a call is about to write, is a file, so that a registry is finite) and `TypesLeast`:
  no reference from a served type leads out of the schema or to an object without fields.

`LabelerProofs`, for every log, buffer size, checkpoint interval and number of
generations, resets and restarts (assumption `LabelerAssumption`):

- `TypeCorrect`, `CursorSafe` (`CursorCovered`), `BackfillSafe` (`BackfillCovered`),
  `ReplacedStop` (`GenerationsStopped`) and `Refinement` (`ImplementsCursorLog`).
- The invariant `IInv` has the argument of the Jetstream consumer, once per
  generation: every copy of the cursor and every position of the backfill is
  covered (`CopiesCovered`), a generation's pipe is complete and in order
  (`PipeInv`), a generation that is over is closed and one to come has done
  nothing (`Generations`). That the row is only ever at a frame with stored labels needs
  the same of every copy (`CopiesStored`). The pipes of replaced generations are part of it,
  because their workers and flushers still write the field and the row.

`NotificationsProofs`, for every set of logs, workers, records, actors and bounds
(assumptions `NotificationsAssumption`, `CreatesAssumption`):

- `CountsAccount` (`CountAccounts`). `NotifyInv` adds which envelope each worker has in
  hand and that a participant row refers to an envelope of its recipient that exists
  (`HandsSound`, `RowsSound`), which is what makes a decrement or an increment that is
  outstanding be about the rows it is counted against; an operation that is cut short
  moves its outstanding statements into `drift` (`DriftSound`: only torn envelopes have any).
- `OwnRowsGo` (`OnlyOwnRowsGo`), from `NotifyInv`: a sweep or an undo deletes an envelope
  whose count is 0 or less, and by `CountAccounts` its participants are then no more than
  the increments outstanding or never run. No order of workers and no fault is excluded.
- `EnvelopesRight` (`EnvelopesSettled`). `ShownInv` says for the envelope in hand what
  holds half-way through the statements: new and empty, or one participant ahead of
  its count and head (`Fresh`, `Added`).
- `ReplayRight` (`ReplayConverges`). `ReplayInv` compares the tables with the log at the
  last operation done: a record whose last operation is done has notified whom it
  names, and one whose last operation is a create still to come has notified nobody
  else (`Stands`); the operation in hand is between the two (`Underway`). The second
  case is where `CreatesAssumption` is used: a create does not delete first.

`IndexProofs`, for any repositories, feeds, jobs, requests and quotas (assumptions
`IndexDBAssumption`, `IngestAssumption`, `PurgeAssumption`):

- `TypeCorrect`, `Convergence` (`Converges`), `ActivityCorrect` (`ActivitySettled`),
  and `RedeemedOnce` (`TokenOnce`), from `IndexInv`.
- An event is stored, logged and acknowledged in separate statements, so `InHand` says
  how far the event in hand has come. `AppliedSound` keeps the version that ingestion
  applied last ahead of every event that was acknowledged, and `RowsSound` has a row
  hold that version or a newer one which a backfill fetched; that is how rows are right
  as soon as everything is acknowledged. `LogSound` and `Settled` do the same for the
  activity rows. `TokensSound` says that a text that was redeemed is remembered until the
  token expires or the cap drives it out, and that a request holds a time no later than
  now: pruning by an older time keeps more, so that no entry goes before its expiry.

`OAuthProofs`, for any clients, requests, documents, tokens and time limits
(assumptions `OAuthAssumption`, `ServiceAuthAssumption`, `DIDCacheAssumption`,
`IdentityAssumption`):

- `TypeCorrect`, `ReplayRefused` (`NoReplay`), `LateRefused` (`NoLateIssue`),
  `SessionsKept` (`NeverStranded`), `DocumentsFresh` (`DocFresh`) and `TokensOnce`
  (`ServiceOnce`), from `OAuthInv`.
- The server, the replay cache and the DID cache share nothing but the clock, so each
  has an invariant of its own (`FullServerInv`, `ServiceInv`, `DIDInv`). The server's many
  statements are first reduced to a few effects on the tables, and the invariant is
  shown to survive each effect.
- `NoReplay` needs that an id row outlives the time in which its proof is accepted,
  which the cleanup's margin provides (`ProofsInv`); `NoLateIssue`, that a request answers
  only for a grant that is dead (marked, revoked or deleted), that a dead grant stays dead,
  and that whoever still redeems one had read it before (`GrantsDead`, `IssuedOnce`);
  `NeverStranded`, that a token is revoked only after its successor was
  stored (`Rotations`, `Served`); `DocFresh`, that a flight is younger than `Timeout` and
  started no earlier than its waiters allow (`FlightSound`, `CallersSound`).

`ServeProofs`, for any labelers, administrators, reports, records, queries, page sizes
and clock (assumptions `LabelsAssumption`, `PagesAssumption`, `CollationAssumption`,
`FilterAssumption`, and those of `AdminProofs`):

- `ViewCorrect` (`LabelView`) and `ResolvedCorrect` (`ResolvedApplied`), over `LabelsSpec`, the
  label store by itself, from `LabelsInv`: the table has a row for every key that was
  given and nothing that was not (`TableStands`), and a report that is marked, or that a
  call is about to mark, has its label in the table (`CallsKept`).
- `ListsCorrect` (`ListExact`), over `LabelsSpec`. `ListInv` says that a list has passed
  exactly the rows beyond its cursor: ids only grow, so a row inserted meanwhile is never
  between two pages that were read.
- `PagingCorrect` (`PagingExact`), over `Spec`. `PagesInv` says of every record that met the
  query throughout and lies in no second that a page ended within (`Placed`): it is on
  exactly one page if the cursor has passed it, and on none and still ahead of the cursor
  if not. The step is `FetchPage`. The rows of a page are the first ones of the records
  found, in order (`InOrderLists`, `PageOf`); the cursor made from the last edge divides the
  records that are not in its second just where the page divided them (`CursorDivides`),
  and is beyond the cursor before (`CursorOnward`). Other steps change the records, labels
  and hosts, and so what is found, but a record stays steady only while it keeps its row.
- `ServesLabels`, `ServesLexicons` and `ServesSettings`: `Spec` implements `LabelsSpec`,
  `LexiconSpec` and `AdminSpec`, the specifications of the parts by themselves with the clock
  and restarts. Every step of the whole is a step of each part or leaves it alone
  (`StepOfParts`).
- `ServeCorrect`: so the invariants of the parts, and that the served schema is whole, hold
  of `Spec`.

Only model-checked:

- liveness (`Progress`, `CancelReleases`, `EventuallyAcked`): fairness and ENABLED are
  outside TLAPS;
- that the SQL of a filter selects what its input asks for (`FilterAssumption`), which is
  recursive over the input: TLC evaluates it on the queries of `MCServe`;
- the four violations, which are counterexamples.

## Findings

Each is a run that TLC ends with a counterexample.

- `js_failure`: the next successful event moves the cursor past a failed commit,
  although `consumer.go` says "Don't advance cursor on failure".
- `subscription_leak`: a goroutine deletes its map entry by id on its way out; if
  the client has meanwhile reused the id, the new subscription is no longer in the
  map and `close` does not end it.
- `labeler_promises`: one behaviour breaks three promises of the comments. After a failed
  backfill the live subscription starts anyway and leaves a positive cursor row, so the
  labels missed are never fetched (`CompleteView`). A frame whose labels were all rejected
  does not move the cursor, but the next frame that is stored moves it past
  (`RejectedHeld`, `labeler/consumer.go:509-512`). And a row that the reset endpoint has
  deleted is written back by the flusher of the running consumer (`ResetForces`,
  `admin_http.go:45-46`). `CursorCovered` claims what is left: the row does not pass
  a frame that is still with the consumer and is never at one that was rejected.
- `notifications_ghost`: redelivering the creation of an endorsement that has
  moved to another subject leaves an aggregated envelope with no participants.

Others are visible as side conditions of passing properties, or were met while
modelling:

- `TableIsPrefix` needs `ordered`: the shared cursor is not reset on reconnect, so a
  flusher may save the old position while a replay is under way, and if that replay
  breaks off, old versions and deleted records stay.
- `EnvelopesSettled` excludes `torn` envelopes, and `CountAccounts` counts the statements
  that were never run (`drift`): a crash between the participant and the count is never
  repaired, because the replay finds the participant.
- `OnlyOwnRowsGo` admits that an envelope is deleted with as many participants as its
  count is behind. With two workers and no fault this happens: one decrements the count
  to 0, the other inserts its participant into the same envelope and has yet to count it,
  and the first deletes the envelope (`notifications/repo.go:167`); the foreign key takes the
  other record's participant with it, and the increment then finds no envelope.
- `Converges` excludes `raced` records: a backfill that downloaded a version before a
  newer event was applied writes the old one back, or a deleted record, and nothing
  corrects it. It excludes `unchecked` ones because `BackfillActor` stores versions that
  enforce mode rejects. Record upserts also reset an actor's handle to the empty one.
- `PagingExact` excludes the records of a second within which a page ended: the cursor
  holds the time cut to whole seconds, so that newest-first paging skips and
  oldest-first paging repeats records of that second, where
  `docs/behavioral-tests.md:697` says "no duplicates and no skips across page
  boundaries". Orders other than by `indexed_at` are excluded too (a TODO in the
  code), and a page all of whose records fail `SanitizeRecord` has an empty cursor.
- The filter builder counts each `_and` or `_or` as two levels, so that less nests
  than the "max depth 3" of `README.md:179`.
- `LabelView` excludes keys that were issued again with another time: the first row is
  kept, so that an assertion after a negation does not come back (as `labels_test.go`
  and the repository's README say). Likewise `ResolvedApplied` admits a report that is
  resolved with a label which an older negation still hides.
- `SchemaBuilds` is about the last upload only: an upload before the pending restart is
  checked against the registry of the running process, `RegisterLexicon` stores without
  a check, and `Registry.Register` keeps the definitions of an older file of the same id.
  It also needs every stored file to have the id of its row. `RegisterLexicon` stores
  under the id that was asked for whatever the network has; such a file may hide
  another row's in the registry, so that an upload that replaces it passes the check
  and leaves a table that does not build.
- `AdminRemains` needs `tidy`: `UpdateSettings` accepts a list of blanks, which empties
  the list although its comment says "Validate each entry so an admin can't lock the
  instance out with a typo", and repeated entries let the last DID be removed. At the
  next start `ADMIN_DIDS` seeds an empty list. Overlapping changes lose one another's
  updates, and an addition whose read failed replaces the list.
- `NoLateIssue` is about requests that look a grant up after the first answer. Requests that
  overlap may each be answered a pair, although `oauth_handlers.go:637-638` says "Auth codes
  are one-time-use": the lookup (617) and `MarkUsed` (674) are separate statements, and the
  update does not ask whether the code was already used. `NeverStranded` excludes sessions
  whose answer was lost.
- `TokenOnce` and `ServiceOnce` exclude entries that a cap drove out or that went
  with the process, as comments in the code grant. `TokenOnce` is stated of the text of a
  signature and of uses before the token expires, where `purge.go:59-60` says "Single-use is
  enforced server-side via an in-memory used-token set keyed by the signature": the set is
  keyed by the undecoded text (340), while decoded bytes are compared (282-290); and the
  expiry is checked (334-337) before the lock is taken (341), so that a request which
  is held up past the expiry may find the entry of an earlier one pruned.
- What a purge deletes is not claimed to be what its preview counted: the recount and the
  transaction are separate (`purge.go:501`), and other writers come in between.

## Abstractions

- A SQL statement is atomic, and fails or succeeds as a whole.
- Records, labels, DIDs and collections are model values; JSON, CBOR, URLs,
  signatures and wording are left out. Validation and parsing are reduced to
  their outcome (an event that is stored, passed over, or not parsable).
- Time is abstracted in the consumers: a backoff, a ticker or a deadline may expire at
  any step. `OAuth` and `Serve` have a clock of whole units.
- Log lines, metrics, pings and statistics are left out.
- A labeler page and a frame carry the labels of one position.
- `startInternal` reads `Consumer.client` without the lock for `processEvents` and again for
  `Run` (`jetstream/consumer.go:202` and `205`), which `Launch` takes as one read. They
  differ only when a second loop replaces the client between them, one more way for two
  loops to share a client, which the model has at `Connect` and at `Launch` (`raced`).
- `PopulateActivityIfEmpty` takes its two counts and its walk over the records
  (`main.go:313-339`) as one step; no property is about the rows it adds. `ExchangedSession`
  likewise has `GetLatest` and `Update` in one step, on a row that has one writer.
- The server runs in UTC; `JETSTREAM_COLLECTIONS` and `TAP_DISABLE_ACKS` are unset.
- Logins that were completed before the behaviour starts are seeded in `oauth`, so that
  grants are explored without the steps that lead to them.
- Texts are tokens with their order, case folding and inclusions given as constants;
  lexicons are reduced to what the filters and the build of the schema read. `Build` compares
  the names of object types. The names of unions, connections and inputs are left out, and with
  them the suffix that a union gets when an object type already built has its name
  (`object.go:362-381`), which may depend on the order of a Go map: a clash of such names is not
  seen. So are record definitions other than `main` (`registry.go:70-72`).

### Not modelled

- No protocol state: configuration, metrics, logging, CORS, static pages, statistics
  queries, GraphQL type definitions, OAuth metadata and JWKS, the web client.
- Out of reach: cryptography, JSON, CBOR and CAR decoding, SQL execution, migrations.
- No caller in the program: `AddRepos`, `AddAdminDID` and `RemoveAdminDID`, writes of
  label preferences, take-down queries, the retention helpers of notifications, stored DPoP
  nonces, `RevokeByUserID`.
- Left out: the seen watermark and lists of notifications, the query depth guard, the
  custom queries beside the record connections, scope parsing, the labeler's host
  resolution, the order in which the services stop.

## Plan

Done: the consumers and their refinement of `CursorLog`; subscriptions; notifications;
ingestion, backfill and purge (`index`); the OAuth server and caches (`oauth`); labels,
paging, lexicons and settings (`serve`). What is left, in this order:

1. Proofs: that `Clause` selects what `Meets` asks for, once recursion over a filter tree is
   written as a function of its depth.
2. Liveness of the labeler's generations on a smaller instance.
3. Notifications: the seen watermark against concurrent bumps of an envelope.
4. The query depth guard as a pure operator against a reference definition.
