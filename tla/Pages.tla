-------------------------------- MODULE Pages --------------------------------
(***************************************************************************)
(* A client reads a record connection page by page                         *)
(* (resolveRecordConnection in internal/graphql/schema/builder.go over     *)
(* GetByCollectionFiltered in internal/database/repositories/records.go)   *)
(* while records, actors and labels change.  A page is one query; the next *)
(* one goes on from a cursor that holds the time and the URI of a record.  *)
(* What a where input does is a parameter, to which Where gives a meaning. *)
(***************************************************************************)
EXTENDS RecordData, Labels, SequencesExt

CONSTANTS
    Uris,            \* the URIs of records
    Owner,           \* uri -> DID
    Collection,      \* uri -> lexicon id
    UriRank,         \* the order of URIs as texts
    Bodies,          \* uri -> the versions that are written, none where a record stays as it is
    Body,            \* version -> [json, words]
    Rows0,           \* the record tables to begin with: uri -> [v, ts] or NoRow
    Endpoints,       \* the PDS hosts of actors
    Queries,         \* the queries that clients make
    DefaultPageSize, \* 20 in the code
    MaxPageSize,     \* 100 in the code
    MaxFilterSize,   \* longest authors and excludePds lists: 500 and 32 in the code
    MaxPages,        \* bound on the pages of one walk
    FilterTree(_, _),     \* extractFieldFilters: where input, collection -> filters, bad if refused
    FilterBuilds(_),      \* BuildFilterGroupClause: whether the SQL for the filters is built
    FilterValue(_, _, _), \* the value of that SQL on a row of a table: "T", "F", "N", or "E" for an error
    FilterRaises(_, _, _),\* whether some part of it fails on the row
    InputMet(_, _, _, _)  \* what the input asks of a row, read off the input itself

VARIABLES
    record,          \* table record: uri -> [v, ts]
    pds,             \* table actor: DID -> endpoint, or Null while unresolved
    query,           \* the query of the walk
    walk             \* how far the client is, and history of what it got

pageVars == <<record, pds, query, walk>>

NoRow == [v |-> Null, ts |-> 0]
NoWalk == [step |-> "idle"]
Dids == {Owner[u] : u \in Uris}

PagesInit ==
    /\ record \in Relevant("walk", Rows0)
    /\ pds = [d \in Dids |-> Null]
    /\ query \in Relevant("walk", Queries)
    /\ walk = NoWalk

RowOf(u, v) == [uri |-> u, did |-> Owner[u], collection |-> Collection[u], json |-> Body[v].json]
Row(u) == RowOf(u, record[u].v)
Present == {u \in Uris : record[u] # NoRow}
Table == {Row(u) : u \in Present}

-----------------------------------------------------------------------------
(* The filters besides where.                                              *)

LabelMatch(u, vals, srcs) ==
    \E l \in GetByURIs({u}) : l.val \in vals /\ (srcs # {} => l.src \in srcs)

\* Everything but where and the cursor: collection, authors, search, labels, PDS.
Filtered(u, q) ==
    /\ u \in Present /\ Collection[u] = q.collection
    /\ q.authors # <<>> => Owner[u] \in q.authors[1]
    /\ q.search # Null => q.search \in Body[record[u].v].words
    /\ q.include # {} => LabelMatch(u, q.include, q.srcs)
    /\ q.exclude # {} => ~LabelMatch(u, q.exclude, q.srcs)
    /\ pds[Owner[u]] \notin q.excludePds

\* The records a query is about.
Wanted(u, q) == Filtered(u, q) /\ InputMet(q.where, q.collection, Row(u), Table)

\* Rejected before any row is read.
Refused(q) ==
    LET g == FilterTree(q.where, q.collection) IN
    \/ q.args = {"first", "last"}
    \/ q.authors # <<>> /\ Cardinality(q.authors[1]) > MaxFilterSize
    \/ g.bad
    \/ q.authors # << {} >> /\ (Cardinality(q.excludePds) > MaxFilterSize \/ ~FilterBuilds(g))

-----------------------------------------------------------------------------
(* What the constants are.                                                 *)

\* A row as it is stored.
Stored == [v : DOMAIN Body \ {Null}, ts : Nat] \cup {NoRow}

ASSUME PagesAssumption ==
    /\ IsFiniteSet(Uris)
    /\ \A u, v \in Uris : UriRank[u] \in Int /\ (UriRank[u] = UriRank[v] => u = v)
    /\ \A u \in Uris : Bodies[u] \subseteq DOMAIN Body \ {Null}
    /\ Rows0 # {} /\ Rows0 \subseteq [Uris -> Stored]
    /\ Queries # {} /\ \A q \in Queries : q.size \in Int
    /\ DefaultPageSize \in Nat /\ MaxPageSize \in Nat

\* Every text that a query sorts by has its place in the collation.
ASSUME CollationAssumption ==
    \A q \in Queries, v \in DOMAIN Body :
        q.sort \notin {"indexed_at", "uri"} /\ At(Body[v], q.sort).text # Null =>
            Text.rank[At(Body[v], q.sort).text] \in Int

\* The contents that the table may come to have: uri -> version, or Null.
Changing == {u \in Uris : Bodies[u] # {}}
Versions(u) == Bodies[u] \cup {r[u].v : r \in Rows0} \cup {Null}
Contents ==
    {[u \in Uris |-> IF u \in Changing THEN f[u] ELSE r[u].v] :
        r \in Rows0, f \in [Changing -> UNION {Versions(u) : u \in Changing}]}
TableOf(c) == {RowOf(u, c[u]) : u \in {w \in Uris : c[w] # Null}}

\* The SQL condition of an input that is neither refused nor too large selects the rows
\* that meet the input, where evaluating it does not fail.
ASSUME FilterAssumption ==
    \A q \in Queries : \A g \in {FilterTree(q.where, q.collection)} :
        ~g.bad /\ FilterBuilds(g) =>
            \A c \in Contents : \A rows \in {TableOf(c)}, u \in {u \in Uris : c[u] # Null /\ Collection[u] = q.collection} :
                FilterValue(g, RowOf(u, c[u]), rows) # "E" =>
                    (FilterValue(g, RowOf(u, c[u]), rows) = "T" <=> InputMet(q.where, q.collection, RowOf(u, c[u]), rows))

-----------------------------------------------------------------------------
(* Order and cursor.                                                       *)

TicksPerSecond == 2
Second(ts) == ts \div TicksPerSecond

HasKey(u, q) == q.sort \in {"indexed_at", "uri"} \/ At(Row(u), q.sort).text # Null
SortKey(u, q) ==
    CASE q.sort = "indexed_at" -> record[u].ts
      [] q.sort = "uri"        -> UriRank[u]
      [] OTHER                 -> Text.rank[At(Row(u), q.sort).text]

\* ORDER BY key NULLS LAST, uri.
Precedes(u, v, q) ==
    LET Ahead(a, b) == IF q.dir = "DESC" THEN a > b ELSE a < b IN
    \/ HasKey(u, q) /\ ~HasKey(v, q)
    \/ HasKey(u, q) /\ HasKey(v, q) /\ Ahead(SortKey(u, q), SortKey(v, q))
    \/ /\ HasKey(u, q) <=> HasKey(v, q)
       /\ HasKey(u, q) => SortKey(u, q) = SortKey(v, q)
       /\ Ahead(UriRank[u], UriRank[v])

\* The cursor holds indexed_at to the second, whatever the query is sorted by; as a
\* text, a time sorts before the URIs and values of the model.
encodeCursorV2(u, q) ==
    [value |-> IF q.sort = "indexed_at" THEN TicksPerSecond * Second(record[u].ts) ELSE 0, uri |-> u]

\* Mutant: a cursor that compares the time alone.
AfterTimeOnly(u, c, q) ==
    /\ HasKey(u, q)
    /\ IF q.dir = "DESC" THEN SortKey(u, q) < c.value ELSE SortKey(u, q) > c.value
\* The keyset condition.
AfterCursor(u, c, q) ==
    /\ HasKey(u, q)
    /\ LET Beyond(a, b) == IF q.dir = "DESC" THEN a < b ELSE a > b IN
       Beyond(SortKey(u, q), c.value) \/ (SortKey(u, q) = c.value /\ Beyond(UriRank[u], UriRank[c.uri]))

Prefix(s, n) == SubSeq(s, 1, IF Len(s) < n THEN Len(s) ELSE n)

Found(q, g, cursor) ==
    {u \in Uris :
        /\ q.authors # << {} >> /\ Filtered(u, q)
        /\ FilterValue(g, Row(u), Table) = "T"
        /\ cursor # <<>> => AfterCursor(u, cursor[1], q)}

\* The i-th of a set of records is the one that i - 1 of them come before.
InOrder(S, q) == [i \in 1 .. Cardinality(S) |-> CHOOSE u \in S : Cardinality({v \in S : Precedes(v, u, q)}) = i - 1]

GetByCollectionFiltered(q, g, cursor, limit) == Prefix(InOrder(Found(q, g, cursor), q), limit)

ClampPageSize(n) == IF n <= 0 THEN DefaultPageSize ELSE IF n > MaxPageSize THEN MaxPageSize ELSE n

\* A typed query drops the records that lack a required field or have a bad one.
checkJSONType(v, type) == v.type = (IF type \in {"integer", "number"} THEN "number" ELSE IF type = "array" THEN type ELSE "string")
validateFormat(v, type) ==
    CASE type = "datetime" -> v.text \in DOMAIN Text.time [] type = "did" -> v.text \in Text.dids [] OTHER -> TRUE
SanitizeRecord(u) ==
    LET lex == Lexicons[Collection[u]] IN
    \A f \in lex.required :
        LET v == At(Row(u), f) IN v.text # Null /\ checkJSONType(v, lex.props[f]) /\ validateFormat(v, lex.props[f])
Shown(u, q) == q.typed => SanitizeRecord(u)

-----------------------------------------------------------------------------
(* The walk.  steady, got, cut and stray are history: the wanted records   *)
(* that nothing touched since the walk began, what the pages had, the      *)
(* seconds that a page boundary fell into, whether a page had more.        *)

StartWalk ==
    /\ walk = NoWalk /\ Spend("walk")
    /\ walk' = IF Refused(query) THEN [step |-> "refused"]
               ELSE [step |-> "fetch", cursor |-> <<>>, got |-> <<>>, cut |-> {}, stray |-> FALSE,
                     steady |-> {u \in Uris : Wanted(u, query) /\ Shown(u, query)}]
    /\ UNCHANGED <<record, pds, query>>

Backward == query.args = {"last"}
Reversed(s) == IF Backward THEN Reverse(s) ELSE s

\* The client goes on from the last edge in reading order while there is more.
TakePage(edges, more) ==
    LET border == Reversed(edges)[Len(edges)]
        goesOn == more /\ edges # <<>>
    IN walk' = [step |-> IF goesOn THEN "fetch" ELSE IF more THEN "stuck" ELSE "done",
                cursor |-> IF goesOn THEN <<encodeCursorV2(border, query)>> ELSE walk.cursor,
                got |-> Append(walk.got, edges),
                cut |-> IF goesOn /\ record[border].ts % TicksPerSecond # 0
                        THEN walk.cut \cup {Second(record[border].ts)} ELSE walk.cut,
                stray |-> walk.stray \/ \E i \in DOMAIN edges : ~Wanted(edges[i], query),
                steady |-> walk.steady]

\* One page: size + 1 rows are read, the edges are those that can be shown.
FetchPage ==
    /\ walk.step = "fetch" /\ Len(walk.got) < MaxPages /\ Fine
    /\ \E g \in {FilterTree(query.where, query.collection)}, size \in {ClampPageSize(query.size)} :
        /\ \A u \in Uris : Filtered(u, query) => FilterValue(g, Row(u), Table) # "E"
        /\ \E rows \in {GetByCollectionFiltered(query, g, walk.cursor, size + 1)} :
             TakePage(Reversed(InOrder({u \in ToSet(Prefix(rows, size)) : Shown(u, query)}, query)), Len(rows) > size)
    /\ UNCHANGED <<record, pds, query>>

\* A value that cannot be cast fails the whole query.
FetchFails ==
    /\ walk.step = "fetch" /\ Fine
    /\ LET g == FilterTree(query.where, query.collection) IN
       \E u \in Present : Collection[u] = query.collection /\ FilterRaises(g, Row(u), Table)
    /\ walk' = [walk EXCEPT !.step = "failed"]
    /\ UNCHANGED <<record, pds, query>>

-----------------------------------------------------------------------------
(* What changes meanwhile.                                                 *)

\* An upsert leaves a row with the same cid alone, and else moves it to now.
InsertWithParams(u, v) ==
    /\ Spend("write") /\ v # record[u].v
    /\ record' = [record EXCEPT ![u] = [v |-> v, ts |-> now]]
    /\ UNCHANGED <<pds, query>>
DeleteRecord(u) ==
    /\ Spend("write") /\ u \in Present
    /\ record' = [record EXCEPT ![u] = NoRow]
    /\ UNCHANGED <<pds, query>>
\* Ingestion learns where an actor is hosted.
ResolvePDS(d, e) ==
    /\ Spend("host") /\ pds' = [pds EXCEPT ![d] = e]
    /\ UNCHANGED <<record, query>>

ReadNext == StartWalk \/ FetchPage \/ FetchFails
WriteNext ==
    \/ \E u \in {u \in Uris : Bodies[u] # {}} : DeleteRecord(u) \/ \E v \in Bodies[u] : InsertWithParams(u, v)
    \/ \E d \in Dids, e \in Endpoints : ResolvePDS(d, e)

\* Every other step of the system keeps the history of the walk.
KeepSteady ==
    walk' = IF walk.step \in {"idle", "refused"} THEN walk
            ELSE [walk EXCEPT !.steady = {u \in @ : record'[u] = record[u] /\ Wanted(u, query)'}]

-----------------------------------------------------------------------------

Pages(u) == {i \in DOMAIN walk.got : \E k \in DOMAIN walk.got[i] : walk.got[i][k] = u}

\* Paging through a connection, forward or backward, newest or oldest first, while
\* records, labels and actors change: every record that meets the query throughout
\* and is not touched is on exactly one page, and no page has a record that does not
\* meet it.  Out of it are records of a second that a page ended within, whose cursor
\* loses the fraction (resolveRecordConnection formats IndexedAt to the second), pages
\* all of whose records fail SanitizeRecord, and orders other than by indexed_at.
WalkExact ==
    walk.step \notin {"idle", "refused"} =>
        /\ ~walk.stray
        /\ query.sort = "indexed_at" =>
            \A u \in walk.steady : Second(record[u].ts) \notin walk.cut =>
                /\ Cardinality(Pages(u)) <= 1
                /\ walk.step = "done" => Cardinality(Pages(u)) = 1
=============================================================================
