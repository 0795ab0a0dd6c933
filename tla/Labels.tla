------------------------------- MODULE Labels --------------------------------
(***************************************************************************)
(* Labels, label definitions and reports: the repositories labels.go,      *)
(* label_definitions.go and reports.go, the admin mutations over them      *)
(* (admin/resolvers_labels.go), and the paginated lists that the admin     *)
(* interface reads.  Labels arrive from the labeler subscriptions in any   *)
(* order and repeatedly, and from administrators; an assertion and its     *)
(* negation are rows of their own, compared by their creation time.        *)
(***************************************************************************)
EXTENDS Budget, Sequences, FiniteSets, FiniteSetsExt

CONSTANTS
    Subjects,    \* the subjects of labels and reports
    Vals,        \* label values
    DomainDID,   \* the source of the labels that administrators create
    SystemSrc,   \* the source of the built-in definitions
    LabelEvents, \* what the labelers publish: [src, uri, val, cid, neg, cts, exp]
    Expiries,    \* the expiry times that administrators give
    Admins,      \* administrators at work at the same time
    Reporters,
    DefaultPage, \* 20 in the code
    MaxPage,     \* 200 in the code
    Never,       \* an expiry time later than any other: exp IS NULL
    MaxTime      \* bound on the clock

ASSUME LabelsAssumption ==
    /\ \A e \in LabelEvents : e.neg \in BOOLEAN /\ e.cts \in Int /\ e.exp \in Int
    /\ Expiries \subseteq Int
    /\ MaxTime \in Nat /\ Never \in Int /\ Never > MaxTime
    /\ DefaultPage \in Nat /\ MaxPage \in Nat

VARIABLES
    now,         \* the clock, two ticks to the second
    labels,      \* table label
    given,       \* history: every assertion and negation that was accepted
    definitions, \* table label_definition: pairs <<src, val>>
    reports,     \* table report: the sequence of rows, by id
    resolving,   \* admin -> the ResolveReport call under way
    listing      \* an administrator reading a list page by page

labelVars == <<labels, given, definitions, reports, resolving, listing>>

NoCID == "none"
Idle == [step |-> "idle"]

LabelsInit ==
    /\ labels = {} /\ given = {} /\ reports = <<>>
    /\ definitions = {<<SystemSrc, CHOOSE v \in Vals : TRUE>>}
    /\ resolving = [a \in Admins |-> Idle]
    /\ listing = Idle

-----------------------------------------------------------------------------
(* The label table.                                                        *)

NextId == 1 + Max({0} \cup {l.id : l \in labels})

\* The partial unique indexes: an assertion per cid, a negation per value.
SameKey(l, e) ==
    /\ l.neg = e.neg /\ l.src = e.src /\ l.uri = e.uri /\ l.val = e.val
    /\ ~e.neg => l.cid = e.cid

\* ON CONFLICT DO NOTHING: the first row of a key is kept, findExisting returns it.
InsertRow(e) ==
    /\ labels' = IF \E l \in labels : SameKey(l, e) THEN labels
                 ELSE labels \cup {[id |-> NextId, src |-> e.src, uri |-> e.uri, cid |-> e.cid, val |-> e.val,
                                    neg |-> e.neg, cts |-> e.cts, exp |-> e.exp]}
    /\ given' = given \cup {e}

Insert(src, uri, cid, val, cts, exp) ==
    InsertRow([src |-> src, uri |-> uri, cid |-> cid, val |-> val, neg |-> FALSE, cts |-> cts, exp |-> exp])
InsertNegation(src, uri, val, cts) ==
    InsertRow([src |-> src, uri |-> uri, cid |-> NoCID, val |-> val, neg |-> TRUE, cts |-> cts, exp |-> Never])

\* Mutant: a negation counts only against the rows that were there before it.
ActiveByArrival(l) ==
    /\ ~l.neg /\ l.exp > now
    /\ ~\E n \in labels : n.neg /\ n.src = l.src /\ n.uri = l.uri /\ n.val = l.val /\ n.id > l.id
\* What GetByURIs, HasTakedown, GetTakedownURIs and the label filters count as set.
Active(l) ==
    /\ ~l.neg /\ l.exp > now
    /\ ~\E n \in labels : n.neg /\ n.src = l.src /\ n.uri = l.uri /\ n.val = l.val /\ n.cts >= l.cts

GetByURIs(us) == {l \in labels : l.uri \in us /\ Active(l)}

\* A row per source and value; the process caches the ones it made.
ensureDefinition(src, val) == definitions \cup {<<src, val>>}

\* upsertLabels: a labeler's event is applied, possibly again (labeler/consumer.go).
\* Either of its two statements may fail.
Deliver(e) ==
    /\ \/ /\ Spend("deliver")
          /\ definitions' = ensureDefinition(e.src, e.val)
          /\ IF e.neg THEN InsertNegation(e.src, e.uri, e.val, e.cts)
             ELSE Insert(e.src, e.uri, e.cid, e.val, e.cts, e.exp)
       \/ /\ quota["deliver"] > 0 /\ Spend("fault")
          /\ definitions' \in {definitions, ensureDefinition(e.src, e.val)}
          /\ UNCHANGED <<labels, given>>
    /\ UNCHANGED <<reports, resolving, listing>>

-----------------------------------------------------------------------------
(* Administrators.                                                         *)

Defined(val) == <<DomainDID, val>> \in definitions \/ <<SystemSrc, val>> \in definitions

CreateLabel(uri, val, exp) ==
    /\ Spend("moderate") /\ Defined(val)
    /\ Insert(DomainDID, uri, NoCID, val, now, exp)
    /\ UNCHANGED <<definitions, reports, resolving, listing>>

NegateLabel(uri, val) ==
    /\ Spend("moderate")
    /\ InsertNegation(DomainDID, uri, val, now)
    /\ UNCHANGED <<definitions, reports, resolving, listing>>

CreateLabelDefinition(src, val) ==
    /\ Spend("define") /\ <<src, val>> \notin definitions
    /\ definitions' = definitions \cup {<<src, val>>}
    /\ UNCHANGED <<labels, given, reports, resolving, listing>>

\* One report per reporter and subject.
InsertReport(reporter, uri) ==
    /\ Spend("report")
    /\ ~\E i \in DOMAIN reports : reports[i].reporter = reporter /\ reports[i].uri = uri
    /\ reports' = Append(reports, [id |-> Len(reports) + 1, reporter |-> reporter, uri |-> uri,
                                   status |-> "pending", by |-> NoCID, val |-> NoCID])
    /\ UNCHANGED <<labels, given, definitions, resolving, listing>>

\* ResolveReport: Reports.Get, then Labels.Insert, then Reports.Resolve, three
\* statements of which each may fail; nobody looks at the status in between.
BeginResolve(a, i, action, val) ==
    /\ resolving[a] = Idle /\ Spend("resolve")
    /\ resolving' = [resolving EXCEPT ![a] =
          [step |-> IF action = "apply_label" THEN "label" ELSE "mark", id |-> i,
           status |-> IF action = "apply_label" THEN "resolved" ELSE "dismissed", val |-> val]]
    /\ UNCHANGED <<labels, given, definitions, reports, listing>>

\* Mutant: a label that could not be inserted is only logged.
ApplyLabelAnyway(a) ==
    /\ resolving[a].step = "label"
    /\ \/ /\ Fine
          /\ Insert(DomainDID, reports[resolving[a].id].uri, NoCID, resolving[a].val, now, Never)
       \/ Spend("fault") /\ UNCHANGED <<labels, given>>
    /\ resolving' = [resolving EXCEPT ![a].step = "mark"]
    /\ UNCHANGED <<definitions, reports, listing>>
ApplyLabel(a) ==
    /\ resolving[a].step = "label"
    /\ \/ /\ Fine
          /\ Insert(DomainDID, reports[resolving[a].id].uri, NoCID, resolving[a].val, now, Never)
          /\ resolving' = [resolving EXCEPT ![a].step = "mark"]
       \/ /\ Spend("fault") /\ resolving' = [resolving EXCEPT ![a] = Idle]
          /\ UNCHANGED <<labels, given>>
    /\ UNCHANGED <<definitions, reports, listing>>

\* val is history: what the call that marked the report had applied.
Resolve(a) ==
    /\ resolving[a].step = "mark"
    /\ \/ /\ Fine
          /\ reports' = [reports EXCEPT ![resolving[a].id].status = resolving[a].status,
                                        ![resolving[a].id].by = a, ![resolving[a].id].val = resolving[a].val]
       \/ Spend("fault") /\ UNCHANGED reports
    /\ resolving' = [resolving EXCEPT ![a] = Idle]
    /\ UNCHANGED <<labels, given, definitions, listing>>

ResolveReport(a) ==
    \/ \E i \in DOMAIN reports, action \in {"apply_label", "dismiss"}, val \in Vals : BeginResolve(a, i, action, val)
    \/ ApplyLabel(a) \/ Resolve(a)

-----------------------------------------------------------------------------
(* The paginated lists, newest id first.                                   *)

clampAdminPageSize(n) == IF n <= 0 THEN DefaultPage ELSE IF n > MaxPage THEN MaxPage ELSE n

NoCursor == 0   \* ids begin at 1
GetPaginated(rows, first, after) ==
    LET eligible == {r \in rows : after = NoCursor \/ r.id < after}
        Newer(r) == Cardinality({s \in eligible : s.id > r.id})
    IN [rows |-> {r \in eligible : Newer(r) < first}, hasNext |-> Cardinality(eligible) > first]

Rows(list) == IF list = "labels" THEN labels ELSE {reports[i] : i \in DOMAIN reports}

\* An administrator reads a list with pages of n until there is no next page.
\* start and seen are history: the ids there were, and the ids the pages had.
StartList(list, n) ==
    /\ listing.step \in {"idle", "read"} /\ Spend("list")
    /\ listing' = [step |-> "reading", list |-> list, first |-> clampAdminPageSize(n), after |-> NoCursor,
                   start |-> {r.id : r \in Rows(list)}, seen |-> <<>>]
    /\ UNCHANGED <<labels, given, definitions, reports, resolving>>

ListPage ==
    /\ listing.step = "reading" /\ Fine
    /\ LET p == GetPaginated(Rows(listing.list), listing.first, listing.after)
           ids == {r.id : r \in p.rows}
       IN listing' = [listing EXCEPT !.step = IF p.hasNext THEN "reading" ELSE "read",
                                     !.after = IF ids = {} THEN @ ELSE Min(ids), !.seen = Append(@, ids)]
    /\ UNCHANGED <<labels, given, definitions, reports, resolving>>

-----------------------------------------------------------------------------

LabelsNext ==
    \/ \E e \in LabelEvents : Deliver(e)
    \/ \E u \in Subjects, v \in Vals : NegateLabel(u, v) \/ \E x \in Expiries : CreateLabel(u, v, x)
    \/ \E s \in {DomainDID}, v \in Vals : CreateLabelDefinition(s, v)
    \/ \E r \in Reporters, u \in Subjects : InsertReport(r, u)
    \/ \E a \in Admins : ResolveReport(a)
    \/ \E l \in {"labels", "reports"}, n \in 0 .. 2 : StartList(l, n)
    \/ ListPage

LabelsCrash ==
    /\ resolving' = [a \in Admins |-> Idle]
    /\ listing' = Idle
    /\ UNCHANGED <<labels, given, definitions, reports>>

\* The component by itself: the clock goes on, the process may be restarted.
LabelsStep ==
    \/ (LabelsNext \/ LabelsCrash) /\ UNCHANGED now
    \/ now < MaxTime /\ now' = now + 1 /\ UNCHANGED labelVars
LabelsSpec == LabelsInit /\ now = 0 /\ [][LabelsStep]_<<now, labelVars>>

-----------------------------------------------------------------------------

\* The events of one key that do not say the same.
Reissued(src, uri, val) ==
    \E e \in given, f \in given :
        /\ e # f /\ e.src = src /\ e.uri = uri /\ e.val = val /\ SameKey(e, f)

\* Whatever the order and the number of times that assertions and negations arrive
\* in, a subject carries a labeler's value exactly when an assertion that has not
\* expired is newer than every negation, unless an event of that key was issued again
\* with another time: the first is kept (Insert, InsertNegation, GetByURIs).
LabelView ==
    \A e \in given : ~Reissued(e.src, e.uri, e.val) =>
        LET Same(f) == f.src = e.src /\ f.uri = e.uri /\ f.val = e.val IN
        (\E l \in GetByURIs({e.uri}) : Same(l))
            <=> \E f \in given : /\ Same(f) /\ ~f.neg /\ f.exp > now
                                 /\ \A n \in given : Same(n) /\ n.neg => n.cts < f.cts

\* A report marked as resolved has the label that its resolver chose, whatever
\* failed or crashed between the two statements and whoever else resolved it; the
\* label shows, unless it had been negated or had been created with an expiry
\* before (ResolveReport: Labels.Insert keeps the older row).
ResolvedApplied ==
    \A i \in DOMAIN reports : reports[i].status = "resolved" =>
        \E l \in labels :
            /\ l.src = DomainDID /\ l.uri = reports[i].uri /\ l.val = reports[i].val /\ ~l.neg
            /\ \/ Active(l) \/ l.exp # Never
               \/ \E n \in labels : n.neg /\ n.src = l.src /\ n.uri = l.uri /\ n.val = l.val

\* A list read page by page has every row that was there at the start exactly once,
\* whatever is inserted meanwhile.
ListExact ==
    listing.step \in {"reading", "read"} =>
        /\ \A i, j \in DOMAIN listing.seen : i < j => listing.seen[i] \cap listing.seen[j] = {}
        /\ listing.step = "read" => listing.start \subseteq UNION {listing.seen[i] : i \in DOMAIN listing.seen}
=============================================================================
