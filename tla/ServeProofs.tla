---------------------------- MODULE ServeProofs ------------------------------
(***************************************************************************)
(* What the serving side promises, for any records, queries, labelers,     *)
(* administrators and clock: LabelView and ResolvedApplied of the labels,  *)
(* PagingExact of the lists and of the record connections, and that the    *)
(* whole keeps what its components keep by themselves.  The where filter   *)
(* is a parameter: FilterAssumption says that its SQL selects what the     *)
(* input asks for.                                                         *)
(***************************************************************************)
EXTENDS Serve, AdminProofs

-----------------------------------------------------------------------------
(* Labels and reports.  Both properties speak of what was given and what   *)
(* is stored; the invariant says how the table stands for the history, and *)
(* what a ResolveReport call has done that is between its statements.      *)

\* A row says what an event said.
SaysAs(l, e) ==
    /\ l.src = e.src /\ l.uri = e.uri /\ l.cid = e.cid /\ l.val = e.val
    /\ l.neg = e.neg /\ l.cts = e.cts /\ l.exp = e.exp

\* The fields of an event.
Event(src, uri, cid, val, neg, cts, exp) ==
    [src |-> src, uri |-> uri, cid |-> cid, val |-> val, neg |-> neg, cts |-> cts, exp |-> exp]
Typed(e) ==
    /\ e = Event(e.src, e.uri, e.cid, e.val, e.neg, e.cts, e.exp)
    /\ e.neg \in BOOLEAN /\ e.cts \in Int /\ e.exp \in Int

\* The table stands for the history: a row for every key that was given, and in it
\* an event that was.
TableStands ==
    /\ \A e \in given : Typed(e) /\ \E l \in labels : SameKey(l, e)
    /\ \A l \in labels : \E e \in given : SaysAs(l, e)

\* The label that resolving a report asks for is there.
Labelled(table, uri, val) ==
    \E l \in table : l.src = DomainDID /\ l.uri = uri /\ l.val = val /\ ~l.neg

\* The ResolveReport calls there are.
ResolveCalls ==
    [step : {"label"}, id : DOMAIN reports, status : {"resolved"}, val : Vals]
        \cup [step : {"mark"}, id : DOMAIN reports, status : {"resolved", "dismissed"}, val : Vals]

Report == [id : Nat, reporter : Reporters, uri : Subjects, status : {"pending", "resolved", "dismissed"},
           by : Admins \cup {NoCID}, val : Vals \cup {NoCID}]

\* A report is marked, and a call is about to mark it, with a label that is there.
CallsKept ==
    /\ reports \in Seq(Report)
    /\ resolving \in [Admins -> ResolveCalls \cup {Idle}]
    /\ \A i \in DOMAIN reports : reports[i].status = "resolved" => Labelled(labels, reports[i].uri, reports[i].val)
    /\ \A a \in Admins : resolving[a].step = "mark" /\ resolving[a].status = "resolved" =>
           Labelled(labels, reports[resolving[a].id].uri, resolving[a].val)

Clock == now \in 0 .. MaxTime

LabelsInv == Clock /\ TableStands /\ CallsKept

-----------------------------------------------------------------------------

\* What an insertion leaves: the rows there were, and one of the key.
LEMMA RowInserted ==
    ASSUME TableStands, NEW e, Typed(e), InsertRow(e)
    PROVE  /\ TableStands'
           /\ labels \subseteq labels'
           /\ \E l \in labels' : SameKey(l, e)
<1> DEFINE row == [id |-> NextId, src |-> e.src, uri |-> e.uri, cid |-> e.cid, val |-> e.val,
                   neg |-> e.neg, cts |-> e.cts, exp |-> e.exp]
<1>1. SaysAs(row, e) /\ SameKey(row, e)
  BY DEF SaysAs, SameKey
<1> HIDE DEF row
<1>2. CASE \E l \in labels : SameKey(l, e)
  <2>1. labels' = labels /\ given' = given \cup {e}
    BY <1>2 DEF InsertRow
  <2> QED
    BY <2>1, <1>2 DEF TableStands
<1>3. CASE ~\E l \in labels : SameKey(l, e)
  <2>1. labels' = labels \cup {row} /\ given' = given \cup {e}
    BY <1>3 DEF InsertRow, row
  <2> QED
    BY <2>1, <1>1 DEF TableStands
<1> QED
  BY <1>2, <1>3

LEMMA AssertionInserted ==
    ASSUME TableStands, NEW src, NEW uri, NEW cid, NEW val, NEW cts \in Int, NEW exp \in Int,
           Insert(src, uri, cid, val, cts, exp)
    PROVE  /\ TableStands' /\ labels \subseteq labels'
           /\ \E l \in labels' : l.src = src /\ l.uri = uri /\ l.val = val /\ ~l.neg
<1> DEFINE e == [src |-> src, uri |-> uri, cid |-> cid, val |-> val, neg |-> FALSE, cts |-> cts, exp |-> exp]
<1>1. Typed(e)
  BY DEF Typed, Event
<1>2. e.src = src /\ e.uri = uri /\ e.val = val /\ e.neg = FALSE
  OBVIOUS
<1>3. InsertRow(e)
  BY DEF Insert
<1> HIDE DEF e
<1>4. TableStands' /\ labels \subseteq labels' /\ \E l \in labels' : SameKey(l, e)
  BY <1>1, <1>3, RowInserted
<1> QED
  BY <1>4, <1>2 DEF SameKey

LEMMA NegationInserted ==
    ASSUME TableStands, NEW src, NEW uri, NEW val, NEW cts \in Int, InsertNegation(src, uri, val, cts)
    PROVE  TableStands' /\ labels \subseteq labels'
<1> DEFINE e == [src |-> src, uri |-> uri, cid |-> NoCID, val |-> val, neg |-> TRUE, cts |-> cts, exp |-> Never]
<1>1. Typed(e)
  BY LabelsAssumption DEF Typed, Event
<1>2. InsertRow(e)
  BY DEF InsertNegation
<1> HIDE DEF e
<1> QED
  BY <1>1, <1>2, RowInserted

\* Rows are never lost, so that what is labelled stays labelled.
LEMMA Grown ==
    ASSUME CallsKept, labels \subseteq labels', UNCHANGED <<reports, resolving>>
    PROVE  CallsKept'
BY DEF CallsKept, Labelled, ResolveCalls

-----------------------------------------------------------------------------

LEMMA LabelsInitInv == LabelsInit /\ now = 0 => LabelsInv
<1> SUFFICES ASSUME LabelsInit, now = 0 PROVE LabelsInv
  OBVIOUS
<1>1. Clock
  BY LabelsAssumption DEF Clock
<1>2. TableStands
  BY DEF LabelsInit, TableStands
<1>3. CallsKept
  BY DEF LabelsInit, CallsKept, Idle
<1> QED
  BY <1>1, <1>2, <1>3 DEF LabelsInv

LEMMA DeliverInv ==
    ASSUME LabelsInv, NEW e \in LabelEvents, Deliver(e)
    PROVE  TableStands' /\ CallsKept'
<1>1. e.cts \in Int /\ e.exp \in Int
  BY LabelsAssumption
<1>2. UNCHANGED <<reports, resolving>>
  BY DEF Deliver
<1>3. CASE UNCHANGED <<labels, given>>
  BY <1>2, <1>3, Grown DEF LabelsInv, TableStands
<1>4. CASE InsertNegation(e.src, e.uri, e.val, e.cts)
  BY <1>1, <1>2, <1>4, NegationInserted, Grown DEF LabelsInv
<1>5. CASE Insert(e.src, e.uri, e.cid, e.val, e.cts, e.exp)
  BY <1>1, <1>2, <1>5, AssertionInserted, Grown DEF LabelsInv
<1> QED
  BY <1>3, <1>4, <1>5 DEF Deliver

LEMMA ModerateInv ==
    ASSUME LabelsInv, NEW u \in Subjects, NEW v \in Vals,
           NegateLabel(u, v) \/ \E x \in Expiries : CreateLabel(u, v, x)
    PROVE  TableStands' /\ CallsKept'
<1>1. now \in Int /\ Expiries \subseteq Int
  BY LabelsAssumption DEF LabelsInv, Clock
<1>2. CASE NegateLabel(u, v)
  BY <1>1, <1>2, NegationInserted, Grown DEF LabelsInv, NegateLabel
<1>3. ASSUME NEW x \in Expiries, CreateLabel(u, v, x) PROVE TableStands' /\ CallsKept'
  BY <1>1, <1>3, AssertionInserted, Grown DEF LabelsInv, CreateLabel
<1> QED
  BY <1>2, <1>3

LEMMA InsertReportInv ==
    ASSUME LabelsInv, NEW r \in Reporters, NEW u \in Subjects, InsertReport(r, u)
    PROVE  TableStands' /\ CallsKept'
<1> DEFINE row == [id |-> Len(reports) + 1, reporter |-> r, uri |-> u,
                   status |-> "pending", by |-> NoCID, val |-> NoCID]
<1>1. reports \in Seq(Report) /\ Len(reports) \in Nat
  BY DEF LabelsInv, CallsKept
<1>2. row \in Report /\ row.status = "pending"
  BY <1>1 DEF Report
<1>3. reports' = Append(reports, row) /\ UNCHANGED <<labels, given, resolving>>
  BY DEF InsertReport
<1> HIDE DEF row
<1>4. /\ reports' \in Seq(Report) /\ DOMAIN reports \subseteq DOMAIN reports'
      /\ \A i \in DOMAIN reports' : reports'[i] = row \/ (i \in DOMAIN reports /\ reports'[i] = reports[i])
      /\ \A i \in DOMAIN reports : reports'[i] = reports[i]
  BY <1>1, <1>2, <1>3
<1>5. resolving' \in [Admins -> ResolveCalls' \cup {Idle}]
  BY <1>3, <1>4 DEF LabelsInv, CallsKept, ResolveCalls
<1>6. \A i \in DOMAIN reports' :
          reports'[i].status = "resolved" => Labelled(labels', reports'[i].uri, reports'[i].val)
  BY <1>2, <1>3, <1>4 DEF LabelsInv, CallsKept, Labelled
<1>7. \A a \in Admins : resolving'[a].step = "mark" /\ resolving'[a].status = "resolved" =>
          Labelled(labels', reports'[resolving'[a].id].uri, resolving'[a].val)
  BY <1>3, <1>4 DEF LabelsInv, CallsKept, Labelled, ResolveCalls, Idle
<1> QED
  BY <1>3, <1>4, <1>5, <1>6, <1>7 DEF LabelsInv, CallsKept, TableStands

LEMMA ResolveReportInv ==
    ASSUME LabelsInv, NEW a \in Admins, ResolveReport(a)
    PROVE  TableStands' /\ CallsKept'
<1>t. now \in Int /\ Never \in Int
  BY LabelsAssumption DEF LabelsInv, Clock
<1>1. ASSUME NEW i \in DOMAIN reports, NEW action \in {"apply_label", "dismiss"}, NEW val \in Vals,
             BeginResolve(a, i, action, val)
      PROVE  TableStands' /\ CallsKept'
  BY <1>1 DEF LabelsInv, CallsKept, TableStands, Labelled, ResolveCalls, BeginResolve, Idle
<1>2. CASE ApplyLabel(a)
  <2>1. CASE /\ Insert(DomainDID, reports[resolving[a].id].uri, NoCID, resolving[a].val, now, Never)
             /\ resolving' = [resolving EXCEPT ![a].step = "mark"]
    <3>1. /\ TableStands' /\ labels \subseteq labels'
          /\ Labelled(labels', reports[resolving[a].id].uri, resolving[a].val)
      BY <1>t, <2>1, AssertionInserted DEF LabelsInv, Labelled
    <3>2. reports' = reports /\ resolving[a].step = "label" /\ resolving[a] \in ResolveCalls
      BY <1>2 DEF ApplyLabel, LabelsInv, CallsKept, Idle
    <3>3. resolving' \in [Admins -> ResolveCalls' \cup {Idle}]
      BY <2>1, <3>2 DEF LabelsInv, CallsKept, ResolveCalls
    <3>4. \A u, v : Labelled(labels, u, v) => Labelled(labels', u, v)
      BY <3>1 DEF Labelled
    <3>5. \A b \in Admins : resolving'[b].step = "mark" /\ resolving'[b].status = "resolved" =>
              Labelled(labels', reports'[resolving'[b].id].uri, resolving'[b].val)
      <4> SUFFICES ASSUME NEW b \in Admins, resolving'[b].step = "mark", resolving'[b].status = "resolved"
                   PROVE  Labelled(labels', reports'[resolving'[b].id].uri, resolving'[b].val)
        OBVIOUS
      <4>1. CASE b = a
        <5>1. resolving'[b].id = resolving[a].id /\ resolving'[b].val = resolving[a].val
          BY <2>1, <3>2, <4>1 DEF LabelsInv, CallsKept, ResolveCalls
        <5> QED
          BY <5>1, <3>1, <3>2, Zenon
      <4>2. CASE b # a
        BY <2>1, <3>2, <3>4, <4>2 DEF LabelsInv, CallsKept
      <4> QED
        BY <4>1, <4>2
    <3> QED
      BY <3>1, <3>2, <3>3, <3>4, <3>5 DEF LabelsInv, CallsKept
  <2>2. CASE resolving' = [resolving EXCEPT ![a] = Idle] /\ UNCHANGED <<labels, given, reports>>
    BY <2>2 DEF LabelsInv, CallsKept, TableStands, Labelled, ResolveCalls, Idle
  <2> QED
    BY <1>2, <2>1, <2>2 DEF ApplyLabel
<1>3. CASE Resolve(a)
  <2>1. UNCHANGED <<labels, given>> /\ resolving' = [resolving EXCEPT ![a] = Idle] /\ TableStands'
    BY <1>3 DEF Resolve, LabelsInv, TableStands
  <2>2. CASE UNCHANGED reports
    BY <2>1, <2>2 DEF LabelsInv, CallsKept, Labelled, ResolveCalls, Idle
  <2>3. CASE reports' = [reports EXCEPT ![resolving[a].id].status = resolving[a].status,
                                        ![resolving[a].id].by = a, ![resolving[a].id].val = resolving[a].val]
    <3>1. resolving[a] \in ResolveCalls /\ resolving[a].step = "mark"
      BY <1>3 DEF Resolve, LabelsInv, CallsKept, Idle
    <3> DEFINE k == resolving[a].id
               new == [reports[k] EXCEPT !.status = resolving[a].status, !.by = a, !.val = resolving[a].val]
    <3>2. /\ k \in DOMAIN reports /\ resolving[a].status \in {"resolved", "dismissed"}
          /\ resolving[a].val \in Vals
      BY <3>1 DEF ResolveCalls
    <3>3. reports[k] \in Report /\ reports \in Seq(Report)
      BY <3>2 DEF LabelsInv, CallsKept
    <3>4. /\ new \in Report /\ new.uri = reports[k].uri
          /\ new.status = resolving[a].status /\ new.val = resolving[a].val
      BY <3>2, <3>3 DEF Report
    <3>5. reports' = [reports EXCEPT ![k] = new]
      BY <2>3, <3>2, <3>3 DEF Report
    <3> HIDE DEF k, new
    <3>6. reports' \in Seq(Report) /\ DOMAIN reports' = DOMAIN reports /\ reports'[k] = new
          /\ \A i \in DOMAIN reports : i # k => reports'[i] = reports[i]
      BY <3>2, <3>3, <3>4, <3>5
    <3>7. \A i \in DOMAIN reports : reports'[i].uri = reports[i].uri
      BY <3>4, <3>6
    <3>8. new.status = "resolved" => Labelled(labels, new.uri, new.val)
      BY <3>1, <3>4 DEF LabelsInv, CallsKept, k
    <3>9. \A u, v : Labelled(labels, u, v) => Labelled(labels', u, v)
      BY <2>1 DEF Labelled
    <3>10. \A i \in DOMAIN reports' :
          reports'[i].status = "resolved" => Labelled(labels', reports'[i].uri, reports'[i].val)
      BY <3>6, <3>8, <3>9 DEF LabelsInv, CallsKept
    <3>11. resolving' \in [Admins -> ResolveCalls' \cup {Idle}]
      BY <2>1, <3>6 DEF LabelsInv, CallsKept, ResolveCalls
    <3>12. \A b \in Admins : resolving'[b].step = "mark" /\ resolving'[b].status = "resolved" =>
              Labelled(labels', reports'[resolving'[b].id].uri, resolving'[b].val)
      <4> SUFFICES ASSUME NEW b \in Admins, resolving'[b].step = "mark", resolving'[b].status = "resolved"
                   PROVE  Labelled(labels', reports'[resolving'[b].id].uri, resolving'[b].val)
        OBVIOUS
      <4>1. b # a /\ resolving'[b] = resolving[b]
        BY <2>1 DEF LabelsInv, CallsKept, Idle
      <4>2. resolving[b].id \in DOMAIN reports
        BY <4>1 DEF LabelsInv, CallsKept, ResolveCalls, Idle
      <4> QED
        BY <4>1, <4>2, <3>7, <3>9 DEF LabelsInv, CallsKept
    <3> QED
      BY <2>1, <3>6, <3>10, <3>11, <3>12 DEF CallsKept
  <2> QED
    BY <1>3, <2>2, <2>3 DEF Resolve
<1> QED
  BY <1>1, <1>2, <1>3 DEF ResolveReport

LEMMA LabelsStepInv ==
    ASSUME LabelsInv, [LabelsStep]_<<now, labelVars>>
    PROVE  LabelsInv'
<1>1. Clock'
  BY LabelsAssumption DEF LabelsInv, Clock, LabelsStep
<1>2. ASSUME UNCHANGED <<labels, given, reports, resolving>> PROVE TableStands' /\ CallsKept'
  BY <1>2 DEF LabelsInv, TableStands, CallsKept, Labelled, ResolveCalls
<1>3. CASE LabelsNext
  BY <1>2, <1>3, DeliverInv, ModerateInv, InsertReportInv, ResolveReportInv, <1>1
     DEF LabelsNext, CreateLabelDefinition, StartList, ListPage, LabelsInv
<1>4. CASE LabelsCrash
  BY <1>1, <1>4 DEF LabelsCrash, LabelsInv, TableStands, CallsKept, Labelled, ResolveCalls, Idle
<1>5. CASE UNCHANGED labelVars
  BY <1>1, <1>2, <1>5 DEF labelVars, LabelsInv
<1> QED
  BY <1>3, <1>4, <1>5 DEF LabelsStep, labelVars

-----------------------------------------------------------------------------

LEMMA ViewHolds == LabelsInv => LabelView
<1> SUFFICES ASSUME LabelsInv, NEW e \in given, ~Reissued(e.src, e.uri, e.val)
             PROVE  LET Same(f) == f.src = e.src /\ f.uri = e.uri /\ f.val = e.val IN
                    (\E l \in GetByURIs({e.uri}) : Same(l))
                        <=> \E f \in given : /\ Same(f) /\ ~f.neg /\ f.exp > now
                                             /\ \A n \in given : Same(n) /\ n.neg => n.cts < f.cts
  BY DEF LabelView
<1> DEFINE Same(f) == f.src = e.src /\ f.uri = e.uri /\ f.val = e.val
\* An event of the subject and value is a row, word for word.
<1>1. ASSUME NEW f \in given, Same(f) PROVE \E l \in labels : SaysAs(l, f)
  <2>1. PICK l \in labels : SameKey(l, f)
    BY DEF LabelsInv, TableStands
  <2>2. PICK g \in given : SaysAs(l, g)
    BY DEF LabelsInv, TableStands
  <2>3. SameKey(g, f)
    BY <2>1, <2>2 DEF SameKey, SaysAs
  <2>4. g = f
    BY <1>1, <2>3 DEF Reissued, SameKey
  <2> QED
    BY <2>2, <2>4
<1>2. ASSUME NEW l \in labels PROVE \E f \in given : SaysAs(l, f)
  BY DEF LabelsInv, TableStands
<1>3. \A f \in given : f.cts \in Int /\ f.exp \in Int
  BY DEF LabelsInv, TableStands, Typed
<1>4. ASSUME NEW l \in GetByURIs({e.uri}), Same(l)
      PROVE  \E f \in given : /\ Same(f) /\ ~f.neg /\ f.exp > now
                              /\ \A n \in given : Same(n) /\ n.neg => n.cts < f.cts
  <2>1. l \in labels /\ Active(l)
    BY DEF GetByURIs
  <2>2. PICK f \in given : SaysAs(l, f)
    BY <1>2, <2>1
  <2>3. Same(f) /\ ~f.neg /\ f.exp > now
    BY <1>4, <2>1, <2>2 DEF SaysAs, Active
  <2>4. ASSUME NEW n \in given, Same(n), n.neg PROVE n.cts < f.cts
    <3>1. PICK m \in labels : SaysAs(m, n)
      BY <1>1, <2>4
    <3>2. ~(m.cts >= l.cts)
      BY <1>4, <2>1, <2>4, <3>1 DEF Active, SaysAs
    <3> QED
      BY <1>3, <2>2, <3>1, <3>2 DEF SaysAs
  <2> QED
    BY <2>3, <2>4
<1>5. ASSUME NEW f \in given, Same(f), ~f.neg, f.exp > now,
             \A n \in given : Same(n) /\ n.neg => n.cts < f.cts
      PROVE  \E l \in GetByURIs({e.uri}) : Same(l)
  <2>1. PICK l \in labels : SaysAs(l, f)
    BY <1>1, <1>5
  <2>2. ASSUME NEW m \in labels, m.neg, m.src = l.src, m.uri = l.uri, m.val = l.val, m.cts >= l.cts
        PROVE  FALSE
    <3>1. PICK n \in given : SaysAs(m, n)
      BY <1>2
    <3>2. n.cts < f.cts
      BY <1>5, <2>1, <2>2, <3>1 DEF SaysAs
    <3> QED
      BY <1>3, <2>1, <2>2, <3>1, <3>2 DEF SaysAs
  <2>3. Active(l)
    BY <1>5, <2>1, <2>2 DEF Active, SaysAs
  <2> QED
    BY <1>5, <2>1, <2>3 DEF GetByURIs, SaysAs
<1> QED
  BY <1>4, <1>5

LEMMA ResolvedHolds == LabelsInv => ResolvedApplied
<1> SUFFICES ASSUME LabelsInv, NEW i \in DOMAIN reports, reports[i].status = "resolved"
             PROVE  \E l \in labels :
                        /\ l.src = DomainDID /\ l.uri = reports[i].uri /\ l.val = reports[i].val /\ ~l.neg
                        /\ \/ Active(l) \/ l.exp # Never
                           \/ \E n \in labels : n.neg /\ n.src = l.src /\ n.uri = l.uri /\ n.val = l.val
  BY DEF ResolvedApplied
<1>1. PICK l \in labels : l.src = DomainDID /\ l.uri = reports[i].uri /\ l.val = reports[i].val /\ ~l.neg
  BY DEF LabelsInv, CallsKept, Labelled
<1>2. Never > now
  BY LabelsAssumption DEF LabelsInv, Clock
<1> QED
  BY <1>1, <1>2 DEF Active

\* Whatever the order and the number of times that labelers' events and the
\* administrators' assertions and negations arrive in, a subject carries a value
\* exactly when an assertion is newer than every negation (labels.go: Insert,
\* InsertNegation, GetByURIs), for any set of labelers, subjects and values.
THEOREM ViewCorrect == LabelsSpec => []LabelView
<1>1. LabelsInit /\ now = 0 => LabelsInv
  BY LabelsInitInv
<1>2. LabelsInv /\ [LabelsStep]_<<now, labelVars>> => LabelsInv'
  BY LabelsStepInv
<1>3. LabelsInv => LabelView
  BY ViewHolds
<1> QED
  BY <1>1, <1>2, <1>3, PTL DEF LabelsSpec

\* A resolved report has the label that its resolver chose, whichever statement
\* failed, whoever else resolved it and wherever the process died (admin/
\* resolvers_labels.go: ResolveReport), for any number of administrators.
THEOREM ResolvedCorrect == LabelsSpec => []ResolvedApplied
<1>1. LabelsInit /\ now = 0 => LabelsInv
  BY LabelsInitInv
<1>2. LabelsInv /\ [LabelsStep]_<<now, labelVars>> => LabelsInv'
  BY LabelsStepInv
<1>3. LabelsInv => ResolvedApplied
  BY ResolvedHolds
<1> QED
  BY <1>1, <1>2, <1>3, PTL DEF LabelsSpec

-----------------------------------------------------------------------------
(* The paginated lists.                                                    *)

IdsOf(list) == {r.id : r \in Rows(list)}

\* The ids of rows: positive, the greatest known, a report's its place in the table.
IdsKept ==
    /\ IsFiniteSet(labels) /\ \A l \in labels : l.id \in Nat \ {0}
    /\ \E n \in {0} \cup {l.id : l \in labels} : \A l \in labels : l.id <= n
    /\ \A i \in DOMAIN reports : reports[i].id = i

Seen == UNION {listing.seen[i] : i \in DOMAIN listing.seen}
Listings == [step : {"reading", "read"}, list : {"labels", "reports"}, first : Nat, after : Nat,
             start : SUBSET Nat, seen : Seq(SUBSET Nat)]

\* The pages hold nothing before the cursor, and every row of the start from there on.
ListKept ==
    /\ listing \in Listings
    /\ listing.start \subseteq IdsOf(listing.list)
    /\ \A i, j \in DOMAIN listing.seen : i < j => listing.seen[i] \cap listing.seen[j] = {}
    /\ listing.step = "reading" =>
        /\ \A i \in DOMAIN listing.seen : \A x \in listing.seen[i] : listing.after # NoCursor /\ x >= listing.after
        /\ listing.after # NoCursor => \A x \in listing.start : x >= listing.after => x \in Seen
    /\ listing.step = "read" => listing.start \subseteq Seen

ListInv == IdsKept /\ (listing = Idle \/ ListKept)

\* One page of a list.
LEMMA PaginatedPage ==
    ASSUME NEW rows, IsFiniteSet(rows), \A r \in rows : r.id \in Nat, NEW first \in Nat, NEW after \in Nat,
           NEW p, p = GetPaginated(rows, first, after)
    PROVE  /\ p.rows \subseteq rows /\ \A r \in p.rows : after = NoCursor \/ r.id < after
           /\ \A r \in p.rows, s \in rows : s.id >= r.id /\ (after = NoCursor \/ s.id < after) => s \in p.rows
           /\ ~p.hasNext => \A s \in rows : after = NoCursor \/ s.id < after => s \in p.rows
<1> DEFINE eligible == {r \in rows : after = NoCursor \/ r.id < after}
           Above(r) == {s \in eligible : s.id > r.id}
<1>1. /\ p.rows = {r \in eligible : Cardinality(Above(r)) < first}
      /\ p.hasNext <=> Cardinality(eligible) > first
  BY DEF GetPaginated
<1>2. IsFiniteSet(eligible) /\ Cardinality(eligible) \in Nat
  BY FS_Subset, FS_CardinalityType
<1>3. \A r \in eligible : r \in rows /\ r.id \in Nat /\ (after = NoCursor \/ r.id < after)
  OBVIOUS
<1>4. \A s \in rows : after = NoCursor \/ s.id < after => s \in eligible
  OBVIOUS
<1> HIDE DEF eligible
<1>5. \A r : Above(r) \in SUBSET eligible /\ IsFiniteSet(Above(r)) /\ Cardinality(Above(r)) \in Nat
  BY <1>2, FS_Subset, FS_CardinalityType
<1>6. ASSUME NEW r \in p.rows, NEW s \in rows, s.id >= r.id, after = NoCursor \/ s.id < after
      PROVE  s \in p.rows
  <2>1. s \in eligible /\ r \in eligible /\ Cardinality(Above(r)) < first
    BY <1>1, <1>4, <1>6
  <2>2. Above(s) \in SUBSET Above(r)
    BY <1>3, <1>6, <2>1
  <2>3. Cardinality(Above(s)) <= Cardinality(Above(r))
    BY <1>5, <2>2, FS_Subset
  <2>4. Cardinality(Above(s)) < first
    <3> HIDE DEF Above
    <3> QED
      BY <1>5, <2>1, <2>3
  <2> QED
    BY <1>1, <2>1, <2>4
<1>7. ASSUME ~p.hasNext, NEW s \in rows, after = NoCursor \/ s.id < after
      PROVE  s \in p.rows
  <2>1. s \in eligible /\ ~(Cardinality(eligible) > first)
    BY <1>1, <1>4, <1>7
  <2>2. s \notin Above(s)
    BY <1>3, <2>1
  <2>3. Cardinality(Above(s)) <= Cardinality(eligible) /\ Cardinality(Above(s)) # Cardinality(eligible)
    BY <1>2, <1>5, <2>1, <2>2, FS_Subset
  <2>4. Cardinality(Above(s)) < first
    <3> HIDE DEF Above
    <3> QED
      BY <1>2, <1>5, <2>1, <2>3
  <2> QED
    BY <1>1, <2>1, <2>4
<1> QED
  BY <1>1, <1>3, <1>6, <1>7

LEMMA RowsSound ==
    ASSUME IdsKept, CallsKept, NEW list \in {"labels", "reports"}
    PROVE  IsFiniteSet(Rows(list)) /\ (\A r \in Rows(list) : r.id \in Nat \ {0}) /\ IdsOf(list) \subseteq Nat
<1>1. CASE list = "labels"
  BY <1>1 DEF Rows, IdsOf, IdsKept
<1>2. CASE list = "reports"
  <2>1. reports \in Seq(Report) /\ Len(reports) \in Nat /\ DOMAIN reports = 1 .. Len(reports)
    BY DEF CallsKept
  <2>2. Rows(list) = {reports[i] : i \in DOMAIN reports}
    BY <1>2 DEF Rows
  <2>3. IsFiniteSet(DOMAIN reports)
    BY <2>1, FS_Interval
  <2>4. reports \in Surjection(DOMAIN reports, Rows(list))
    BY <2>1, <2>2 DEF Surjection
  <2>5. IsFiniteSet(Rows(list))
    BY <2>3, <2>4, FS_Surjection
  <2>6. \A r \in Rows(list) : r.id \in Nat \ {0}
    BY <2>1, <2>2 DEF IdsKept
  <2> QED
    BY <2>5, <2>6 DEF IdsOf
<1> QED
  BY <1>1, <1>2

\* An insertion gives the row an id of its own.
LEMMA IdInserted ==
    ASSUME IdsKept, NEW e, InsertRow(e), UNCHANGED reports
    PROVE  IdsKept' /\ labels \subseteq labels'
<1> DEFINE row == [id |-> NextId, src |-> e.src, uri |-> e.uri, cid |-> e.cid, val |-> e.val,
                   neg |-> e.neg, cts |-> e.cts, exp |-> e.exp]
           ids == {0} \cup {l.id : l \in labels}
<1>1. PICK n \in ids : \A x \in ids : x <= n
  BY DEF IdsKept
<1>2. ids \subseteq Nat
  BY DEF IdsKept
<1>3. Max(ids) \in ids /\ \A x \in ids : Max(ids) >= x
  <2> HIDE DEF ids
  <2>1. n \in ids /\ \A x \in ids : n >= x
    BY <1>1, <1>2
  <2> QED
    BY <2>1, Zenon DEF Max
<1>4. NextId = 1 + Max(ids)
  BY DEF NextId
<1>5. NextId \in Nat \ {0} /\ \A l \in labels : l.id <= NextId
  <2>1. \A l \in labels : l.id \in ids
    OBVIOUS
  <2> DEFINE top == Max(ids)
  <2>2. top \in Nat /\ (\A x \in ids : top >= x) /\ NextId = 1 + top
    BY <1>2, <1>3, <1>4
  <2> HIDE DEF ids, top
  <2>3. \A l \in labels : l.id \in Nat /\ top >= l.id
    BY <1>2, <2>1, <2>2
  <2> QED
    BY <2>2, <2>3
<1>6. row.id = NextId
  OBVIOUS
<1>7. labels' = labels \/ labels' = labels \cup {row}
  BY DEF InsertRow
<1> HIDE DEF row, ids
<1>8. CASE labels' = labels
  BY <1>8 DEF IdsKept
<1>9. CASE labels' = labels \cup {row}
  <2>1. IsFiniteSet(labels')
    BY <1>9, FS_AddElement DEF IdsKept
  <2>2. \A l \in labels' : l.id \in Nat \ {0} /\ l.id <= row.id
    BY <1>5, <1>6, <1>9 DEF IdsKept
  <2> QED
    BY <1>9, <2>1, <2>2 DEF IdsKept
<1> QED
  BY <1>7, <1>8, <1>9

\* No row is lost, whatever the lists and reports are changed by.
LEMMA RowsGrow ==
    ASSUME LabelsInv, LabelsInv', IdsKept, LabelsNext
    PROVE  IdsKept' /\ \A list \in {"labels", "reports"} : IdsOf(list) \subseteq IdsOf(list)'
<1>1. reports \in Seq(Report) /\ reports' \in Seq(Report)
  BY DEF LabelsInv, CallsKept
<1>2. ASSUME IdsKept', labels \subseteq labels', DOMAIN reports \subseteq DOMAIN reports'
      PROVE  IdsKept' /\ \A list \in {"labels", "reports"} : IdsOf(list) \subseteq IdsOf(list)'
  BY <1>2 DEF IdsOf, Rows, IdsKept
<1>3. ASSUME NEW e, InsertRow(e), UNCHANGED reports
      PROVE  IdsKept' /\ \A list \in {"labels", "reports"} : IdsOf(list) \subseteq IdsOf(list)'
  BY <1>2, <1>3, IdInserted
<1>4. ASSUME UNCHANGED <<labels, reports>>
      PROVE  IdsKept' /\ \A list \in {"labels", "reports"} : IdsOf(list) \subseteq IdsOf(list)'
  BY <1>2, <1>4 DEF IdsKept
<1>5. ASSUME NEW r \in Reporters, NEW u \in Subjects, InsertReport(r, u)
      PROVE  IdsKept' /\ \A list \in {"labels", "reports"} : IdsOf(list) \subseteq IdsOf(list)'
  <2> DEFINE row == [id |-> Len(reports) + 1, reporter |-> r, uri |-> u,
                     status |-> "pending", by |-> NoCID, val |-> NoCID]
  <2>1. reports' = Append(reports, row) /\ labels' = labels
    BY <1>5 DEF InsertReport
  <2>2. row.id = Len(reports) + 1
    OBVIOUS
  <2> HIDE DEF row
  <2>3. /\ DOMAIN reports \subseteq DOMAIN reports'
        /\ \A i \in DOMAIN reports' : (i = Len(reports) + 1 /\ reports'[i] = row) \/ (i \in DOMAIN reports /\ reports'[i] = reports[i])
    BY <1>1, <2>1
  <2>4. IdsKept'
    BY <2>1, <2>2, <2>3 DEF IdsKept
  <2> QED
    BY <1>2, <2>1, <2>3, <2>4
<1>6. ASSUME NEW a \in Admins, Resolve(a)
      PROVE  IdsKept' /\ \A list \in {"labels", "reports"} : IdsOf(list) \subseteq IdsOf(list)'
  <2>1. CASE UNCHANGED reports
    BY <1>4, <1>6, <2>1 DEF Resolve
  <2>2. CASE reports' = [reports EXCEPT ![resolving[a].id].status = resolving[a].status,
                                        ![resolving[a].id].by = a, ![resolving[a].id].val = resolving[a].val]
    <3>1. resolving[a] \in ResolveCalls /\ resolving[a].id \in DOMAIN reports
      BY <1>6 DEF Resolve, LabelsInv, CallsKept, Idle, ResolveCalls
    <3>2. DOMAIN reports' = DOMAIN reports /\ labels' = labels
      BY <1>6, <2>2 DEF Resolve
    <3>3. \A i \in DOMAIN reports : reports'[i].id = reports[i].id
      BY <1>1, <2>2, <3>1 DEF Report
    <3>4. IdsKept'
      BY <3>2, <3>3 DEF IdsKept
    <3> QED
      BY <1>2, <3>2, <3>4
  <2> QED
    BY <1>6, <2>1, <2>2 DEF Resolve
<1>7. ASSUME NEW e \in LabelEvents, Deliver(e)
      PROVE  IdsKept' /\ \A list \in {"labels", "reports"} : IdsOf(list) \subseteq IdsOf(list)'
  BY <1>3, <1>4, <1>7 DEF Deliver, Insert, InsertNegation
<1>8. ASSUME NEW u \in Subjects, NEW v \in Vals, NegateLabel(u, v) \/ \E x \in Expiries : CreateLabel(u, v, x)
      PROVE  IdsKept' /\ \A list \in {"labels", "reports"} : IdsOf(list) \subseteq IdsOf(list)'
  BY <1>3, <1>8 DEF NegateLabel, CreateLabel, Insert, InsertNegation
<1>9. ASSUME NEW a \in Admins, ResolveReport(a)
      PROVE  IdsKept' /\ \A list \in {"labels", "reports"} : IdsOf(list) \subseteq IdsOf(list)'
  <2>1. CASE ApplyLabel(a)
    BY <1>3, <1>4, <2>1 DEF ApplyLabel, Insert
  <2> QED
    BY <1>4, <1>6, <1>9, <2>1 DEF ResolveReport, BeginResolve
<1> QED
  BY <1>4, <1>5, <1>7, <1>8, <1>9 DEF LabelsNext, CreateLabelDefinition, StartList, ListPage

LEMMA StartListKeeps ==
    ASSUME LabelsInv, ListInv, NEW list \in {"labels", "reports"}, NEW n \in 0 .. 2, StartList(list, n)
    PROVE  ListKept'
<1>1. listing' = [step |-> "reading", list |-> list, first |-> clampAdminPageSize(n), after |-> NoCursor,
                  start |-> IdsOf(list), seen |-> <<>>]
  BY DEF StartList, IdsOf
<1>2. IdsOf(list)' = IdsOf(list)
  BY DEF StartList, IdsOf, Rows
<1>3. IdsOf(list) \subseteq Nat /\ clampAdminPageSize(n) \in Nat /\ NoCursor \in Nat
  BY LabelsAssumption, RowsSound DEF LabelsInv, ListInv, clampAdminPageSize, NoCursor
<1>4. listing' \in Listings
  BY <1>1, <1>3 DEF Listings
<1> QED
  BY <1>1, <1>2, <1>4 DEF ListKept

LEMMA ListPageKeeps ==
    ASSUME LabelsInv, ListInv, ListPage
    PROVE  ListKept'
<1>1. ListKept /\ listing.step = "reading"
  BY DEF ListPage, ListInv, Idle
<1> DEFINE rows == Rows(listing.list)
           p == GetPaginated(rows, listing.first, listing.after)
           ids == {r.id : r \in p.rows}
           step == IF p.hasNext THEN "reading" ELSE "read"
           after == IF ids = {} THEN listing.after ELSE Min(ids)
<1>2. /\ listing.list \in {"labels", "reports"} /\ listing.first \in Nat /\ listing.after \in Nat
      /\ listing.start \in SUBSET Nat /\ listing.seen \in Seq(SUBSET Nat)
  BY <1>1 DEF ListKept, Listings
<1>3. listing' = [listing EXCEPT !.step = step, !.after = after, !.seen = Append(listing.seen, ids)]
  BY <1>1, <1>2 DEF ListPage
<1>4. IsFiniteSet(rows) /\ (\A r \in rows : r.id \in Nat \ {0}) /\ IdsOf(listing.list) \subseteq Nat
  BY <1>2, RowsSound DEF ListInv, LabelsInv
<1>5. UNCHANGED <<labels, reports>> /\ \A l : IdsOf(l)' = IdsOf(l)
  BY DEF ListPage, IdsOf, Rows
<1>6. /\ p.rows \subseteq rows /\ \A r \in p.rows : listing.after = NoCursor \/ r.id < listing.after
      /\ \A r \in p.rows, s \in rows :
             s.id >= r.id /\ (listing.after = NoCursor \/ s.id < listing.after) => s \in p.rows
      /\ ~p.hasNext => \A s \in rows : listing.after = NoCursor \/ s.id < listing.after => s \in p.rows
  BY <1>2, <1>4, PaginatedPage
<1>7. \A x \in ids : \E r \in p.rows : r.id = x
  OBVIOUS
<1>8. \A r \in p.rows : r.id \in ids
  OBVIOUS
<1>9. \A x \in IdsOf(listing.list) : \E r \in rows : r.id = x
  BY DEF IdsOf
<1> HIDE DEF rows, p, ids
<1>10. ids \subseteq Nat \ {0}
  BY <1>4, <1>6, <1>7
<1>11. ids # {} => after \in ids /\ \A x \in ids : after <= x
  <2> SUFFICES ASSUME ids # {} PROVE after \in ids /\ \A x \in ids : after <= x
    OBVIOUS
  <2>1. \E x \in ids : \A y \in ids : x <= y
    BY <1>10, LeastNat
  <2> QED
    BY <2>1 DEF Min
<1> HIDE DEF after, step
<1>12. after \in Nat /\ (ids = {} => after = listing.after)
  BY <1>2, <1>10, <1>11 DEF after
<1>13. /\ listing' \in Listings /\ listing'.step = step /\ listing'.list = listing.list
       /\ listing'.start = listing.start /\ listing'.after = after /\ listing'.seen = Append(listing.seen, ids)
  <2>1. step \in {"reading", "read"} /\ Append(listing.seen, ids) \in Seq(SUBSET Nat)
    BY <1>2, <1>10 DEF step
  <2> QED
    BY <1>1, <1>3, <1>12, <2>1 DEF ListKept, Listings
<1> DEFINE seen == listing.seen
           m == Len(seen) + 1
<1>14. /\ DOMAIN listing'.seen = DOMAIN seen \cup {m} /\ listing'.seen[m] = ids /\ m \notin DOMAIN seen
       /\ \A i \in DOMAIN seen : listing'.seen[i] = seen[i] /\ i < m /\ i \in Nat
       /\ m \in Nat
  BY <1>2, <1>13
<1> HIDE DEF m
<1>15. Seen \subseteq Seen' /\ ids \subseteq Seen'
  BY <1>14 DEF Seen
<1>16. \A i \in DOMAIN seen : \A x \in seen[i] : listing.after # NoCursor /\ x >= listing.after /\ x \in Nat
  BY <1>1, <1>2 DEF ListKept
<1>17. \A i \in DOMAIN seen : seen[i] \cap ids = {}
  BY <1>2, <1>4, <1>6, <1>7, <1>10, <1>16
<1>18. \A i, j \in DOMAIN listing'.seen : i < j => listing'.seen[i] \cap listing'.seen[j] = {}
  BY <1>1, <1>14, <1>17 DEF ListKept
<1>19. \A x \in listing.start :
           /\ listing.after # NoCursor /\ x >= listing.after => x \in Seen'
           /\ x \in Nat /\ \E s \in rows : s.id = x
  BY <1>1, <1>2, <1>5, <1>9, <1>15 DEF ListKept
<1>20. ASSUME NEW i \in DOMAIN listing'.seen, NEW x \in listing'.seen[i] PROVE after # NoCursor /\ x >= after
  <2>1. CASE i = m
    BY <1>10, <1>11, <1>14, <2>1 DEF NoCursor
  <2>2. CASE i \in DOMAIN seen
    <3>1. listing.after # NoCursor /\ x >= listing.after /\ x \in Nat
      BY <1>14, <1>16, <2>2
    <3>2. CASE ids = {}
      BY <1>12, <3>1, <3>2
    <3>3. CASE ids # {}
      <4>1. after \in ids /\ after # NoCursor
        BY <1>10, <1>11, <3>3 DEF NoCursor
      <4>2. after < listing.after
        BY <1>6, <1>7, <3>1, <4>1
      <4> QED
        BY <1>2, <1>12, <3>1, <4>1, <4>2
    <3> QED
      BY <3>2, <3>3
  <2> QED
    BY <1>14, <2>1, <2>2
<1>21. ASSUME after # NoCursor, NEW x \in listing.start, x >= after PROVE x \in Seen'
  <2>1. CASE listing.after # NoCursor /\ x >= listing.after
    BY <1>19, <2>1
  <2>2. CASE ~(listing.after # NoCursor /\ x >= listing.after)
    <3>1. listing.after = NoCursor \/ x < listing.after
      BY <1>2, <1>19, <2>2
    <3>2. ids # {}
      BY <1>2, <1>12, <1>19, <1>21, <3>1
    <3>3. PICK r \in p.rows : r.id = after
      BY <1>7, <1>11, <3>2
    <3>4. PICK s \in rows : s.id = x
      BY <1>19
    <3>5. s \in p.rows
      BY <1>6, <1>21, <3>1, <3>3, <3>4
    <3> QED
      BY <1>8, <1>15, <3>4, <3>5
  <2> QED
    BY <2>1, <2>2
<1>22. ASSUME step = "read", NEW x \in listing.start PROVE x \in Seen'
  <2>1. ~p.hasNext
    BY <1>22 DEF step
  <2>2. PICK s \in rows : s.id = x
    BY <1>19
  <2>3. CASE listing.after # NoCursor /\ x >= listing.after
    BY <1>19, <2>3
  <2>4. CASE ~(listing.after # NoCursor /\ x >= listing.after)
    <3>1. listing.after = NoCursor \/ x < listing.after
      BY <1>2, <1>19, <2>4
    <3>2. s \in p.rows
      BY <1>6, <2>1, <2>2, <3>1
    <3> QED
      BY <1>8, <1>15, <2>2, <3>2
  <2> QED
    BY <2>3, <2>4
<1> QED
  BY <1>1, <1>5, <1>13, <1>18, <1>20, <1>21, <1>22 DEF ListKept

LEMMA ListInvStep ==
    ASSUME LabelsInv, LabelsInv', ListInv, [LabelsStep]_<<now, labelVars>>
    PROVE  ListInv'
<1>1. ASSUME UNCHANGED listing, IdsKept', \A list \in {"labels", "reports"} : IdsOf(list) \subseteq IdsOf(list)'
      PROVE  ListInv'
  <2>1. CASE listing = Idle
    BY <1>1, <2>1 DEF ListInv
  <2>2. CASE ListKept
    <3>1. listing.list \in {"labels", "reports"}
      BY <2>2 DEF ListKept, Listings
    <3>2. Seen' = Seen
      BY <1>1 DEF Seen
    <3> QED
      BY <1>1, <2>2, <3>1, <3>2 DEF ListKept, ListInv
  <2> QED
    BY <2>1, <2>2 DEF ListInv
<1>2. ASSUME UNCHANGED <<labels, reports>>
      PROVE  IdsKept' /\ \A list \in {"labels", "reports"} : IdsOf(list) \subseteq IdsOf(list)'
  BY <1>2 DEF IdsKept, IdsOf, Rows, ListInv
<1>3. CASE LabelsNext
  <2>1. IdsKept' /\ \A list \in {"labels", "reports"} : IdsOf(list) \subseteq IdsOf(list)'
    BY <1>3, RowsGrow DEF ListInv
  <2>2. ASSUME NEW list \in {"labels", "reports"}, NEW n \in 0 .. 2, StartList(list, n) PROVE ListInv'
    BY <2>1, <2>2, StartListKeeps DEF ListInv
  <2>3. CASE ListPage
    BY <2>1, <2>3, ListPageKeeps DEF ListInv
  <2>4. CASE UNCHANGED listing
    BY <1>1, <2>1, <2>4
  <2>5. UNCHANGED listing \/ ListPage \/ \E list \in {"labels", "reports"}, n \in 0 .. 2 : StartList(list, n)
    BY <1>3 DEF LabelsNext, Deliver, NegateLabel, CreateLabel, CreateLabelDefinition, InsertReport, ResolveReport,
                BeginResolve, ApplyLabel, Resolve
  <2> QED
    BY <2>2, <2>3, <2>4, <2>5
<1>4. CASE LabelsCrash
  BY <1>2, <1>4 DEF LabelsCrash, ListInv
<1>5. CASE UNCHANGED labelVars
  BY <1>1, <1>2, <1>5 DEF labelVars
<1> QED
  BY <1>3, <1>4, <1>5 DEF LabelsStep, labelVars

LEMMA ListInvInit == LabelsInit => ListInv
<1> SUFFICES ASSUME LabelsInit PROVE ListInv
  OBVIOUS
<1>1. labels = {} /\ reports = <<>> /\ listing = Idle
  BY DEF LabelsInit
<1>2. DOMAIN reports = {}
  BY <1>1
<1> QED
  BY <1>1, <1>2, FS_EmptySet DEF ListInv, IdsKept

LEMMA ListHolds == ListInv => ListExact
BY DEF ListInv, ListKept, ListExact, Seen, Idle

\* A list of labels or of reports that an administrator reads page by page has every
\* row that was there at the start exactly once, whatever is inserted meanwhile
\* (GetPaginated in labels.go and reports.go), for any page size and number of rows.
THEOREM ListsCorrect == LabelsSpec => []ListExact
<1>1. LabelsInit /\ now = 0 => LabelsInv /\ ListInv
  BY LabelsInitInv, ListInvInit
<1>2. LabelsInv /\ ListInv /\ [LabelsStep]_<<now, labelVars>> => LabelsInv' /\ ListInv'
  BY LabelsStepInv, ListInvStep
<1>3. ListInv => ListExact
  BY ListHolds
<1> QED
  BY <1>1, <1>2, <1>3, PTL DEF LabelsSpec

-----------------------------------------------------------------------------
(* The order of a query, and its pages.                                    *)

\* ORDER BY is a strict total order on the records of S.
Ordered(S, q) ==
    /\ \A u \in S : ~Precedes(u, u, q)
    /\ \A u, v, w \in S : Precedes(u, v, q) /\ Precedes(v, w, q) => Precedes(u, w, q)
    /\ \A u, v \in S : u # v => Precedes(u, v, q) \/ Precedes(v, u, q)

\* How many records of S come before u.
Before(u, S, q) == Cardinality({v \in S : Precedes(v, u, q)})

LEMMA KeyType ==
    ASSUME record \in [Uris -> Stored], NEW q \in Queries, NEW u \in Present, HasKey(u, q)
    PROVE  SortKey(u, q) \in Int
<1>1. u \in Uris /\ record[u].v \in DOMAIN Body /\ record[u].ts \in Nat
  BY DEF Present, Stored
<1>2. CASE q.sort = "indexed_at"
  BY <1>1, <1>2 DEF SortKey
<1>3. CASE q.sort = "uri"
  BY <1>1, <1>3, PagesAssumption DEF SortKey
<1>4. CASE q.sort \notin {"indexed_at", "uri"}
  <2>1. At(Row(u), q.sort) = At(Body[record[u].v], q.sort)
    BY DEF At, Row, RowOf
  <2>2. At(Row(u), q.sort).text # Null
    BY <1>4 DEF HasKey
  <2>3. Text.rank[At(Row(u), q.sort).text] \in Int
    BY <1>1, <1>4, <2>1, <2>2, CollationAssumption
  <2> QED
    BY <1>4, <2>3 DEF SortKey
<1> QED
  BY <1>2, <1>3, <1>4

LEMMA PresentOrdered ==
    ASSUME record \in [Uris -> Stored], NEW q \in Queries
    PROVE  Ordered(Present, q)
<1>1. \A u \in Present : HasKey(u, q) => SortKey(u, q) \in Int
  BY KeyType
<1>2. \A u \in Present : UriRank[u] \in Int
  BY PagesAssumption DEF Present
<1>3. \A u, v \in Present : UriRank[u] = UriRank[v] => u = v
  BY PagesAssumption DEF Present
<1>4. \A u \in Present : HasKey(u, q) \in BOOLEAN
  BY DEF HasKey
<1> HIDE DEF HasKey, SortKey
<1>5. \A u \in Present : ~Precedes(u, u, q)
  BY <1>1, <1>2, <1>4 DEF Precedes
<1>6. \A u, v \in Present : u # v => Precedes(u, v, q) \/ Precedes(v, u, q)
  BY <1>1, <1>2, <1>3, <1>4 DEF Precedes
<1>7. \A u, v, w \in Present : Precedes(u, v, q) /\ Precedes(v, w, q) => Precedes(u, w, q)
  BY <1>1, <1>2, <1>4 DEF Precedes
<1> QED
  BY <1>5, <1>6, <1>7 DEF Ordered

LEMMA OrderedSubset ==
    ASSUME NEW S, NEW T, NEW q, Ordered(T, q), S \subseteq T
    PROVE  Ordered(S, q)
BY DEF Ordered

\* The places in the order tell the records of a set apart, and all are taken.
LEMMA Places ==
    ASSUME NEW S, IsFiniteSet(S), NEW q, Ordered(S, q)
    PROVE  /\ Cardinality(S) \in Nat
           /\ \A u \in S : Before(u, S, q) \in 0 .. Cardinality(S) - 1
           /\ \A u, v \in S : Precedes(u, v, q) <=> Before(u, S, q) < Before(v, S, q)
           /\ \A k \in 0 .. Cardinality(S) - 1 : \E u \in S : Before(u, S, q) = k
<1> DEFINE Ahead(u) == {v \in S : Precedes(v, u, q)}
           N == Cardinality(S)
<1>1. N \in Nat
  BY FS_CardinalityType
<1>2. \A u \in S : IsFiniteSet(Ahead(u)) /\ Cardinality(Ahead(u)) \in Nat /\ Cardinality(Ahead(u)) <= N
  BY FS_Subset, FS_CardinalityType
<1>3. \A u \in S : Cardinality(Ahead(u)) # N
  <2> SUFFICES ASSUME NEW u \in S, Cardinality(Ahead(u)) = N PROVE FALSE
    OBVIOUS
  <2>1. Ahead(u) \in SUBSET S
    OBVIOUS
  <2>2. S = Ahead(u)
    BY <2>1, FS_Subset
  <2> QED
    BY <2>2 DEF Ordered
<1>4. \A u \in S : Cardinality(Ahead(u)) \in 0 .. N - 1
  <2> HIDE DEF Ahead, N
  <2> QED
    BY <1>1, <1>2, <1>3
<1>5. ASSUME NEW u \in S, NEW v \in S, Precedes(u, v, q)
      PROVE  Cardinality(Ahead(u)) < Cardinality(Ahead(v))
  <2>1. Ahead(u) \in SUBSET Ahead(v) /\ u \in Ahead(v) /\ u \notin Ahead(u)
    BY <1>5 DEF Ordered
  <2>2. Cardinality(Ahead(u)) <= Cardinality(Ahead(v))
    BY <1>2, <2>1, FS_Subset
  <2>3. Cardinality(Ahead(u)) # Cardinality(Ahead(v))
    BY <1>2, <2>1, FS_Subset
  <2> HIDE DEF Ahead
  <2> QED
    BY <1>2, <2>2, <2>3
<1>6. \A u, v \in S : Precedes(u, v, q) <=> Cardinality(Ahead(u)) < Cardinality(Ahead(v))
  <2> SUFFICES ASSUME NEW u \in S, NEW v \in S, Cardinality(Ahead(u)) < Cardinality(Ahead(v))
               PROVE  Precedes(u, v, q)
    BY <1>5
  <2> HIDE DEF Ahead
  <2>1. u # v
    BY <1>2
  <2>2. ~Precedes(v, u, q)
    BY <1>2, <1>5
  <2> QED
    BY <2>1, <2>2 DEF Ordered
<1>7. \A k \in 0 .. N - 1 : \E u \in S : Cardinality(Ahead(u)) = k
  <2> DEFINE f == [u \in S |-> Cardinality(Ahead(u))]
  <2>1. f \in [S -> 0 .. N - 1]
    BY <1>4
  <2>2. \A u, v \in S : u # v => f[u] # f[v]
    <3> SUFFICES ASSUME NEW u \in S, NEW v \in S, u # v PROVE f[u] # f[v]
      OBVIOUS
    <3>1. Precedes(u, v, q) \/ Precedes(v, u, q)
      BY DEF Ordered
    <3> HIDE DEF Ahead
    <3> QED
      BY <1>2, <1>5, <3>1
  <2>3. f \in Injection(S, 0 .. N - 1)
    BY <2>1, <2>2 DEF Injection, IsInjective
  <2>4. IsFiniteSet(0 .. N - 1) /\ Cardinality(0 .. N - 1) = N
    BY <1>1, FS_Interval
  <2>5. f \in Surjection(S, 0 .. N - 1)
    BY <2>3, <2>4, FS_Injection
  <2>6. \A k \in 0 .. N - 1 : \E u \in S : f[u] = k
    BY <2>5 DEF Surjection
  <2> QED
    BY <2>6
<1> QED
  BY <1>1, <1>4, <1>6, <1>7 DEF Before

\* InOrder lists a set: every member once, in the order of the query.
LEMMA InOrderLists ==
    ASSUME NEW S, IsFiniteSet(S), NEW q, Ordered(S, q)
    PROVE  /\ InOrder(S, q) \in Seq(S) /\ Len(InOrder(S, q)) = Cardinality(S)
           /\ \A u \in S : \E i \in DOMAIN InOrder(S, q) : InOrder(S, q)[i] = u
           /\ \A i, j \in DOMAIN InOrder(S, q) : Precedes(InOrder(S, q)[i], InOrder(S, q)[j], q) <=> i < j
<1> DEFINE N == Cardinality(S)
           s == InOrder(S, q)
<1>1. /\ N \in Nat
      /\ \A u \in S : Before(u, S, q) \in 0 .. N - 1
      /\ \A u, v \in S : Precedes(u, v, q) <=> Before(u, S, q) < Before(v, S, q)
      /\ \A k \in 0 .. N - 1 : \E u \in S : Before(u, S, q) = k
  BY Places
<1>2. s = [i \in 1 .. N |-> CHOOSE u \in S : Before(u, S, q) = i - 1]
  BY DEF InOrder, Before
<1> HIDE DEF s, N
<1>3. \A i \in 1 .. N : s[i] \in S /\ Before(s[i], S, q) = i - 1
  <2> SUFFICES ASSUME NEW i \in 1 .. N PROVE s[i] \in S /\ Before(s[i], S, q) = i - 1
    OBVIOUS
  <2>1. i - 1 \in 0 .. N - 1
    BY <1>1
  <2>2. s[i] = CHOOSE u \in S : Before(u, S, q) = i - 1
    BY <1>2
  <2>3. \E u \in S : Before(u, S, q) = i - 1
    BY <1>1, <2>1
  <2> QED
    BY <2>2, <2>3
<1>4. s \in Seq(S) /\ Len(s) = N /\ DOMAIN s = 1 .. N
  BY <1>1, <1>2, <1>3
<1>5. ASSUME NEW u \in S PROVE \E i \in DOMAIN s : s[i] = u
  <2>1. Before(u, S, q) + 1 \in 1 .. N
    BY <1>1
  <2> DEFINE i == Before(u, S, q) + 1
  <2>2. s[i] \in S /\ Before(s[i], S, q) = Before(u, S, q)
    BY <1>1, <1>3, <2>1
  <2>3. s[i] = u
    BY <1>1, <2>2 DEF Ordered
  <2> QED
    BY <1>4, <2>1, <2>3
<1>6. ASSUME NEW i \in DOMAIN s, NEW j \in DOMAIN s PROVE Precedes(s[i], s[j], q) <=> i < j
  BY <1>1, <1>3, <1>4
<1> QED
  BY <1>4, <1>5, <1>6 DEF s, N

LEMMA PrefixOf ==
    ASSUME NEW S, NEW s \in Seq(S), NEW n \in Nat
    PROVE  /\ Prefix(s, n) \in Seq(S) /\ Len(Prefix(s, n)) = IF Len(s) < n THEN Len(s) ELSE n
           /\ \A i \in DOMAIN Prefix(s, n) : i \in DOMAIN s /\ Prefix(s, n)[i] = s[i]
<1> DEFINE k == IF Len(s) < n THEN Len(s) ELSE n
<1>1. k \in 0 .. Len(s) /\ DOMAIN s = 1 .. Len(s)
  OBVIOUS
<1> HIDE DEF k
<1>2. SubSeq(s, 1, k) = [i \in 1 .. k |-> s[i]]
  BY <1>1
<1>3. SubSeq(s, 1, k) \in Seq(S) /\ Len(SubSeq(s, 1, k)) = k /\ DOMAIN SubSeq(s, 1, k) = 1 .. k
  BY <1>1
<1>4. Prefix(s, n) = SubSeq(s, 1, k)
  BY DEF Prefix, k
<1>5. \A i \in 1 .. k : i \in DOMAIN s /\ SubSeq(s, 1, k)[i] = s[i]
  BY <1>1, <1>2
<1> QED
  BY <1>3, <1>4, <1>5 DEF k

\* A page of a set of records: the ones that can be shown among the first size.
LEMMA PageOf ==
    ASSUME NEW S, IsFiniteSet(S), NEW q, Ordered(S, q), NEW size \in Nat,
           NEW rows, rows = Prefix(InOrder(S, q), size + 1),
           NEW shown, shown = {u \in ToSet(Prefix(rows, size)) : Shown(u, q)}
    PROVE  /\ shown \subseteq S /\ \A u \in shown : Shown(u, q)
           /\ ~(Len(rows) > size) => \A u \in S : Shown(u, q) => u \in shown
           /\ \A u \in S : Shown(u, q) /\ u \notin shown => \A b \in shown : Precedes(b, u, q)
<1> DEFINE s == InOrder(S, q)
           page == Prefix(rows, size)
<1>1. /\ s \in Seq(S) /\ Len(s) \in Nat
      /\ \A u \in S : \E i \in DOMAIN s : s[i] = u
      /\ \A i, j \in DOMAIN s : Precedes(s[i], s[j], q) <=> i < j
  BY InOrderLists
<1> HIDE DEF s
<1>2. /\ rows \in Seq(S) /\ Len(rows) = IF Len(s) < size + 1 THEN Len(s) ELSE size + 1
      /\ \A i \in DOMAIN rows : i \in DOMAIN s /\ rows[i] = s[i]
  BY <1>1, PrefixOf DEF s
<1>3. /\ page \in Seq(S) /\ Len(page) = IF Len(s) < size THEN Len(s) ELSE size
      /\ \A i \in DOMAIN page : i \in DOMAIN s /\ page[i] = s[i]
  <2>1. /\ page \in Seq(S) /\ Len(page) = IF Len(rows) < size THEN Len(rows) ELSE size
        /\ \A i \in DOMAIN page : i \in DOMAIN rows /\ page[i] = rows[i]
    BY <1>2, PrefixOf
  <2> HIDE DEF page
  <2> QED
    BY <1>1, <1>2, <2>1
<1>4. \A u : u \in shown <=> Shown(u, q) /\ \E i \in DOMAIN page : page[i] = u
  BY DEF ToSet
<1>5. DOMAIN page = 1 .. Len(page) /\ DOMAIN s = 1 .. Len(s)
  BY <1>1, <1>3
<1> HIDE DEF page
<1>6. shown \subseteq S /\ \A u \in shown : Shown(u, q)
  BY <1>3, <1>4
<1>7. ASSUME ~(Len(rows) > size), NEW u \in S, Shown(u, q) PROVE u \in shown
  <2>1. Len(s) <= size
    BY <1>1, <1>2, <1>7
  <2>2. PICK i \in DOMAIN s : s[i] = u
    BY <1>1
  <2>3. i \in DOMAIN page
    BY <1>1, <1>3, <1>5, <2>1
  <2> QED
    BY <1>3, <1>4, <1>7, <2>2, <2>3
<1>8. ASSUME NEW u \in S, Shown(u, q), u \notin shown, NEW b \in shown PROVE Precedes(b, u, q)
  <2>1. PICK i \in DOMAIN s : s[i] = u
    BY <1>1
  <2>2. i \notin DOMAIN page
    BY <1>3, <1>4, <1>8, <2>1
  <2>3. PICK j \in DOMAIN page : page[j] = b
    BY <1>4
  <2>4. j \in DOMAIN s /\ s[j] = b /\ j < i
    BY <1>1, <1>3, <1>5, <2>2, <2>3
  <2> QED
    BY <1>1, <2>1, <2>4
<1> QED
  BY <1>6, <1>7, <1>8

\* The edges of a page, in reading order, and the one from which the client goes on.
LEMMA EdgesOf ==
    ASSUME NEW S, IsFiniteSet(S), Ordered(S, query),
           NEW edges, edges = Reversed(InOrder(S, query)),
           NEW border, border = Reversed(edges)[Len(edges)]
    PROVE  /\ edges \in Seq(S)
           /\ \A u : u \in S <=> \E i \in DOMAIN edges : edges[i] = u
           /\ edges # <<>> => border \in S /\ \A u \in S : ~Precedes(border, u, query)
<1> DEFINE s == InOrder(S, query)
<1>1. /\ s \in Seq(S) /\ Len(s) \in Nat
      /\ \A u \in S : \E i \in DOMAIN s : s[i] = u
      /\ \A i, j \in DOMAIN s : Precedes(s[i], s[j], query) <=> i < j
  BY InOrderLists
<1> HIDE DEF s
<1>2. DOMAIN s = 1 .. Len(s)
  BY <1>1
<1>3. /\ edges \in Seq(S) /\ Len(edges) = Len(s) /\ DOMAIN edges = DOMAIN s
      /\ \/ \A i \in DOMAIN s : edges[i] = s[Len(s) + 1 - i]
         \/ \A i \in DOMAIN s : edges[i] = s[i]
      /\ edges # <<>> => border = s[Len(s)]
  <2>1. CASE Backward
    <3>1. edges = [i \in 1 .. Len(s) |-> s[(Len(s) - i) + 1]]
      BY <2>1 DEF Reversed, Reverse, s
    <3>2. \A i \in 1 .. Len(s) : (Len(s) - i) + 1 \in 1 .. Len(s)
      BY <1>1
    <3>3. edges \in Seq(S) /\ Len(edges) = Len(s)
      BY <1>1, <1>2, <3>1, <3>2
    <3>4. \A i \in DOMAIN s : edges[i] = s[Len(s) + 1 - i]
      BY <1>1, <1>2, <3>1
    <3>5. ASSUME edges # <<>> PROVE border = s[Len(s)]
      <4>1. Len(s) \in DOMAIN s /\ 1 \in DOMAIN s
        BY <1>1, <1>2, <3>3, <3>5
      <4>2. Reversed(edges) = [i \in 1 .. Len(edges) |-> edges[(Len(edges) - i) + 1]]
        BY <2>1 DEF Reversed, Reverse
      <4>3. border = edges[1]
        BY <1>1, <1>2, <3>3, <4>1, <4>2
      <4> QED
        BY <1>1, <3>4, <4>1, <4>3
    <3> QED
      BY <1>2, <3>3, <3>4, <3>5
  <2>2. CASE ~Backward
    <3>1. edges = s /\ border = s[Len(s)]
      BY <2>2 DEF Reversed, s
    <3> QED
      BY <1>1, <3>1
  <2> QED
    BY <2>1, <2>2
<1>4. \A i \in DOMAIN s : Len(s) + 1 - i \in DOMAIN s /\ Len(s) + 1 - (Len(s) + 1 - i) = i
  BY <1>1, <1>2
<1>5. \A u : u \in S <=> \E i \in DOMAIN edges : edges[i] = u
  <2>1. ASSUME NEW u \in S PROVE \E i \in DOMAIN edges : edges[i] = u
    <3>1. PICK i \in DOMAIN s : s[i] = u
      BY <1>1
    <3> DEFINE j == Len(s) + 1 - i
    <3>2. j \in DOMAIN s /\ Len(s) + 1 - j = i
      BY <1>4
    <3> HIDE DEF j
    <3> QED
      BY <1>3, <3>1, <3>2
  <2>2. \A i \in DOMAIN edges : edges[i] \in S
    BY <1>3
  <2> QED
    BY <2>1, <2>2
<1>6. ASSUME edges # <<>> PROVE border \in S /\ \A u \in S : ~Precedes(border, u, query)
  <2>1. Len(s) \in DOMAIN s /\ border = s[Len(s)]
    BY <1>1, <1>2, <1>3, <1>6
  <2>2. ASSUME NEW u \in S, Precedes(border, u, query) PROVE FALSE
    <3>1. PICK i \in DOMAIN s : s[i] = u
      BY <1>1
    <3>2. Len(s) < i
      BY <1>1, <2>1, <2>2, <3>1
    <3> QED
      BY <1>1, <1>2, <3>2
  <2> QED
    BY <1>1, <2>1, <2>2
<1> QED
  BY <1>3, <1>5, <1>6

-----------------------------------------------------------------------------
(* The cursor and the order by time.                                       *)

LEMMA Seconds ==
    ASSUME NEW t \in Nat
    PROVE  /\ Second(t) \in Nat /\ t % TicksPerSecond \in {0, 1}
           /\ t = TicksPerSecond * Second(t) + (t % TicksPerSecond)
           /\ TicksPerSecond = 2
<1>1. t \div 2 \in Nat
  OBVIOUS
<1>2. t % 2 \in {0, 1}
  OBVIOUS
<1>3. t = 2 * (t \div 2) + (t % 2)
  OBVIOUS
<1> QED
  BY <1>1, <1>2, <1>3 DEF Second, TicksPerSecond

\* Outside the second that a page ended within, the cursor divides the records where
\* the page did.
LEMMA CursorDivides ==
    ASSUME record \in [Uris -> Stored], NEW q, q.sort = "indexed_at",
           NEW b \in Uris, NEW u \in Uris,
           record[b].ts % TicksPerSecond # 0 => Second(record[u].ts) # Second(record[b].ts)
    PROVE  AfterCursor(u, encodeCursorV2(b, q), q) <=> Precedes(b, u, q)
<1> DEFINE tb == record[b].ts
           tu == record[u].ts
           c == TicksPerSecond * Second(tb)
<1>1. tb \in Nat /\ tu \in Nat
  BY DEF Stored, NoRow
<1>2. UriRank[b] \in Int /\ UriRank[u] \in Int
  BY PagesAssumption
<1>3. c \in Int /\ (tb = c \/ (tb = c + 1 /\ tu # c /\ tu # c + 1))
  <2>1. /\ Second(tb) \in Nat /\ Second(tu) \in Nat /\ c = 2 * Second(tb)
        /\ tb % TicksPerSecond \in {0, 1} /\ tu % TicksPerSecond \in {0, 1}
        /\ tb = 2 * Second(tb) + (tb % TicksPerSecond)
        /\ tu = 2 * Second(tu) + (tu % TicksPerSecond)
    BY <1>1, Seconds
  <2>2. tb % TicksPerSecond # 0 => Second(tu) # Second(tb)
    OBVIOUS
  <2> HIDE DEF tb, tu, c
  <2>3. CASE tb % TicksPerSecond = 0
    BY <2>1, <2>3
  <2>4. CASE tb % TicksPerSecond = 1
    BY <2>1, <2>2, <2>4
  <2> QED
    BY <2>1, <2>3, <2>4
<1>4. encodeCursorV2(b, q) = [value |-> c, uri |-> b]
  BY DEF encodeCursorV2
<1>5. HasKey(u, q) /\ HasKey(b, q) /\ SortKey(u, q) = tu /\ SortKey(b, q) = tb
  BY DEF HasKey, SortKey
<1> HIDE DEF tb, tu, c
<1>6. AfterCursor(u, [value |-> c, uri |-> b], q) <=>
        IF q.dir = "DESC" THEN tu < c \/ (tu = c /\ UriRank[u] < UriRank[b])
                          ELSE tu > c \/ (tu = c /\ UriRank[u] > UriRank[b])
  BY <1>5 DEF AfterCursor
<1>7. Precedes(b, u, q) <=>
        IF q.dir = "DESC" THEN tb > tu \/ (tb = tu /\ UriRank[b] > UriRank[u])
                          ELSE tb < tu \/ (tb = tu /\ UriRank[b] < UriRank[u])
  BY <1>5 DEF Precedes
<1> QED
  BY <1>1, <1>2, <1>3, <1>4, <1>6, <1>7

\* What comes after a record beyond the cursor is beyond it.
LEMMA CursorOnward ==
    ASSUME record \in [Uris -> Stored], NEW q, q.sort = "indexed_at",
           NEW b \in Uris, NEW u \in Uris, NEW c \in [value : Int, uri : Uris],
           AfterCursor(b, c, q), Precedes(b, u, q)
    PROVE  AfterCursor(u, c, q)
<1>1. record[b].ts \in Nat /\ record[u].ts \in Nat
  BY DEF Stored, NoRow
<1>2. UriRank[b] \in Int /\ UriRank[u] \in Int /\ UriRank[c.uri] \in Int /\ c.value \in Int
  BY PagesAssumption
<1>3. /\ HasKey(u, q) /\ HasKey(b, q)
      /\ SortKey(u, q) = record[u].ts /\ SortKey(b, q) = record[b].ts
  BY DEF HasKey, SortKey
<1> QED
  BY <1>1, <1>2, <1>3 DEF AfterCursor, Precedes

-----------------------------------------------------------------------------
(* The invariant of the walk.                                              *)

\* The record table holds versions that it may come to have.
RecordSound ==
    /\ record \in [Uris -> Stored]
    /\ \E r \in Rows0 : \A u \in Uris : u \notin Changing => record[u].v = r[u].v
    /\ \A u \in Uris : record[u].v \in Versions(u)

Cursors == [value : Int, uri : Uris]
Walks == [step : {"fetch", "done", "stuck", "failed"}, cursor : {<<>>} \cup {<<c>> : c \in Cursors},
          got : Seq(Seq(Uris)), cut : SUBSET Int, stray : BOOLEAN, steady : SUBSET Uris]

\* The pages so far reach beyond u.
Passed(u) == walk.step = "done" \/ (walk.cursor # <<>> /\ ~AfterCursor(u, walk.cursor[1], query))
Placed(u) == IF Passed(u) THEN \E i \in DOMAIN walk.got : Pages(u) = {i} ELSE Pages(u) = {}

Walking ==
    /\ walk \in Walks
    /\ ~Refused(query) /\ ~walk.stray
    /\ \A u \in walk.steady : Wanted(u, query) /\ Shown(u, query)
    /\ query.sort = "indexed_at" => \A u \in walk.steady : Second(record[u].ts) \notin walk.cut => Placed(u)

PagesInv ==
    /\ RecordSound /\ query \in Queries
    /\ walk = NoWalk \/ walk = [step |-> "refused"] \/ Walking

LEMMA TableContents ==
    ASSUME RecordSound
    PROVE  \E c \in Contents : Table = TableOf(c) /\ \A u \in Present : c[u] = record[u].v /\ c[u] # Null
<1>1. PICK r \in Rows0 : \A u \in Uris : u \notin Changing => record[u].v = r[u].v
  BY DEF RecordSound
<1> DEFINE f == [u \in Changing |-> record[u].v]
           c == [u \in Uris |-> record[u].v]
<1>2. f \in [Changing -> UNION {Versions(u) : u \in Changing}]
  <2>1. \A u \in Changing : u \in Uris /\ record[u].v \in Versions(u)
    BY DEF RecordSound, Changing
  <2> QED
    BY <2>1
<1>3. c = [u \in Uris |-> IF u \in Changing THEN f[u] ELSE r[u].v]
  BY <1>1
<1> HIDE DEF f, c
<1>4. c \in Contents
  BY <1>2, <1>3 DEF Contents
<1>5. \A u \in Uris : record[u] # NoRow <=> record[u].v # Null
  <2>1. \A u \in Uris : record[u] \in [v : DOMAIN Body \ {Null}, ts : Nat] \/ record[u] = NoRow
    BY DEF RecordSound, Stored
  <2> QED
    BY <2>1 DEF NoRow
<1>6. Present = {w \in Uris : c[w] # Null}
  BY <1>5 DEF Present, c
<1>7. Table = TableOf(c)
  BY <1>6 DEF Table, TableOf, Row, c
<1>8. \A u \in Present : c[u] = record[u].v /\ c[u] # Null
  BY <1>6 DEF c
<1> QED
  BY <1>4, <1>7, <1>8

\* A query that is not refused selects what its where input asks for.
LEMMA FilterExact ==
    ASSUME RecordSound, NEW q \in Queries, ~Refused(q), NEW u \in Uris, Filtered(u, q),
           NEW g, g = FilterTree(q.where, q.collection), FilterValue(g, Row(u), Table) # "E"
    PROVE  FilterValue(g, Row(u), Table) = "T" <=> Wanted(u, q)
<1>1. PICK c \in Contents : Table = TableOf(c) /\ \A w \in Present : c[w] = record[w].v /\ c[w] # Null
  BY TableContents
<1>2. u \in Present /\ Collection[u] = q.collection
  BY DEF Filtered
<1>3. q.authors # << {} >>
  <2> SUFFICES ASSUME q.authors = << {} >> PROVE FALSE
    OBVIOUS
  <2>1. q.authors # <<>> /\ q.authors[1] = {}
    OBVIOUS
  <2> QED
    BY <2>1 DEF Filtered
<1>4. ~g.bad /\ FilterBuilds(g)
  BY <1>3 DEF Refused
<1>5. Row(u) = RowOf(u, c[u])
  BY <1>1, <1>2 DEF Row
<1>6. c[u] # Null
  BY <1>1, <1>2
<1>7. FilterValue(g, Row(u), Table) = "T" <=> InputMet(q.where, q.collection, Row(u), Table)
  BY <1>1, <1>2, <1>4, <1>5, <1>6, FilterAssumption
<1> QED
  BY <1>7 DEF Wanted

\* What a walk says of itself, as a record.
LEMMA WalkFields ==
    ASSUME walk \in Walks
    PROVE  /\ walk.step \in {"fetch", "done", "stuck", "failed"}
           /\ walk.got \in Seq(Seq(Uris)) /\ walk.cut \subseteq Int /\ walk.steady \subseteq Uris
           /\ walk.cursor = <<>> \/ \E c \in Cursors : walk.cursor = <<c>>
           /\ walk.cursor # <<>> => walk.cursor[1] \in Cursors
BY DEF Walks

\* The records of a query are in the table, and few enough to be listed.
LEMMA FoundRecords ==
    ASSUME RecordSound, NEW q \in Queries, NEW g, NEW cursor
    PROVE  /\ Found(q, g, cursor) \subseteq Present /\ Present \subseteq Uris
           /\ \A S : S \subseteq Present => IsFiniteSet(S) /\ Ordered(S, q)
<1>1. Found(q, g, cursor) \subseteq Present /\ Present \subseteq Uris
  BY DEF Found, Filtered, Present
<1>2. IsFiniteSet(Present)
  BY <1>1, PagesAssumption, FS_Subset
<1>3. Ordered(Present, q)
  BY PresentOrdered DEF RecordSound
<1> QED
  BY <1>1, <1>2, <1>3, FS_Subset, OrderedSubset

\* The pages with u, when one is appended.
LEMMA PagesAppend ==
    ASSUME walk.got \in Seq(Seq(Uris)), NEW edges \in Seq(Uris), walk'.got = Append(walk.got, edges), NEW u
    PROVE  Pages(u)' = IF \E i \in DOMAIN edges : edges[i] = u THEN Pages(u) \cup {Len(walk.got) + 1} ELSE Pages(u)
<1>1. /\ Len(walk.got) \in Nat /\ DOMAIN walk.got = 1 .. Len(walk.got)
      /\ DOMAIN walk'.got = DOMAIN walk.got \cup {Len(walk.got) + 1}
      /\ Len(walk.got) + 1 \notin DOMAIN walk.got
      /\ walk'.got[Len(walk.got) + 1] = edges
      /\ \A i \in DOMAIN walk.got : walk'.got[i] = walk.got[i]
  OBVIOUS
<1> QED
  BY <1>1 DEF Pages

\* A record that is not touched is shown, and placed by the cursor, as before.
LEMMA Untouched ==
    ASSUME NEW u, record'[u] = record[u], query' = query
    PROVE  /\ Shown(u, query)' <=> Shown(u, query)
           /\ \A c : AfterCursor(u, c, query)' <=> AfterCursor(u, c, query)
           /\ Second(record[u].ts)' = Second(record[u].ts)
<1>1. Row(u)' = Row(u)
  BY DEF Row, RowOf
<1>2. SanitizeRecord(u)' <=> SanitizeRecord(u)
  BY <1>1 DEF SanitizeRecord, At, checkJSONType, validateFormat
<1>3. HasKey(u, query)' <=> HasKey(u, query)
  BY <1>1 DEF HasKey, At
<1>4. SortKey(u, query)' = SortKey(u, query)
  BY <1>1 DEF SortKey, At
<1>5. Shown(u, query)' <=> Shown(u, query)
  BY <1>2 DEF Shown
<1>6. ASSUME NEW c PROVE AfterCursor(u, c, query)' <=> AfterCursor(u, c, query)
  BY <1>3, <1>4 DEF AfterCursor
<1>7. Second(record[u].ts)' = Second(record[u].ts)
  BY DEF Second, TicksPerSecond
<1> QED
  BY <1>5, <1>6, <1>7

\* What a record is wanted for does not depend on the walk.
LEMMA SameWanted ==
    ASSUME UNCHANGED <<record, pds, query, now, labels>>
    PROVE  /\ \A u : Wanted(u, query)' <=> Wanted(u, query)
           /\ Refused(query)' <=> Refused(query)
<1>1. Present' = Present /\ (\A u : Row(u)' = Row(u)) /\ Table' = Table
  BY DEF Present, Row, Table, NoRow
<1>2. \A us : GetByURIs(us)' = GetByURIs(us)
  BY DEF GetByURIs, Active
<1>3. \A u : Filtered(u, query)' <=> Filtered(u, query)
  BY <1>1, <1>2 DEF Filtered, LabelMatch
<1> QED
  BY <1>1, <1>3 DEF Wanted, Refused

LEMMA StartWalkKeeps ==
    ASSUME PagesInv, StartWalk, UNCHANGED <<now, labels>>
    PROVE  PagesInv'
<1>1. UNCHANGED <<record, pds, query, now, labels>>
  BY DEF StartWalk
<1>2. RecordSound' /\ query' \in Queries
  BY <1>1 DEF PagesInv, RecordSound
<1>3. CASE Refused(query)
  BY <1>2, <1>3 DEF StartWalk, PagesInv
<1>4. CASE ~Refused(query)
  <2> DEFINE steady == {u \in Uris : Wanted(u, query) /\ Shown(u, query)}
  <2>1. walk' = [step |-> "fetch", cursor |-> <<>>, got |-> <<>>, cut |-> {}, stray |-> FALSE, steady |-> steady]
    BY <1>4 DEF StartWalk
  <2>2. \A u \in steady : u \in Uris /\ Wanted(u, query) /\ Shown(u, query)
    OBVIOUS
  <2> HIDE DEF steady
  <2>3. walk' \in Walks
    <3>1. steady \in SUBSET Uris
      BY <2>2
    <3>2. <<>> \in Seq(Seq(Uris))
      OBVIOUS
    <3> QED
      BY <2>1, <3>1, <3>2 DEF Walks
  <2>4. ~Refused(query)' /\ ~walk'.stray
    BY <1>1, <1>4, <2>1, SameWanted
  <2>5. \A u \in walk'.steady : Wanted(u, query)' /\ Shown(u, query)'
    BY <1>1, <2>1, <2>2, SameWanted, Untouched
  <2>6. \A u \in walk'.steady : Placed(u)'
    BY <2>1 DEF Placed, Passed, Pages
  <2> QED
    BY <1>2, <2>3, <2>4, <2>5, <2>6 DEF PagesInv, Walking
<1> QED
  BY <1>3, <1>4

LEMMA FetchFailsKeeps ==
    ASSUME PagesInv, FetchFails, UNCHANGED <<now, labels>>
    PROVE  PagesInv'
<1>1. UNCHANGED <<record, pds, query, now, labels>> /\ walk' = [walk EXCEPT !.step = "failed"] /\ walk.step = "fetch"
  BY DEF FetchFails
<1>2. RecordSound' /\ query' \in Queries
  BY <1>1 DEF PagesInv, RecordSound
<1>3. Walking /\ walk \in Walks
  BY <1>1 DEF PagesInv, NoWalk, Walking
<1>4. /\ walk' \in Walks /\ walk'.step = "failed"
      /\ walk'.cursor = walk.cursor /\ walk'.got = walk.got /\ walk'.cut = walk.cut
      /\ walk'.stray = walk.stray /\ walk'.steady = walk.steady
  BY <1>1, <1>3 DEF Walks
<1>5. ~Refused(query)' /\ ~walk'.stray
  BY <1>1, <1>3, <1>4, SameWanted DEF Walking
<1>6. \A u \in walk'.steady : Wanted(u, query)' /\ Shown(u, query)'
  BY <1>1, <1>3, <1>4, SameWanted, Untouched DEF Walking
<1>7. \A u : Pages(u)' = Pages(u)
  BY <1>4 DEF Pages
<1>8. \A u \in walk.steady : Placed(u) => Placed(u)'
  BY <1>1, <1>4, <1>7, Untouched DEF Placed, Passed
<1>9. \A u : Second(record[u].ts)' = Second(record[u].ts)
  BY <1>1, Untouched
<1> QED
  BY <1>1, <1>2, <1>3, <1>4, <1>5, <1>6, <1>8, <1>9 DEF PagesInv, Walking

LEMMA KeepSteadyKeeps ==
    ASSUME PagesInv, KeepSteady, query' = query, RecordSound'
    PROVE  PagesInv'
<1>1. CASE walk.step \in {"idle", "refused"}
  <2>1. walk' = walk
    BY <1>1 DEF KeepSteady
  <2>2. ~Walking
    BY <1>1, WalkFields DEF Walking
  <2> QED
    BY <2>1, <2>2 DEF PagesInv
<1>2. CASE walk.step \notin {"idle", "refused"}
  <2> DEFINE steady == {u \in walk.steady : record'[u] = record[u] /\ Wanted(u, query)'}
  <2>1. Walking /\ walk \in Walks
    BY <1>2 DEF PagesInv, NoWalk, Walking
  <2>2. walk' = [walk EXCEPT !.steady = steady]
    BY <1>2 DEF KeepSteady
  <2>3. \A u \in steady : u \in walk.steady /\ record'[u] = record[u] /\ Wanted(u, query)'
    OBVIOUS
  <2> HIDE DEF steady
  <2>4. /\ walk' \in Walks /\ walk'.step = walk.step
        /\ walk'.cursor = walk.cursor /\ walk'.got = walk.got /\ walk'.cut = walk.cut
        /\ walk'.stray = walk.stray /\ walk'.steady = steady
    <3>1. steady \in SUBSET Uris
      BY <2>1, <2>3, WalkFields
    <3> QED
      BY <2>1, <2>2, <3>1 DEF Walks
  <2>5. ~Refused(query)' /\ ~walk'.stray
    BY <2>1, <2>4 DEF Walking, Refused
  <2>6. \A u \in walk'.steady : Wanted(u, query)' /\ Shown(u, query)'
    BY <2>1, <2>3, <2>4, Untouched DEF Walking
  <2>7. \A u : Pages(u)' = Pages(u)
    BY <2>4 DEF Pages
  <2>8. \A u \in steady : Placed(u) => Placed(u)'
    BY <2>3, <2>4, <2>7, Untouched DEF Placed, Passed
  <2>9. \A u \in steady : Second(record[u].ts)' = Second(record[u].ts)
    BY <2>3, Untouched
  <2> QED
    BY <2>1, <2>3, <2>4, <2>5, <2>6, <2>8, <2>9 DEF PagesInv, Walking
<1> QED
  BY <1>1, <1>2

\* The parts of one page: the filters, the records that the query finds, the rows it
\* reads, the ones that are shown, the edges, and the edge to go on from.
Tree == FilterTree(query.where, query.collection)
Size == ClampPageSize(query.size)
All == Found(query, Tree, walk.cursor)
Read == GetByCollectionFiltered(query, Tree, walk.cursor, Size + 1)
On == {u \in ToSet(Prefix(Read, Size)) : Shown(u, query)}
Edges == Reversed(InOrder(On, query))
Border == Reversed(Edges)[Len(Edges)]
More == Len(Read) > Size

LEMMA FetchPageGets ==
    ASSUME PagesInv, FetchPage
    PROVE  /\ \A u \in Uris : Filtered(u, query) => FilterValue(Tree, Row(u), Table) # "E"
           /\ All \subseteq Uris /\ On \subseteq All /\ (\A u \in On : Shown(u, query))
           /\ ~More => \A u \in All : Shown(u, query) => u \in On
           /\ \A u \in All : Shown(u, query) /\ u \notin On => \A b \in On : Precedes(b, u, query)
           /\ Edges \in Seq(On) /\ \A u : u \in On <=> \E i \in DOMAIN Edges : Edges[i] = u
           /\ Edges # <<>> => Border \in On /\ \A u \in On : ~Precedes(Border, u, query)
           /\ TakePage(Edges, More) /\ UNCHANGED <<record, pds, query>> /\ walk.step = "fetch"
<1>1. RecordSound /\ query \in Queries
  BY DEF PagesInv
<1>2. /\ \A u \in Uris : Filtered(u, query) => FilterValue(Tree, Row(u), Table) # "E"
      /\ TakePage(Edges, More) /\ UNCHANGED <<record, pds, query>> /\ walk.step = "fetch"
  BY DEF FetchPage, Tree, Size, Read, On, Edges, More
<1>3. Size \in Nat
  BY <1>1, PagesAssumption DEF ClampPageSize, Size
<1>4. /\ All \subseteq Present /\ Present \subseteq Uris
      /\ \A T : T \subseteq Present => IsFiniteSet(T) /\ Ordered(T, query)
  BY <1>1, FoundRecords DEF All
<1>5. Read = Prefix(InOrder(All, query), Size + 1)
  BY DEF GetByCollectionFiltered, Read, All
<1>6. IsFiniteSet(All) /\ Ordered(All, query)
  BY <1>4
<1>7. /\ On \subseteq All /\ (\A u \in On : Shown(u, query))
      /\ ~More => \A u \in All : Shown(u, query) => u \in On
      /\ \A u \in All : Shown(u, query) /\ u \notin On => \A b \in On : Precedes(b, u, query)
  <2>1. On = {u \in ToSet(Prefix(Read, Size)) : Shown(u, query)} /\ (More <=> Len(Read) > Size)
    BY DEF On, More
  <2> QED
    BY <1>3, <1>5, <1>6, <2>1, PageOf
<1>8. IsFiniteSet(On) /\ Ordered(On, query)
  BY <1>4, <1>7
<1>9. /\ Edges \in Seq(On)
      /\ \A u : u \in On <=> \E i \in DOMAIN Edges : Edges[i] = u
      /\ Edges # <<>> => Border \in On /\ \A u \in On : ~Precedes(Border, u, query)
  BY <1>8, EdgesOf DEF Edges, Border
<1> QED
  BY <1>2, <1>4, <1>7, <1>9

\* A record that is wanted and beyond the cursor is among those the query finds.
LEMMA WantedFound ==
    ASSUME PagesInv, ~Refused(query), NEW u \in Uris,
           \A w \in Uris : Filtered(w, query) => FilterValue(Tree, Row(w), Table) # "E"
    PROVE  u \in All <=> Wanted(u, query) /\ (walk.cursor # <<>> => AfterCursor(u, walk.cursor[1], query))
<1>1. RecordSound /\ query \in Queries
  BY DEF PagesInv
<1>2. Wanted(u, query) => Filtered(u, query)
  BY DEF Wanted
<1>3. Filtered(u, query) => query.authors # << {} >>
  <2> SUFFICES ASSUME query.authors = << {} >> PROVE ~Filtered(u, query)
    OBVIOUS
  <2>1. query.authors # <<>> /\ query.authors[1] = {}
    OBVIOUS
  <2> QED
    BY <2>1 DEF Filtered
<1>4. Filtered(u, query) => (FilterValue(Tree, Row(u), Table) = "T" <=> Wanted(u, query))
  BY <1>1, FilterExact DEF Tree
<1> QED
  BY <1>2, <1>3, <1>4 DEF All, Found

LEMMA FetchPageKeeps ==
    ASSUME PagesInv, FetchPage, UNCHANGED <<now, labels>>
    PROVE  PagesInv'
<1>1. /\ \A u \in Uris : Filtered(u, query) => FilterValue(Tree, Row(u), Table) # "E"
      /\ All \subseteq Uris /\ On \subseteq All /\ (\A u \in On : Shown(u, query))
      /\ ~More => \A u \in All : Shown(u, query) => u \in On
      /\ \A u \in All : Shown(u, query) /\ u \notin On => \A b \in On : Precedes(b, u, query)
      /\ Edges \in Seq(On) /\ \A u : u \in On <=> \E i \in DOMAIN Edges : Edges[i] = u
      /\ Edges # <<>> => Border \in On /\ \A u \in On : ~Precedes(Border, u, query)
      /\ TakePage(Edges, More) /\ UNCHANGED <<record, pds, query>> /\ walk.step = "fetch"
  BY FetchPageGets
<1>2. RecordSound' /\ query' \in Queries /\ RecordSound
  BY <1>1 DEF PagesInv, RecordSound
<1>3. Walking /\ walk \in Walks
  BY <1>1 DEF PagesInv, NoWalk, Walking
<1>4. /\ walk.got \in Seq(Seq(Uris)) /\ walk.cut \subseteq Int /\ walk.steady \subseteq Uris
      /\ walk.cursor = <<>> \/ \E c \in Cursors : walk.cursor = <<c>>
      /\ walk.cursor # <<>> => walk.cursor[1] \in Cursors
  BY <1>3, WalkFields
<1>5. \A u \in Uris : u \in All <=> Wanted(u, query) /\ (walk.cursor # <<>> => AfterCursor(u, walk.cursor[1], query))
  BY <1>1, <1>3, WantedFound DEF Walking
<1> DEFINE goesOn == More /\ Edges # <<>>
           cut == IF goesOn /\ record[Border].ts % TicksPerSecond # 0
                  THEN walk.cut \cup {Second(record[Border].ts)} ELSE walk.cut
           cursor == IF goesOn THEN <<encodeCursorV2(Border, query)>> ELSE walk.cursor
           stray == walk.stray \/ \E i \in DOMAIN Edges : ~Wanted(Edges[i], query)
           step == IF goesOn THEN "fetch" ELSE IF More THEN "stuck" ELSE "done"
<1>6. walk' = [step |-> step, cursor |-> cursor, got |-> Append(walk.got, Edges), cut |-> cut,
               stray |-> stray, steady |-> walk.steady]
  BY <1>1 DEF TakePage, Border
<1>7. Edges \in Seq(Uris) /\ (goesOn => Border \in Uris)
  BY <1>1
<1>8. ~stray
  <2>1. \A i \in DOMAIN Edges : Edges[i] \in All /\ Edges[i] \in Uris
    BY <1>1
  <2> QED
    BY <1>3, <1>5, <2>1 DEF Walking
<1>9. cut \subseteq Int /\ walk.cut \subseteq cut
  <2>1. goesOn => record[Border].ts \in Nat
    BY <1>2, <1>7 DEF RecordSound, Stored, NoRow
  <2>2. goesOn => Second(record[Border].ts) \in Int
    BY <2>1, Seconds
  <2> QED
    BY <1>4, <2>2
<1>10. /\ goesOn => encodeCursorV2(Border, query) \in Cursors
       /\ cursor \in {<<>>} \cup {<<c>> : c \in Cursors}
  <2>1. goesOn => record[Border].ts \in Nat
    BY <1>2, <1>7 DEF RecordSound, Stored, NoRow
  <2>2. goesOn => TicksPerSecond * Second(record[Border].ts) \in Int
    <3>1. goesOn => Second(record[Border].ts) \in Nat
      BY <2>1, Seconds
    <3>2. \A n \in Nat : TicksPerSecond * n \in Int
      BY DEF TicksPerSecond
    <3> QED
      BY <3>1, <3>2
  <2>3. goesOn => encodeCursorV2(Border, query) \in Cursors
    BY <1>7, <2>2 DEF encodeCursorV2, Cursors
  <2> QED
    BY <1>4, <2>3
<1> HIDE DEF goesOn, cut, cursor, stray, step
<1>11. /\ walk'.step = step /\ walk'.cursor = cursor /\ walk'.cut = cut /\ walk'.stray = stray
       /\ walk'.steady = walk.steady /\ walk'.got = Append(walk.got, Edges)
  BY <1>6
<1>12. walk' \in Walks
  <2>1. step \in {"fetch", "done", "stuck", "failed"} /\ stray \in BOOLEAN
    BY DEF step, stray
  <2>2. Append(walk.got, Edges) \in Seq(Seq(Uris))
    BY <1>4, <1>7
  <2> QED
    BY <1>4, <1>6, <1>9, <1>10, <2>1, <2>2 DEF Walks
<1>13. /\ ~Refused(query)' /\ ~walk'.stray
       /\ \A u \in walk'.steady : Wanted(u, query)' /\ Shown(u, query)'
  BY <1>1, <1>3, <1>8, <1>11, SameWanted, Untouched DEF Walking
<1>14. ASSUME query.sort = "indexed_at", NEW u \in walk.steady, Second(record[u].ts) \notin cut
       PROVE  Placed(u)'
  <2>1. u \in Uris /\ Wanted(u, query) /\ Shown(u, query)
    BY <1>3, <1>4 DEF Walking
  <2>2. Placed(u)
    BY <1>3, <1>9, <1>14 DEF Walking
  <2>3. Pages(u)' = IF u \in On THEN Pages(u) \cup {Len(walk.got) + 1} ELSE Pages(u)
    <3>1. Pages(u)' = IF \E i \in DOMAIN Edges : Edges[i] = u THEN Pages(u) \cup {Len(walk.got) + 1} ELSE Pages(u)
      BY <1>4, <1>7, <1>11, PagesAppend
    <3> QED
      BY <1>1, <3>1
  <2>4. Passed(u) <=> u \notin All
    BY <1>1, <1>5, <2>1 DEF Passed
  <2>5. Passed(u)' <=> step = "done" \/ (cursor # <<>> /\ ~AfterCursor(u, cursor[1], query))
    BY <1>1, <1>11, Untouched DEF Passed
  <2>6. goesOn => (AfterCursor(u, encodeCursorV2(Border, query), query) <=> Precedes(Border, u, query))
    <3> SUFFICES ASSUME goesOn PROVE AfterCursor(u, encodeCursorV2(Border, query), query) <=> Precedes(Border, u, query)
      OBVIOUS
    <3>1. record[Border].ts % TicksPerSecond # 0 => Second(record[u].ts) # Second(record[Border].ts)
      BY <1>14 DEF cut
    <3> QED
      BY <1>2, <1>7, <1>14, <2>1, <3>1, CursorDivides DEF RecordSound
  <2>7. goesOn => (Passed(u)' <=> ~Precedes(Border, u, query))
    <3>1. goesOn => step = "fetch" /\ cursor # <<>> /\ cursor[1] = encodeCursorV2(Border, query)
      BY DEF step, cursor
    <3> QED
      BY <2>5, <2>6, <3>1
  <2>8. CASE u \notin All
    <3>1. Passed(u) /\ u \notin On
      BY <1>1, <2>4, <2>8
    <3>2. Pages(u)' = Pages(u) /\ \E i \in DOMAIN walk.got : Pages(u) = {i}
      BY <2>2, <2>3, <3>1 DEF Placed
    <3>3. Passed(u)'
      <4>1. CASE goesOn
        <5>1. walk.cursor # <<>> /\ ~AfterCursor(u, walk.cursor[1], query) /\ walk.cursor[1] \in Cursors
          BY <1>4, <1>5, <2>1, <2>8
        <5>2. Border \in Uris /\ AfterCursor(Border, walk.cursor[1], query)
          BY <1>1, <1>5, <1>7, <4>1, <5>1 DEF goesOn
        <5>3. ~Precedes(Border, u, query)
          BY <1>2, <1>14, <2>1, <5>1, <5>2, CursorOnward DEF RecordSound, Cursors
        <5> QED
          BY <2>7, <4>1, <5>3
      <4>2. CASE ~goesOn
        <5>1. cursor = walk.cursor
          BY <4>2 DEF cursor
        <5> QED
          BY <1>1, <2>5, <3>1, <5>1 DEF Passed
      <4> QED
        BY <4>1, <4>2
    <3>4. DOMAIN walk.got \subseteq DOMAIN walk'.got
      BY <1>4, <1>7, <1>11
    <3> QED
      BY <3>2, <3>3, <3>4 DEF Placed
  <2>9. CASE u \in All
    <3>1. Pages(u) = {}
      BY <2>2, <2>4, <2>9 DEF Placed
    <3>2. CASE u \in On
      <4>1. Pages(u)' = {Len(walk.got) + 1} /\ Len(walk.got) + 1 \in DOMAIN walk'.got
        BY <1>4, <1>7, <1>11, <2>3, <3>1, <3>2
      <4>2. Edges # <<>>
        BY <1>1, <3>2
      <4>3. Passed(u)'
        BY <1>1, <2>5, <2>7, <3>2, <4>2 DEF goesOn, step
      <4> QED
        BY <4>1, <4>3 DEF Placed
    <3>3. CASE u \notin On
      <4>1. More /\ Pages(u)' = {}
        BY <1>1, <2>1, <2>3, <2>9, <3>1, <3>3
      <4>2. ~Passed(u)'
        <5>1. CASE goesOn
          BY <1>1, <2>1, <2>7, <2>9, <3>3, <5>1 DEF goesOn
        <5>2. CASE ~goesOn
          BY <2>4, <2>5, <2>9, <4>1, <5>2 DEF step, cursor, Passed
        <5> QED
          BY <5>1, <5>2
      <4> QED
        BY <4>1, <4>2 DEF Placed
    <3> QED
      BY <3>2, <3>3
  <2> QED
    BY <2>8, <2>9
<1>15. \A u : Second(record[u].ts)' = Second(record[u].ts)
  BY <1>1, Untouched
<1> QED
  BY <1>1, <1>2, <1>11, <1>12, <1>13, <1>14, <1>15 DEF PagesInv, Walking

LEMMA SameViewKeeps ==
    ASSUME PagesInv, UNCHANGED <<record, pds, query, walk, now, labels>>
    PROVE  PagesInv'
<1>1. RecordSound' /\ query' \in Queries
  BY DEF PagesInv, RecordSound
<1>2. \A u : (Pages(u)' = Pages(u)) /\ (Passed(u)' <=> Passed(u))
  BY Untouched DEF Pages, Passed
<1>3. \A u : Placed(u) => Placed(u)'
  BY <1>2 DEF Placed
<1>4. \A u : (Shown(u, query)' <=> Shown(u, query)) /\ Second(record[u].ts)' = Second(record[u].ts)
  BY Untouched
<1>5. ASSUME Walking PROVE Walking'
  BY <1>3, <1>4, <1>5, SameWanted DEF Walking
<1> QED
  BY <1>1, <1>5 DEF PagesInv

\* Writes leave versions in the table that it may come to have.
LEMMA WriteSoundly ==
    ASSUME RecordSound, now \in Nat, WriteNext
    PROVE  RecordSound' /\ query' = query
<1>1. ASSUME NEW u \in Uris, NEW v \in Bodies[u], InsertWithParams(u, v) PROVE RecordSound' /\ query' = query
  <2>1. record' = [record EXCEPT ![u] = [v |-> v, ts |-> now]] /\ query' = query
    BY <1>1 DEF InsertWithParams
  <2>2. [v |-> v, ts |-> now] \in Stored /\ v \in Versions(u) /\ u \in Changing
    BY PagesAssumption DEF Stored, Versions, Changing
  <2> QED
    BY <2>1, <2>2 DEF RecordSound
<1>2. ASSUME NEW u \in Uris, Bodies[u] # {}, DeleteRecord(u) PROVE RecordSound' /\ query' = query
  <2>1. record' = [record EXCEPT ![u] = NoRow] /\ query' = query
    BY <1>2 DEF DeleteRecord
  <2>2. NoRow \in Stored /\ NoRow.v \in Versions(u) /\ u \in Changing
    BY <1>2 DEF Stored, Versions, Changing, NoRow
  <2> QED
    BY <2>1, <2>2 DEF RecordSound
<1>3. ASSUME NEW d \in Dids, NEW e \in Endpoints, ResolvePDS(d, e) PROVE RecordSound' /\ query' = query
  BY <1>3 DEF ResolvePDS, RecordSound
<1> QED
  BY <1>1, <1>2, <1>3 DEF WriteNext

LEMMA PagesInvInit == Init => PagesInv
<1> SUFFICES ASSUME Init PROVE PagesInv
  OBVIOUS
<1>1. record \in Rows0 /\ query \in Queries
  BY PagesAssumption DEF Init, PagesInit, Relevant
<1>2. RecordSound
  BY <1>1, PagesAssumption DEF RecordSound, Versions
<1> QED
  BY <1>1, <1>2 DEF Init, PagesInit, PagesInv

LEMMA PagesInvStep ==
    ASSUME PagesInv, LabelsInv, [Next]_vars
    PROVE  PagesInv'
<1>1. RecordSound /\ now \in Nat
  BY LabelsAssumption DEF PagesInv, LabelsInv, Clock
<1>2. CASE ReadNext /\ UNCHANGED <<now, labelVars>>
  BY <1>2, StartWalkKeeps, FetchPageKeeps, FetchFailsKeeps DEF ReadNext, labelVars
<1>3. CASE WriteNext /\ KeepSteady
  BY <1>1, <1>3, WriteSoundly, KeepSteadyKeeps
<1>4. CASE UNCHANGED <<record, query>> /\ KeepSteady
  BY <1>1, <1>4, KeepSteadyKeeps DEF RecordSound
<1>5. CASE UNCHANGED <<now, labels, pageVars>>
  BY <1>5, SameViewKeeps DEF pageVars
<1>6. CASE Restart
  BY <1>5, <1>6 DEF Restart, LabelsCrash
<1>7. CASE Tick
  BY <1>4, <1>7 DEF Tick
<1> QED
  BY <1>2, <1>3, <1>4, <1>5, <1>6, <1>7 DEF Next, vars, labelVars

LEMMA PagesHold == PagesInv => WalkExact
<1> SUFFICES ASSUME PagesInv, walk.step \notin {"idle", "refused"}
             PROVE  /\ ~walk.stray
                    /\ query.sort = "indexed_at" =>
                        \A u \in walk.steady : Second(record[u].ts) \notin walk.cut =>
                            /\ Cardinality(Pages(u)) <= 1
                            /\ walk.step = "done" => Cardinality(Pages(u)) = 1
  BY DEF WalkExact
<1>1. Walking
  BY DEF PagesInv, NoWalk
<1>2. ASSUME NEW u, Placed(u)
      PROVE  Cardinality(Pages(u)) <= 1 /\ (walk.step = "done" => Cardinality(Pages(u)) = 1)
  <2>1. CASE Passed(u)
    <3>1. PICK i : Pages(u) = {i}
      BY <1>2, <2>1 DEF Placed
    <3>2. Cardinality(Pages(u)) = 1
      BY <3>1, FS_Singleton, Zenon
    <3> QED
      BY <3>2
  <2>2. CASE ~Passed(u)
    <3>1. Pages(u) = {} /\ walk.step # "done"
      BY <1>2, <2>2 DEF Placed, Passed
    <3> QED
      BY <3>1, FS_EmptySet
  <2> QED
    BY <2>1, <2>2
<1> QED
  BY <1>1, <1>2 DEF Walking

-----------------------------------------------------------------------------
(* The whole: every step is one of each component, or leaves it alone.     *)

LEMMA StepOfParts ==
    ASSUME [Next]_vars
    PROVE  /\ [LabelsStep]_<<now, labelVars>>
           /\ [LexiconStep]_lexiconVars
           /\ [AdminStep]_adminVars
<1>1. CASE Restart
  BY <1>1 DEF Restart, LabelsStep, LexiconStep, AdminStep
<1>2. CASE Tick
  BY <1>2 DEF Tick, LabelsStep
<1>3. CASE ~Restart /\ ~Tick
  BY <1>3 DEF Next, vars, LabelsStep, LexiconStep, AdminStep
<1> QED
  BY <1>1, <1>2, <1>3

\* Whatever the other components do, labels and reports change as they do by
\* themselves (main.go wires them to one database and one process).
THEOREM ServesLabels == Spec => LabelsSpec
<1>1. Init => LabelsInit /\ now = 0
  BY DEF Init
<1>2. [Next]_vars => [LabelsStep]_<<now, labelVars>>
  BY StepOfParts
<1> QED
  BY <1>1, <1>2, PTL DEF Spec, LabelsSpec

\* The same for lexicons, with the restarts that an upload asks for.
THEOREM ServesLexicons == Spec => LexiconSpec
<1>1. Init => LexiconInit
  BY DEF Init
<1>2. [Next]_vars => [LexiconStep]_lexiconVars
  BY StepOfParts
<1> QED
  BY <1>1, <1>2, PTL DEF Spec, LexiconSpec

\* The same for the list of administrators and the settings.
THEOREM ServesSettings == Spec => AdminSpec
<1>1. Init => AdminInit
  BY DEF Init
<1>2. [Next]_vars => [AdminStep]_adminVars
  BY StepOfParts
<1> QED
  BY <1>1, <1>2, PTL DEF Spec, AdminSpec

\* Paging is exact: a record that meets the query throughout and is not touched is on
\* exactly one page of a connection (resolveRecordConnection, GetByCollectionFiltered),
\* no page has a record that does not meet it, and a list (GetPaginated) has each of
\* its rows once.  For any table, query, page size, order of URIs and where filter whose
\* SQL selects what its input asks for, and whatever is written, labelled, resolved,
\* uploaded or restarted between two pages.
THEOREM PagingCorrect == Spec => []PagingExact
<1>1. Init => LabelsInv /\ ListInv /\ PagesInv
  BY LabelsInitInv, ListInvInit, PagesInvInit DEF Init
<1>2. LabelsInv /\ ListInv /\ PagesInv /\ [Next]_vars => LabelsInv' /\ ListInv' /\ PagesInv'
  <2> SUFFICES ASSUME LabelsInv, ListInv, PagesInv, [Next]_vars PROVE LabelsInv' /\ ListInv' /\ PagesInv'
    OBVIOUS
  <2>1. [LabelsStep]_<<now, labelVars>>
    BY StepOfParts
  <2>2. LabelsInv'
    BY <2>1, LabelsStepInv
  <2> QED
    BY <2>1, <2>2, ListInvStep, PagesInvStep
<1>3. ListInv /\ PagesInv => PagingExact
  BY ListHolds, PagesHold DEF PagingExact
<1> QED
  BY <1>1, <1>2, <1>3, PTL DEF Spec

\* What the components promise by themselves holds of the whole, in which they share
\* the database, the clock and the process: labels, reports, lexicons, administrators.
THEOREM ServeCorrect == Spec => [](LabelView /\ ResolvedApplied /\ SchemaBuilds /\ ServedWhole /\ AdminRemains)
BY ServesLabels, ServesLexicons, ServesSettings, ViewCorrect, ResolvedCorrect, UploadsBuild, SchemaWhole, AdminAlwaysRemains, PTL
=============================================================================
