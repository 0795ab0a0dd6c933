------------------------------- MODULE Where --------------------------------
(***************************************************************************)
(* The `where` argument of the record queries: the extractor               *)
(* (internal/graphql/schema/where.go) turns the GraphQL input into a tree  *)
(* of filters, the builder (internal/database/repositories/filter.go)      *)
(* turns the tree into an SQL condition.  Nothing here has state.          *)
(*                                                                         *)
(* An input maps field names to conditions: _and and _or to sequences of   *)
(* inputs, every other name to a map from operators to values.             *)
(***************************************************************************)
EXTENDS RecordData, Integers, Sequences, FiniteSets
LOCAL INSTANCE Functions

CONSTANTS
    MaxFilterDepth,      \* 3 in the code
    MaxFilterConditions, \* 20 in the code
    MaxInListSize,       \* 50 in the code
    MinContainsLength,   \* 3 in the code
    MaxArrayContributorScan \* 200 in the code

\* SQL's three truth values, and "E": evaluating the condition fails the query.
Both(vs)   == IF "F" \in vs THEN "F" ELSE IF "E" \in vs THEN "E" ELSE IF "N" \in vs THEN "N" ELSE "T"
Either(vs) == IF "T" \in vs THEN "T" ELSE IF "E" \in vs THEN "E" ELSE IF "N" \in vs THEN "N" ELSE "F"
Exists(vs) == IF "T" \in vs THEN "T" ELSE IF "E" \in vs THEN "E" ELSE "F"
Truth(b)   == IF b THEN "T" ELSE "F"

-----------------------------------------------------------------------------
(* The registries of nested and lexicon-specific conditions.               *)

Joined == {<<"badge.award", "badge">>}
Target == "badge.definition"
Arrays == {<<"collection", "items">>}
DIDOnly ==
    [k \in {<<"claim.activity", "contributor">>, <<"badge.award", "subject">>, <<"graph.follow", "subject">>} |->
        CASE k[1] = "claim.activity" -> "KindArrayContributor"
          [] k[1] = "badge.award"    -> "KindUnionSubject"
          [] k[1] = "graph.follow"   -> "KindStringSubject"]

Leaf(field, op, value, type, kind) ==
    [field |-> field, op |-> op, value |-> value, isJSON |-> field # "did", type |-> type, kind |-> kind]

InListShape(list) == Len(list) \in 1 .. MaxInListSize /\ \A i \in DOMAIN list : list[i].type # "object"

Validate(f) ==
    CASE f.op = "contains"      -> f.value.type = "string" /\ Text.size[f.value.text] >= MinContainsLength
      [] f.op = "startsWith"    -> f.value.type = "string" /\ Text.size[f.value.text] >= 1
      [] f.op = "in"            -> InListShape(f.value)
      [] f.op = "eqi"           -> f.value.type = "string" /\ f.isJSON
      [] f.op = "ini"           -> InListShape(f.value) /\ f.isJSON
      [] f.op = "eq" /\ f.isJSON -> f.value.type # "object"
      [] OTHER                  -> TRUE

Operators == {"eq", "eqi", "neq", "gt", "lt", "gte", "lte", "in", "ini", "contains", "startsWith"}

\* The operators on one field become one filter each; an unknown one is ignored.
OperatorFilters(field, ops, type) ==
    {Leaf(field, op, ops[op], type, "KindScalar") : op \in DOMAIN ops \cap (Operators \cup {"isNull"})}

\* DID-only conditions take eq, or else in, and nothing but well-formed DIDs.
DIDValid(v) == v.type = "string" /\ v.text \in Text.dids
buildDIDOnlyEqInFilter(kind, field, ops) ==
    IF "eq" \in DOMAIN ops
    THEN [bad |-> ~DIDValid(ops["eq"]), filters |-> {Leaf(field, "eq", ops["eq"], "", kind)}]
    ELSE IF "in" \in DOMAIN ops
    THEN [bad |-> Len(ops["in"]) \notin 1 .. MaxInListSize \/ \E i \in DOMAIN ops["in"] : ~DIDValid(ops["in"][i]),
          filters |-> {Leaf(field, "in", ops["in"], "", kind)}]
    ELSE [bad |-> TRUE, filters |-> {}]

\* A strongRef inside an array element: one filter per subfield and operator.
StrongRefPath(field, key) == field \o "__" \o key
extractStrongRefFilter(field, keys) ==
    LET known == DOMAIN keys \cap {"uri", "cid"} IN
    [bad |-> known # DOMAIN keys \/ \E k \in known : ~(DOMAIN keys[k] \subseteq {"eq", "in"}),
     filters |-> UNION {OperatorFilters(StrongRefPath(field, k), keys[k], "string") : k \in known}]

-----------------------------------------------------------------------------
(* The extractor.                                                          *)

Group(op, filters, children, joined, arrays, bad) ==
    [op |-> op, filters |-> filters, children |-> children, joined |-> joined, arrays |-> arrays, bad |-> bad]
Rejected == Group("AND", {}, <<>>, {}, {}, TRUE)

\* The element of an array property as a lexicon of its own, in no registry.
makeElementPseudoLexicon(lex, field) ==
    LET elem == Lexicons[lex].elems[field] IN [id |-> "#item", props |-> elem.props, refs |-> elem.refs]
Lexicon(id) == [id |-> id, props |-> Lexicons[id].props, refs |-> {}]

Children(op, items) == Group(op, {}, items, {}, {}, \E i \in DOMAIN items : items[i].bad)

\* One level of the tree: parts are the DID-only and strongRef conditions.
Assemble(scalars, parts, children, joined, arrays) ==
    LET leaves == scalars \cup UNION {p.filters : p \in parts} IN
    Group("AND", leaves, children, joined, arrays,
          \/ \E p \in parts : p.bad
          \/ \E f \in leaves : ~Validate(f)
          \/ \E i \in DOMAIN children : children[i].bad
          \/ \E j \in joined : Target \notin DOMAIN Lexicons \/ j.inner.bad \/ j.inner.joined # {}
          \/ \E a \in arrays : a.inner.bad \/ a.inner.arrays # {})

EffectiveType(lex, f) == IF f \in DOMAIN lex.props THEN lex.props[f] ELSE ""

\* The tree of filters for input where against lexicon lex; bad marks an input
\* that is refused.  Fields of an array element that its lexicon does not know are
\* skipped, strongRefs are split before the operators are looked at.
RECURSIVE extractFieldFiltersRecursive(_, _, _)
extractFieldFiltersRecursive(where, lex, depth) ==
    LET fields      == DOMAIN where \ {"_and", "_or"}
        Listed(reg) == {f \in fields : <<lex.id, f>> \in reg}
        special     == Listed(DOMAIN DIDOnly)
        Scalar(f)   == f \notin Listed(Joined) \cup Listed(Arrays) \cup special \cup lex.refs
                          /\ (lex.id = "#item" => f \in DOMAIN lex.props)
        Inner(input, l) == extractFieldFiltersRecursive(input, l, depth + 1)
        Items(f)    == [i \in DOMAIN where[f] |-> Inner(where[f][i], lex)]
        ops         == SelectSeq(<<"_and", "_or">>, LAMBDA f : f \in DOMAIN where)
    IN IF depth > MaxFilterDepth THEN Rejected
       ELSE Assemble(
              UNION {OperatorFilters(f, where[f], EffectiveType(lex, f)) : f \in {f \in fields : Scalar(f)}},
              {buildDIDOnlyEqInFilter(DIDOnly[<<lex.id, f>>], f, where[f]) : f \in special}
                  \cup {extractStrongRefFilter(f, where[f]) : f \in fields \cap lex.refs},
              [i \in DOMAIN ops |-> Children(IF ops[i] = "_or" THEN "OR" ELSE "AND", Items(ops[i]))],
              {[field |-> f, inner |-> Inner(where[f], Lexicon(Target))] : f \in Listed(Joined)},
              {[field |-> f, inner |-> Inner(where[f], makeElementPseudoLexicon(lex.id, f))] : f \in Listed(Arrays)})

extractFieldFilters(where, collection) == extractFieldFiltersRecursive(where, Lexicon(collection), 0)

-----------------------------------------------------------------------------
(* The builder: what it refuses, and what the SQL it emits evaluates to.   *)

IsEmpty(g) == g.filters = {} /\ g.children = <<>> /\ g.joined = {} /\ g.arrays = {}

RECURSIVE CountConditions(_)
CountConditions(g) ==
    Cardinality(g.filters)
        + FoldFunction(+, 0, [i \in DOMAIN g.children |-> CountConditions(g.children[i])])
        + FoldFunction(+, 0, [j \in g.joined \cup g.arrays |-> CountConditions(j.inner)])

\* The composed group and each of its items are a level each, so that one level
\* of _and or _or in the input is two here; a subquery starts again at 0.
RECURSIVE Builds(_, _, _)
Builds(g, depth, alias) ==
    /\ depth <= MaxFilterDepth
    /\ IsEmpty(g) \/
        /\ \A f \in g.filters : Validate(f) /\ (f.kind # "KindScalar" => alias = "r")
        /\ \A i \in DOMAIN g.children : Builds(g.children[i], depth + 1, alias)
        /\ \A j \in g.joined : Builds(j.inner, 0, "d")
        /\ \A a \in g.arrays : Builds(a.inner, 0, "e")

BuildFilterGroupClause(g) == CountConditions(g) <= MaxFilterConditions /\ Builds(g, 0, "r")

\* A group all of whose parts are empty adds no clause to the one around it.
RECURSIVE NoClause(_)
NoClause(g) ==
    g.filters = {} /\ g.joined = {} /\ g.arrays = {} /\ \A i \in DOMAIN g.children : NoClause(g.children[i])

\* ->> and the did column: the text of a value of any type.
jsonExtract(row, f) == IF f.isJSON THEN At(row, f.field).text ELSE row.did

sqlOp(op, a, b) ==
    CASE op = "gt" -> a > b [] op = "lt" -> a < b [] op = "gte" -> a >= b [] op = "lte" -> a <= b

\* Comparison after the cast for the lexicon's type: a text that does not begin as
\* a number does counts as NULL, other texts that do not parse raise an error.
CompareTyped(row, f) ==
    LET t == jsonExtract(row, f)
        In(parsed) == IF t \in DOMAIN parsed THEN Truth(sqlOp(f.op, parsed[t], parsed[f.value.text])) ELSE "E"
    IN IF t = Null THEN "N"
       ELSE CASE f.type \in {"integer", "number"} -> IF t \in Text.digits THEN In(Text.num) ELSE "N"
              [] f.type = "datetime"              -> In(Text.time)
              [] OTHER                            -> Truth(sqlOp(f.op, Text.rank[t], Text.rank[f.value.text]))

InValues(list) == {list[i].text : i \in DOMAIN list} \ {Null}
HasNull(list)  == \E i \in DOMAIN list : list[i].type = "null"
AnyOf(t, texts, orNull) == IF t = Null THEN (IF orNull THEN "T" ELSE "N") ELSE Truth(t \in texts)
Folded(t) == IF t = Null THEN Null ELSE Text.fold[t]

\* The elements of an array field; anything but an array has none.
Elements(row, field) ==
    LET v == At(row, field) IN IF v.type = "array" THEN {[json |-> v.elems[i]] : i \in DOMAIN v.elems} ELSE {}

\* record_contributor_identities, a function of the schema: over-long lists count as none.
Identities(row) ==
    LET v == At(row, "contributors") IN
    IF v.type # "array" \/ Len(v.elems) > MaxArrayContributorScan THEN {}
    ELSE {At(e, "contributorIdentity").text : e \in Elements(row, "contributors")} \ {Null}
DIDTexts(f) == IF f.op = "eq" THEN {f.value.text} ELSE InValues(f.value)
DIDFilter(row, f) ==
    CASE f.kind = "KindArrayContributor" -> Truth(Identities(row) \cap DIDTexts(f) # {})
      [] f.kind = "KindUnionSubject"     -> AnyOf(At(row, "subject_did").text, DIDTexts(f), FALSE)
      [] f.kind = "KindStringSubject"    -> AnyOf(At(row, "subject").text, DIDTexts(f), FALSE)

\* neq also takes the records without the field.
NotEqual(row, f) ==
    LET t == jsonExtract(row, f) IN Either({IF t = Null THEN "N" ELSE Truth(t # f.value.text), Truth(t = Null)})

\* eq on JSON is typed containment, the other operators look at the text.
buildSingleFilter(row, f) ==
    LET t == jsonExtract(row, f) IN
    CASE f.kind # "KindScalar"  -> DIDFilter(row, f)
      [] f.op = "isNull"        -> Truth(f.value = (t = Null))
      [] f.op = "eq" /\ f.isJSON -> Truth(At(row, f.field) = f.value /\ f.field \in DOMAIN row.json)
      [] f.op = "eq"            -> Truth(t = f.value.text)
      [] f.op = "neq"           -> NotEqual(row, f)
      [] f.op \in {"gt", "lt", "gte", "lte"} -> CompareTyped(row, f)
      [] f.op = "in"            -> AnyOf(t, InValues(f.value), HasNull(f.value))
      [] f.op = "eqi"           -> AnyOf(Folded(t), {Text.fold[f.value.text]}, FALSE)
      [] f.op = "ini"           -> AnyOf(Folded(t), {Text.fold[x] : x \in InValues(f.value)}, HasNull(f.value))
      [] f.op = "contains"      -> IF t = Null THEN "N" ELSE Truth(<<f.value.text, t>> \in Text.within)
      [] f.op = "startsWith"    -> IF t = Null THEN "N" ELSE Truth(<<f.value.text, t>> \in Text.begins)

\* The value of the SQL for group g on row, where rows is the record table.
RECURSIVE Clause(_, _, _)
Clause(g, row, rows) ==
    LET Within(inner, r) == IF NoClause(inner) THEN "T" ELSE Clause(inner, r, rows)
        clauses ==
            {buildSingleFilter(row, f) : f \in g.filters}
                \cup {Clause(g.children[i], row, rows) : i \in {i \in DOMAIN g.children : ~NoClause(g.children[i])}}
                \cup {Exists({Within(j.inner, d) : d \in
                          {d \in rows : d.collection = Target /\ d.uri = At(row, "badge__uri").text}}) : j \in g.joined}
                \cup {Exists({Within(a.inner, e) : e \in Elements(row, a.field)}) : a \in g.arrays}
    IN IF g.op = "OR" THEN Either(clauses) ELSE Both(clauses)

WhereClause(g, row, rows) == IF NoClause(g) THEN "T" ELSE Clause(g, row, rows)

\* Whether some part of the condition fails on row: SQL evaluates AND and OR in any
\* order, so that the query may then fail even where the rest decides.
RECURSIVE Raises(_, _, _)
Raises(g, row, rows) ==
    \/ \E f \in g.filters : buildSingleFilter(row, f) = "E"
    \/ \E i \in DOMAIN g.children : Raises(g.children[i], row, rows)
    \/ \E j \in g.joined : \E d \in rows : d.collection = Target /\ Raises(j.inner, d, rows)
    \/ \E a \in g.arrays : \E e \in Elements(row, a.field) : Raises(a.inner, e, rows)

-----------------------------------------------------------------------------
(* What an input says, read off the input itself.                          *)

Says(where) == DOMAIN where # {}

\* One operator on the value v of a field of the given type.
Means(op, arg, v, type) ==
    CASE op = "isNull"     -> arg <=> v.text = Null
      [] op = "eq"         -> v = arg
      [] op = "neq"        -> v.text # arg.text
      [] op = "in"         -> \E i \in DOMAIN arg : v.text = arg[i].text
      [] op = "eqi"        -> v.text # Null /\ Text.fold[v.text] = Text.fold[arg.text]
      [] op = "ini"        -> \E i \in DOMAIN arg : Folded(v.text) = Folded(arg[i].text)
      [] op = "contains"   -> <<arg.text, v.text>> \in Text.within
      [] op = "startsWith" -> <<arg.text, v.text>> \in Text.begins
      [] OTHER ->
            LET scale == CASE type \in {"integer", "number"} -> Text.num [] type = "datetime" -> Text.time [] OTHER -> Text.rank
            IN v.text \in DOMAIN scale /\ sqlOp(op, scale[v.text], scale[arg.text])

MeansDID(kind, ops, row) ==
    LET wanted == IF "eq" \in DOMAIN ops THEN {ops["eq"].text} ELSE {ops["in"][i].text : i \in DOMAIN ops["in"]}
        named  == CASE kind = "KindArrayContributor" -> Identities(row)
                    [] kind = "KindUnionSubject"     -> {At(row, "subject_did").text}
                    [] kind = "KindStringSubject"    -> {At(row, "subject").text}
    IN wanted \cap named # {}

\* A record meets an input when it meets each of its conditions; a composition
\* whose items say nothing asks for nothing.
RECURSIVE Meets(_, _, _, _)
Meets(where, lex, row, rows) ==
    \A f \in DOMAIN where :
        CASE f = "_and" -> \A i \in DOMAIN where[f] : Meets(where[f][i], lex, row, rows)
          [] f = "_or"  -> \/ \A i \in DOMAIN where[f] : ~Says(where[f][i])
                           \/ \E i \in DOMAIN where[f] : Says(where[f][i]) /\ Meets(where[f][i], lex, row, rows)
          [] <<lex.id, f>> \in Joined ->
                \E d \in rows : d.collection = Target /\ d.uri = At(row, "badge__uri").text /\ Meets(where[f], Lexicon(Target), d, rows)
          [] <<lex.id, f>> \in Arrays ->
                \E e \in Elements(row, f) : Meets(where[f], makeElementPseudoLexicon(lex.id, f), e, rows)
          [] <<lex.id, f>> \in DOMAIN DIDOnly -> MeansDID(DIDOnly[<<lex.id, f>>], where[f], row)
          [] f \in lex.refs ->
                \A k \in DOMAIN where[f] : \A op \in DOMAIN where[f][k] :
                    Means(op, where[f][k][op], At(row, StrongRefPath(f, k)), "string")
          [] OTHER ->
                \A op \in DOMAIN where[f] :
                    Means(op, where[f][op],
                          IF f = "did" THEN [type |-> "string", text |-> row.did] ELSE At(row, f),
                          EffectiveType(lex, f))
MeetsInput(where, collection, row, rows) == Meets(where, Lexicon(collection), row, rows)
=============================================================================
