------------------------------- MODULE MCServe -------------------------------
EXTENDS Serve, Where, TLC

None == [walk |-> 0, write |-> 0, host |-> 0, deliver |-> 0, moderate |-> 0, define |-> 0, report |-> 0,
         resolve |-> 0, list |-> 0, lexicon |-> 0, admin |-> 0, tick |-> 0, fault |-> 0, crash |-> 0]

\* One choice per question: pages while records, labels or hosts change; labels in any
\* order; administrators on labels and reports, with a failure or a crash; their lists;
\* lexicons with a failure or a crash; settings with a failure or a crash.
MCQuotas == {
    [None EXCEPT !.walk = 1, !.write = 2, !.tick = 1],
    [None EXCEPT !.walk = 1, !.deliver = 1, !.host = 1, !.tick = 1],
    [None EXCEPT !.deliver = 4, !.tick = 2],
    [None EXCEPT !.deliver = 1, !.moderate = 2, !.define = 1, !.tick = 2, !.fault = 1],
    [None EXCEPT !.report = 2, !.resolve = 2, !.moderate = 1, !.fault = 1, !.crash = 1],
    [None EXCEPT !.deliver = 3, !.report = 2, !.list = 1],
    [None EXCEPT !.lexicon = 3],
    [None EXCEPT !.lexicon = 2, !.crash = 1, !.fault = 1],
    [None EXCEPT !.admin = 3, !.fault = 1],
    [None EXCEPT !.admin = 2, !.crash = 1] }

-----------------------------------------------------------------------------
(* Texts, lexicons and records.                                            *)

Tokens == {"Forest", "forest", "rest", "x", "9", "10", "9x", "t1", "t2", "did:a", "did:b", "did:c", "d1", "d2"}
Rank == [t \in Tokens |->
    CASE t = "10" -> 1 [] t = "9" -> 2 [] t = "9x" -> 3 [] t = "Forest" -> 4 [] t = "d1" -> 5 [] t = "d2" -> 6
      [] t = "did:a" -> 7 [] t = "did:b" -> 8 [] t = "did:c" -> 9 [] t = "forest" -> 10 [] t = "rest" -> 11
      [] t = "t1" -> 12 [] t = "t2" -> 13 [] t = "x" -> 14]
Fold == [t \in Tokens |-> IF t = "Forest" THEN "forest" ELSE t]
MCText ==
    [fold   |-> Fold,
     within |-> {<<t, t>> : t \in Tokens} \cup
                {<<"rest", "forest">>, <<"rest", "Forest">>, <<"forest", "Forest">>, <<"Forest", "forest">>},
     begins |-> {<<t, t>> : t \in Tokens} \cup {<<"forest", "Forest">>, <<"Forest", "forest">>, <<"9", "9x">>},
     size   |-> [t \in Tokens |-> IF t \in {"Forest", "forest"} THEN 6 ELSE IF t = "rest" THEN 4 ELSE 2],
     digits |-> {"9", "10", "9x"},
     num    |-> ("9" :> 9) @@ ("10" :> 10),
     time   |-> ("t1" :> 1) @@ ("t2" :> 2),
     rank   |-> Rank,
     dids   |-> {"did:a", "did:b", "did:c"}]

Schema(props, elems, required) == [props |-> props, elems |-> elems, required |-> required]
MCLexicons ==
    ("claim.activity" :> Schema(("title" :> "string") @@ ("count" :> "integer") @@ ("at" :> "datetime"), <<>>, {"title"})) @@
    ("badge.award" :> Schema("note" :> "string", <<>>, {})) @@
    ("badge.definition" :> Schema("title" :> "string", <<>>, {})) @@
    ("collection" :> Schema("title" :> "string",
        "items" :> [props |-> "weight" :> "integer", refs |-> {"item"}], {})) @@
    ("graph.follow" :> Schema("subject" :> "did", <<>>, {"subject"}))

Str(t) == [type |-> "string", text |-> t]
Num(t) == [type |-> "number", text |-> t]
Contributors(ds) == [type |-> "array", text |-> "x", elems |-> [i \in DOMAIN ds |-> "contributorIdentity" :> Str(ds[i])]]
Item(uri, weight) == ("item__uri" :> Str(uri)) @@ ("weight" :> weight)
MCBody ==
    ("v1" :> [json |-> ("title" :> Str("Forest")) @@ ("count" :> Num("10")) @@ ("at" :> Str("t1"))
                          @@ ("contributors" :> Contributors(<<"did:a", "did:b">>)), words |-> {"forest"}]) @@
    ("v2" :> [json |-> ("title" :> Str("forest")) @@ ("count" :> Num("9")) @@ ("at" :> Str("t2"))
                          @@ ("contributors" :> Contributors(<<"did:a", "did:b", "did:c">>)), words |-> {"forest"}]) @@
    ("v3" :> [json |-> ("title" :> JSONNull) @@ ("count" :> Str("x")) @@ ("at" :> Str("t1")), words |-> {}]) @@
    ("v4" :> [json |-> ("title" :> Num("9")) @@ ("count" :> Str("9x")) @@ ("at" :> Str("t2")), words |-> {}]) @@
    ("award1" :> [json |-> ("badge__uri" :> Str("d1")) @@ ("subject_did" :> Str("did:b")), words |-> {}]) @@
    ("award2" :> [json |-> ("badge__uri" :> Str("d2")) @@ ("note" :> Str("rest")), words |-> {}]) @@
    ("def" :> [json |-> "title" :> Str("Forest"), words |-> {}]) @@
    ("coll" :> [json |-> "items" :> [type |-> "array", text |-> "x",
                    elems |-> <<Item("d1", Num("10")), Item("d2", Num("9"))>>], words |-> {}]) @@
    ("follow" :> [json |-> "subject" :> Str("did:b"), words |-> {}])

MCUris == {"p1", "p2", "p3", "p4", "w1", "w2", "d1", "c1", "f1"}
MCSubjects == {"p1", "p2"}
MCOwner == [u \in MCUris |-> IF u \in {"p1", "p3", "w1"} THEN "did:a" ELSE "did:b"]
MCCollection == [u \in MCUris |->
    CASE u \in {"p1", "p2", "p3", "p4"} -> "claim.activity" [] u \in {"w1", "w2"} -> "badge.award"
      [] u = "d1" -> "badge.definition" [] u = "c1" -> "collection" [] u = "f1" -> "graph.follow"]
MCUriRank == [u \in MCUris |->
    CASE u = "p1" -> 1 [] u = "p2" -> 2 [] u = "p3" -> 3 [] u = "p4" -> 4 [] u = "w1" -> 5 [] u = "w2" -> 6
      [] u = "d1" -> 7 [] u = "c1" -> 8 [] u = "f1" -> 9]
MCBodies == [u \in MCUris |-> IF u \in {"p1", "p4"} THEN {"v1", "v4"} ELSE {}]

Fixed == [u \in {"w1", "w2", "d1", "c1", "f1"} |->
    [ts |-> 2, v |-> CASE u = "w1" -> "award1" [] u = "w2" -> "award2" [] u = "d1" -> "def"
                       [] u = "c1" -> "coll" [] u = "f1" -> "follow"]]
Posts(t1, t2, t3) ==
    ("p1" :> [v |-> "v1", ts |-> t1]) @@ ("p2" :> [v |-> "v2", ts |-> t2]) @@ ("p3" :> [v |-> "v3", ts |-> t3])
        @@ ("p4" :> NoRow) @@ Fixed
\* Distinct seconds; one second, on its tick; one second, off it.
MCRows == {Posts(0, 2, 4), Posts(2, 2, 2), Posts(3, 2, 3)}

-----------------------------------------------------------------------------
(* Queries.                                                                *)

Q == [collection |-> "claim.activity", typed |-> FALSE, where |-> <<>>, include |-> {}, exclude |-> {}, srcs |-> {},
      authors |-> <<>>, excludePds |-> {}, search |-> Null, sort |-> "indexed_at", dir |-> "DESC",
      args |-> {"first"}, size |-> 1]
On(q, f, op, v) == [q EXCEPT !.where = f :> (op :> v)]
W(f, op, v) == f :> (op :> v)
Paging == {
    Q, [Q EXCEPT !.dir = "ASC"], [Q EXCEPT !.args = {"last"}, !.size = 2], [Q EXCEPT !.args = {"first", "last"}],
    [Q EXCEPT !.size = 0], [Q EXCEPT !.size = 9], [Q EXCEPT !.typed = TRUE, !.size = 2],
    [Q EXCEPT !.sort = "title"], [Q EXCEPT !.sort = "uri", !.dir = "ASC"],
    [Q EXCEPT !.include = {"spam"}], [Q EXCEPT !.exclude = {"spam"}], [Q EXCEPT !.exclude = {"spam"}, !.srcs = {"us"}],
    [Q EXCEPT !.authors = <<{"did:a"}>>], [Q EXCEPT !.authors = <<{}>>], [Q EXCEPT !.excludePds = {"pds1"}],
    [Q EXCEPT !.authors = <<{"did:a", "did:b", "did:c"}>>], [Q EXCEPT !.search = "forest"] }
Fields == {
    On(Q, "title", "eq", Str("Forest")), On(Q, "title", "eq", Num("9")), On(Q, "title", "neq", Str("Forest")),
    On(Q, "title", "eqi", Str("Forest")), On(Q, "title", "in", <<Str("Forest"), JSONNull>>),
    On(Q, "title", "ini", <<Str("Forest")>>), On(Q, "title", "contains", Str("rest")),
    On(Q, "title", "contains", Str("9")), On(Q, "title", "startsWith", Str("forest")),
    On(Q, "title", "isNull", TRUE), On(Q, "title", "in", <<>>), On(Q, "title", "gt", Str("did:a")),
    On(Q, "did", "eq", Str("did:a")), On(Q, "did", "eqi", Str("did:a")), On(Q, "count", "gte", Num("10")),
    On(Q, "count", "lt", Num("10")), On(Q, "at", "lte", Str("t1")), On(Q, "contributor", "eq", Str("did:a")),
    On(Q, "contributor", "in", <<Str("did:b"), Str("x")>>), On(Q, "contributor", "neq", Str("did:a")) }
A == W("title", "eq", Str("Forest"))
B == W("count", "eq", Num("9"))
Composed == {
    [Q EXCEPT !.where = "_or" :> <<A, B>>], [Q EXCEPT !.where = ("_and" :> <<A, <<>> >>) @@ ("_or" :> <<B, <<>> >>)],
    [Q EXCEPT !.where = "_or" :> << <<>> >>], [Q EXCEPT !.where = "_and" :> << "_or" :> <<A, B>> >>],
    [Q EXCEPT !.where = "_or" :> << "_and" :> << "_or" :> <<A>> >> >>],
    [Q EXCEPT !.where = "_or" :> <<A @@ B, A, B>>] }
Nested == {
    [Q EXCEPT !.collection = "badge.award", !.where = "badge" :> A],
    [Q EXCEPT !.collection = "badge.award", !.where = "badge" :> <<>>],
    [Q EXCEPT !.collection = "badge.award", !.where = ("badge" :> A) @@ W("note", "isNull", FALSE)],
    [Q EXCEPT !.collection = "badge.award", !.where = W("subject", "eq", Str("did:b"))],
    [Q EXCEPT !.collection = "graph.follow", !.where = W("subject", "in", <<Str("did:b")>>)],
    [Q EXCEPT !.collection = "collection", !.where = "items" :> W("weight", "gt", Num("9"))],
    [Q EXCEPT !.collection = "collection",
              !.where = "items" :> (("item" :> W("uri", "eq", Str("d1"))) @@ W("weight", "lt", Num("10")))],
    [Q EXCEPT !.collection = "collection", !.where = "items" :> ("item" :> W("uri", "contains", Str("d1")))] }
MCQueries == Paging \cup Fields \cup Composed \cup Nested

-----------------------------------------------------------------------------
(* Labels, lexicons and settings.                                          *)

Asserted == [src |-> "labeler", uri |-> "p1", val |-> "spam", cid |-> NoCID, neg |-> FALSE, cts |-> 1, exp |-> 99]
MCLabelEvents == {
    Asserted, [Asserted EXCEPT !.neg = TRUE, !.cts = 2], [Asserted EXCEPT !.cid = "cid1", !.cts = 3, !.exp = 2],
    [Asserted EXCEPT !.cts = 3], [Asserted EXCEPT !.uri = "p2", !.exp = 1] }

File(id, kind, props, defs) == [id |-> id, parses |-> TRUE, kind |-> kind, props |-> props, defs |-> defs]
Plain == [kind |-> "plain", refs |-> {}]
To(id, d) == [kind |-> "ref", refs |-> {<<id, d>>}]
MCFiles ==
    ("a1" :> File("x.a", "record", {Plain, To("x.b", "d")}, <<>>)) @@
    ("a2" :> File("x.a", "record", {Plain}, <<>>)) @@
    ("b0" :> File("x.b", "defs", {}, "d" :> {})) @@
    ("b1" :> File("x.b", "defs", {}, "d" :> {Plain})) @@
    ("c1" :> File("x.c", "record", {To("x.o", "main")}, <<>>)) @@
    ("c0" :> [File("x.c", "record", {}, <<>>) EXCEPT !.parses = FALSE]) @@
    ("C1" :> File("x.C", "record", {Plain}, <<>>)) @@
    ("h1" :> File("x-h", "record", {Plain}, <<>>)) @@
    ("o1" :> File("x.o", "object", {Plain}, <<>>)) @@
    ("u1" :> File("x.u", "record", {[kind |-> "union", refs |-> {<<"x.b", "d">>, <<"x.o", "main">>}]}, <<>>))
MCNsids == <<"x-h", "x.C", "x.a", "x.b", "x.c", "x.o", "x.u">>
MCTypeName ==
    [r \in {<<MCNsids[i], d>> : i \in DOMAIN MCNsids, d \in {"main", "d"}} |->
        IF r[1] = "x-h" THEN Malformed ELSE IF r = <<"x.C", "main">> THEN <<"x.c", "main">> ELSE r]
MCDir == <<"a1">>
\* The last is what RegisterLexicon leaves when the network has b1 for x.c.
MCTables == { <<>>, "x.c" :> "c1", ("x.b" :> "b0") @@ ("x.c" :> "b1") }
Archive(entries) == [readable |-> TRUE, entries |-> entries]
MCZips == {
    Archive(<<"b0">>), Archive(<<"b0", "b1">>), Archive(<<"c1", Junk>>), Archive(<<"C1">>), Archive(<<"c0">>), Archive(<<"u1", "o1">>),
    Archive(<<"a2">>), Archive(<<"h1">>), Archive(<<"o1", TooLarge>>), Archive(<<Junk>>), [Archive(<<"o1">>) EXCEPT !.readable = FALSE] }
MCPublished == ("x.b" :> {"b0", "b1"}) @@ ("x.c" :> {"c0", "C1"})

MCDIDs == {"did:a", "did:b", "did:c"}
MCBlank == "blank"
List(ds) == [dids |-> ds, extra |-> {}]
MCEnvAdmins == List({"did:a", "did:b"})
MCSettings == {
    "admin_dids" :> List({"did:b", "did:c"}), "admin_dids" :> [List({"did:a"}) EXCEPT !.extra = {"blank"}],
    "admin_dids" :> [List({}) EXCEPT !.extra = {"blank"}],
    ("domain_authority" :> "x") @@ ("admin_dids" :> List({"did:a"})) @@ ("relay_url" :> "bad")
        @@ ("oauth_supported_scopes" :> "x") }

Symmetric == Permutations(Admins) \cup Permutations(Curators) \cup Permutations(Callers)
=============================================================================
