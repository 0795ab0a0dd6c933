---------------------------- MODULE LexiconAdmin -----------------------------
(***************************************************************************)
(* Lexicons: the table, the registry that is filled from a directory and   *)
(* from the table when the process starts (setupGraphQL), the schema that  *)
(* is built from the registry, and the mutations that change the table     *)
(* (admin/resolvers_lexicons.go).  An upload is checked against the live   *)
(* registry before it is stored and asks for a restart; the registry and   *)
(* the schema change with the restart only.                                *)
(*                                                                         *)
(* A lexicon file is [id, parses, kind, props, defs]: kind is record,      *)
(* object or defs, props are the fields of its main definition, defs maps  *)
(* the names of its objects to their fields.  A field is [kind, refs].  A  *)
(* ref is a lexicon id with the name of a definition in it.                *)
(***************************************************************************)
EXTENDS Budget, FiniteSets, Sequences, Functions

\* Entries of an upload that are no lexicons: passed over, or reason to refuse it.
Junk == "junk"
TooLarge == "too large"

CONSTANTS
    Files,         \* name -> lexicon file
    Nsids,         \* the lexicon ids, in order
    Dir,           \* the files of the lexicon directory, in order
    Tables,        \* the tables to begin with: id -> file
    Zips,          \* uploads: [readable, entries], entries are files, Junk or TooLarge
    Published,     \* id -> the files that the network may have for it, for those asked for
    TypeName,      \* ref -> GraphQL type name, or Malformed
    Curators       \* administrators who change lexicons at the same time

ASSUME LexiconAssumption ==
    /\ Dir \in Seq(DOMAIN Files)
    /\ Nsids \in Seq(Range(Nsids)) /\ IsInjective(Nsids)
    /\ \A v \in DOMAIN Files : Files[v].id \in Range(Nsids) /\ IsFiniteSet(DOMAIN Files[v].defs)
    /\ Tables # {} /\ \A t \in Tables : \A id \in DOMAIN t : t[id] \in DOMAIN Files
    /\ \A id \in DOMAIN Published : Published[id] \subseteq DOMAIN Files
    /\ \A z \in Zips : z.entries \in Seq(DOMAIN Files \cup {Junk, TooLarge})

VARIABLES
    lexicons,      \* table lexicon: id -> file
    registry,      \* [lexicons, objects, records]
    mounted,       \* /graphql is served
    subscribed,    \* the collections that the Jetstream consumer asks for
    change,        \* curator -> the mutation under way
    restartCh,     \* a restart is queued
    draining,      \* serve has taken it and lets requests end
    sound          \* history: only uploads that had the table to themselves since it built

lexiconVars == <<lexicons, registry, mounted, subscribed, change, restartCh, draining, sound>>

Gone == "gone"
Malformed == "malformed"
Rest == [step |-> "rest"]
Ids(table) == DOMAIN table
Only(k, v) == [x \in {k} |-> v]
Over(f, g) == [x \in DOMAIN f \cup DOMAIN g |-> IF x \in DOMAIN f THEN f[x] ELSE g[x]]
Drop(f, x) == Restrict(f, DOMAIN f \ {x})

-----------------------------------------------------------------------------
(* The registry.                                                           *)

NewRegistry == [lexicons |-> <<>>, objects |-> <<>>, records |-> <<>>]

\* The definitions of a file: its main one, and the objects.
Refs(f, names) == {<<f.id, d>> : d \in names}
RecordDefs(f) == [r \in Refs(f, IF f.kind = "defs" THEN {} ELSE {"main"}) |-> f.props]
ObjectDefs(f) ==
    [r \in Refs(f, DOMAIN f.defs \cup IF f.kind = "object" THEN {"main"} ELSE {}) |->
        IF r[2] \in DOMAIN f.defs THEN f.defs[r[2]] ELSE f.props]

\* Definitions are added to the maps, those of an older file with the id stay.
Register(reg, v) ==
    [lexicons |-> Over(Only(Files[v].id, v), reg.lexicons),
     records |-> Over(RecordDefs(Files[v]), reg.records),
     objects |-> Over(ObjectDefs(Files[v]), reg.objects)]

\* ParseAndRegister for the files of a directory or a table, taken in the given order;
\* those that do not parse are skipped.
RegisterAll(reg, files, order) ==
    LET after[i \in 0 .. Len(order)] ==
            IF i = 0 THEN reg
            ELSE IF order[i] \in DOMAIN files /\ Files[files[order[i]]].parses
                 THEN Register(after[i - 1], files[order[i]])
                 ELSE after[i - 1]
    IN after[Len(order)]

\* The rows of GetAll, which come in the order of their ids.
RegisterTable(reg, table) == RegisterAll(reg, table, Nsids)

\* What a start makes of the directory and the table.
loadLexiconsFromDir(reg) == RegisterAll(reg, Dir, [i \in 1 .. Len(Dir) |-> i])
Load(table) == RegisterTable(loadLexiconsFromDir(NewRegistry), table)

-----------------------------------------------------------------------------
(* The schema.                                                             *)

Collections(reg) == {<<id, "main">> : id \in {id \in DOMAIN reg.lexicons : Files[reg.lexicons[id]].kind = "record"}}
ResolveRef(reg, r) == r \in DOMAIN reg.objects \cup DOMAIN reg.records
Props(reg, r) == IF r \in Collections(reg) \/ r \notin DOMAIN reg.objects THEN reg.records[r] ELSE reg.objects[r]
\* Records have the fields of every record besides their own.
HasFields(reg, r) == r \in Collections(reg) \/ r \notin DOMAIN reg.objects \/ reg.objects[r] # {}

\* The types a field leads to: unknown refs become strings, a union with a member
\* that is no object with fields becomes JSON.
resolveRefType(reg, refs) == {r \in refs : ResolveRef(reg, r)}
buildUnionType(reg, refs) == IF \A r \in refs : ResolveRef(reg, r) /\ HasFields(reg, r) THEN refs ELSE {}
buildField(reg, p) ==
    CASE p.kind = "ref"   -> resolveRefType(reg, p.refs)
      [] p.kind = "union" -> buildUnionType(reg, p.refs)
      [] OTHER            -> {}

\* The given types and those that their fields lead to.
buildFields(reg, types) == types \cup UNION {UNION {buildField(reg, p) : p \in Props(reg, r)} : r \in types}

\* The types of the schema: the records, and what their fields lead to.
Types(reg) ==
    LET defs == DOMAIN reg.objects \cup DOMAIN reg.records
        near[n \in 0 .. Cardinality(defs)] ==
            IF n = 0 THEN Collections(reg) ELSE buildFields(reg, near[n - 1])
    IN near[Cardinality(defs)]

\* graphql.NewSchema refuses objects without fields, bad names and names used twice (of
\* object types; unions, connections and inputs are left out).
Build(reg) ==
    /\ \A r \in Types(reg) : HasFields(reg, r) /\ TypeName[r] # Malformed
    /\ \A r, s \in Types(reg) : TypeName[r] = TypeName[s] => r = s

-----------------------------------------------------------------------------
(* Mutations.  Each statement and each callback is a step.                 *)

Free(c) == change[c] = Rest /\ ~draining
Done(c) == change' = [change EXCEPT ![c] = Rest]
\* A call with rows left to write, then none.  An upload has (ghost) the table it means to
\* leave, and whether it was checked against all of the table.
Saving(kind, left, want, synced) ==
    [step |-> IF left = <<>> THEN "notify" ELSE "save", kind |-> kind, left |-> left, want |-> want, synced |-> synced]

\* id -> file for the entries of an upload; of two with one id the later counts.
Proposed(zip) ==
    LET files == {i \in DOMAIN zip.entries : zip.entries[i] # Junk}
        IdOf(i) == Files[zip.entries[i]].id
        last(id) == CHOOSE i \in files : IdOf(i) = id /\ \A j \in files : IdOf(j) = id => j <= i
    IN [id \in {IdOf(i) : i \in files} |-> zip.entries[last(id)]]

\* Mutant: the upload is checked by itself.
ValidateAlone(proposed) ==
    /\ \A id \in DOMAIN proposed : Files[proposed[id]].parses
    /\ Build(RegisterTable(NewRegistry, proposed))
\* SchemaValidateCallback: the live registry with the upload laid over it.
ValidateUpload(proposed) ==
    LET kept      == Restrict(registry.lexicons, DOMAIN registry.lexicons \ DOMAIN proposed)
        tentative == RegisterTable(RegisterTable(NewRegistry, kept), proposed)
    IN (\A id \in DOMAIN proposed : Files[proposed[id]].parses) /\ Build(tentative)

\* Every stored file has the id of its row, and no two files of the directory and the
\* table have one id.
Apart(table) ==
    LET dir == {i \in DOMAIN Dir : Files[Dir[i]].parses} IN
    /\ \A id \in Ids(table) : Files[table[id]].id = id
    /\ \A i \in dir : Files[Dir[i]].id \notin Ids(table)
    /\ \A i, j \in dir : Files[Dir[i]].id = Files[Dir[j]].id => i = j

Readable(zip) == zip.readable /\ \A i \in DOMAIN zip.entries : zip.entries[i] # TooLarge

UploadLexicons(c, zip) ==
    /\ Free(c) /\ Spend("lexicon")
    /\ change' = IF Readable(zip) /\ Proposed(zip) # <<>> /\ ValidateUpload(Proposed(zip))
                 THEN [change EXCEPT ![c] = Saving("upload", Proposed(zip), Over(Proposed(zip), lexicons),
                                                   registry = Load(lexicons) /\ Apart(lexicons))]
                 ELSE change
    /\ UNCHANGED <<lexicons, registry, mounted, subscribed, restartCh, draining, sound>>

RegisterLexicon(c, id) ==
    /\ Free(c) /\ id \notin Ids(lexicons) /\ Spend("lexicon")
    /\ change' = [change EXCEPT ![c] = [step |-> "resolve", kind |-> "register", id |-> id]]
    /\ UNCHANGED <<lexicons, registry, mounted, subscribed, restartCh, draining, sound>>

\* DNS, the PLC directory and the PDS answer with a file, or one of them fails.
ResolveLexicon(c) ==
    /\ change[c].step = "resolve" /\ Fine
    /\ \/ Done(c)
       \/ \E v \in Published[change[c].id] :
            change' = [change EXCEPT ![c] = Saving("register", Only(change[c].id, v), <<>>, FALSE)]
    /\ UNCHANGED <<lexicons, registry, mounted, subscribed, restartCh, draining, sound>>

DeleteLexicon(c, id) ==
    /\ Free(c) /\ Spend("lexicon")
    /\ change' = [change EXCEPT ![c] = Saving("delete", Only(id, Gone), <<>>, FALSE)]
    /\ UNCHANGED <<lexicons, registry, mounted, subscribed, restartCh, draining, sound>>

Upsert(id, v) == Over(Only(id, v), lexicons)
Delete(id) == Drop(lexicons, id)

\* The rows of a call one by one, in the order of a map; a failure ends the call.
Save(c) ==
    LET call == change[c] IN
    /\ call.step = "save"
    /\ \/ \E id \in DOMAIN call.left :
            LET rest == Drop(call.left, id) IN
            /\ lexicons' = IF call.left[id] = Gone THEN Delete(id) ELSE Upsert(id, call.left[id])
            /\ change' = [change EXCEPT ![c] = Saving(call.kind, rest, call.want, call.synced)]
            /\ sound' = (call.synced /\ lexicons' = call.want /\ Apart(lexicons'))
            /\ Fine
       \/ Spend("fault") /\ Done(c) /\ UNCHANGED <<lexicons, sound>>
    /\ UNCHANGED <<registry, mounted, subscribed, restartCh, draining>>

\* notifyLexiconChange reads the table again; a failure is ignored.
AfterNotify(c) == change' = [change EXCEPT ![c] = IF @.kind = "upload" THEN [step |-> "restart"] ELSE Rest]
Notify(c) ==
    /\ change[c].step = "notify"
    /\ \/ /\ Fine
          /\ change' = [change EXCEPT ![c] = [step |-> "callback", kind |-> change[c].kind, ids |-> Ids(lexicons)]]
       \/ Spend("fault") /\ AfterNotify(c)
    /\ UNCHANGED <<lexicons, registry, mounted, subscribed, restartCh, draining, sound>>

LexiconChangeCallback(c) ==
    /\ change[c].step = "callback" /\ Fine
    /\ subscribed' = change[c].ids /\ AfterNotify(c)
    /\ UNCHANGED <<lexicons, registry, mounted, restartCh, draining, sound>>

\* The channel holds one request.
ProcessRestartCallback(c) ==
    /\ change[c].step = "restart" /\ Fine
    /\ restartCh' = TRUE /\ Done(c)
    /\ UNCHANGED <<lexicons, registry, mounted, subscribed, draining, sound>>

LexiconNext ==
    \E c \in Curators :
        \/ \E z \in Zips : UploadLexicons(c, z)
        \/ \E id \in DOMAIN Published : RegisterLexicon(c, id)
        \/ \E id \in Ids(lexicons) : DeleteLexicon(c, id)
        \/ ResolveLexicon(c) \/ Save(c) \/ Notify(c) \/ LexiconChangeCallback(c) \/ ProcessRestartCallback(c)

-----------------------------------------------------------------------------
(* Start and restart.                                                      *)

\* setupGraphQL; without the table when it cannot be read.
Start(table) ==
    /\ registry' = Load(table) /\ mounted' = Build(Load(table)) /\ subscribed' = Ids(table)
    /\ change' = [c \in Curators |-> Rest]
    /\ restartCh' = FALSE /\ draining' = FALSE
    /\ UNCHANGED <<lexicons, sound>>

LexiconInit ==
    /\ lexicons \in Relevant("lexicon", Tables) /\ sound = Build(Load(lexicons))
    /\ registry = Load(lexicons) /\ mounted = Build(Load(lexicons)) /\ subscribed = Ids(lexicons)
    /\ change = [c \in Curators |-> Rest]
    /\ restartCh = FALSE /\ draining = FALSE

\* serve takes the request and stops accepting others.
TakeRestart ==
    /\ restartCh /\ ~draining /\ Fine
    /\ draining' = TRUE
    /\ UNCHANGED <<lexicons, registry, mounted, subscribed, change, restartCh, sound>>

\* Shutdown waits for the requests, but no longer than 30 seconds.
Drained == draining /\ IF \A c \in Curators : change[c] = Rest THEN Fine ELSE Spend("fault")

\* The component by itself: the process may be restarted at any time, and find the
\* table unreadable.
LexiconStep == LexiconNext \/ TakeRestart \/ Start(lexicons) \/ Start(<<>>)
LexiconSpec == LexiconInit /\ [][LexiconStep]_lexiconVars

-----------------------------------------------------------------------------

\* Uploads keep the server able to start: when the last change of the table was an
\* upload that was checked against a registry of the whole table, was saved to the
\* end and met no other change, the next start builds its schema and serves /graphql,
\* whatever was deleted or registered before (issue #22: ValidateUpload against the live
\* registry, then Save).  Not so where two files have one id, be it that a stored lexicon
\* redefines one of the directory, whose old definitions Register keeps, or that
\* RegisterLexicon stored what the network has under another id: the check replaces
\* by the id of a file, the table by the id of a row.
SchemaBuilds == sound => Build(Load(lexicons))
=============================================================================
