----------------------------- MODULE AdminProofs -----------------------------
(***************************************************************************)
(* What administrators rely on, for any number of them: AdminRemains of    *)
(* the settings and SchemaBuilds of the lexicons.  A call works with what  *)
(* it has read or checked, which may be out of date, so that the           *)
(* invariants speak of the calls as well as of the rows.                   *)
(***************************************************************************)
EXTENDS AdminSettings, LexiconAdmin, FiniteSetTheorems, WellFoundedInduction, TLAPS

-----------------------------------------------------------------------------
(* The list of administrators.                                             *)

\* The calls there are.
ListCalls == [step : {"read", "write"}, op : {"add", "remove"}, did : DIDs, row : Lists]
SetCalls  == [step : {"set"}, args : Settings, next : Nat]
Calls     == {Ready} \cup ListCalls \cup SetCalls

CallsSound ==
    /\ adminCall \in [Callers -> Calls]
    /\ admins \in Lists /\ tidy \in BOOLEAN
    /\ tidy => Tidy(admins)
    /\ \A c \in Callers : tidy /\ adminCall[c] \in ListCalls => adminCall[c].row.extra = {}

LEMMA CallKinds ==
    /\ \A x \in ListCalls : x.step \in {"read", "write"}
    /\ \A x \in SetCalls : x.step = "set"
    /\ Ready.step = "ready"
BY DEF ListCalls, SetCalls, Ready

\* A list of distinct DIDs from which one may be removed has another.
LEMMA OneLeft ==
    ASSUME NEW row \in Lists, NEW did, row.extra = {}, Removable(row, did)
    PROVE  Tidy(LeaveOut(row, did))
<1>1. Cardinality(row.extra) = 0
  BY FS_EmptySet
<1>2. Cardinality(row.dids) + 0 > 1 /\ did \in row.dids
  BY <1>1 DEF Removable, Length
<1>3. Cardinality({did}) = 1
  BY FS_Singleton
<1>4. row.dids # {did}
  BY <1>2, <1>3
<1>5. row.dids \ {did} # {}
  BY <1>2, <1>4
<1> QED
  BY <1>5 DEF Tidy, LeaveOut

\* What is left of a list is a list.
LEMMA LeaveOutType ==
    ASSUME NEW row \in Lists, NEW did
    PROVE  LeaveOut(row, did) \in Lists
BY DEF LeaveOut, Lists

-----------------------------------------------------------------------------

LEMMA CallsSoundInit == AdminInit => CallsSound
<1> SUFFICES ASSUME AdminInit PROVE CallsSound
  OBVIOUS
<1>1. \A c \in Callers : adminCall[c] = Ready
  BY DEF AdminInit
<1>2. adminCall \in [Callers -> Calls]
  BY <1>1 DEF AdminInit, Calls
<1>3. admins \in Lists /\ tidy \in BOOLEAN /\ (tidy => Tidy(admins))
  BY AdminAssumption DEF AdminInit, Tidy
<1>4. Ready \notin ListCalls
  BY CallKinds
<1> QED
  BY <1>1, <1>2, <1>3, <1>4 DEF CallsSound

\* A step that leaves the list alone and gives one caller another call.
LEMMA CallStep ==
    ASSUME CallsSound, NEW c \in Callers, NEW call \in Calls,
           adminCall' = [adminCall EXCEPT ![c] = call],
           tidy /\ call \in ListCalls => call.row.extra = {},
           UNCHANGED <<admins, tidy>>
    PROVE  CallsSound'
<1>1. adminCall' \in [Callers -> Calls]
  BY DEF CallsSound
<1>2. \A b \in Callers : tidy' /\ adminCall'[b] \in ListCalls => adminCall'[b].row.extra = {}
  BY DEF CallsSound
<1> QED
  BY <1>1, <1>2 DEF CallsSound, Tidy, Lists, ListCalls, Calls, SetCalls, Ready

LEMMA ServeSound ==
    ASSUME CallsSound, NEW c \in Callers, NEW d \in DIDs, NEW mutation \in Calls,
           mutation \in ListCalls => mutation.row.extra = {},
           ServeHTTP(c, d, mutation)
    PROVE  CallsSound'
BY CallStep DEF ServeHTTP

LEMMA ReadSound ==
    ASSUME CallsSound, NEW c \in Callers, ReadAdmins(c)
    PROVE  CallsSound'
<1>1. adminCall[c] \in ListCalls
  BY CallKinds DEF CallsSound, Calls, ReadAdmins
<1>2. CASE adminCall' = [adminCall EXCEPT ![c].step = "write", ![c].row = admins]
  <2> DEFINE call == [[adminCall[c] EXCEPT !.step = "write"] EXCEPT !.row = admins]
  <2>1. call \in ListCalls /\ call.row = admins
    BY <1>1 DEF ListCalls, CallsSound
  <2>2. adminCall' = [adminCall EXCEPT ![c] = call]
    BY <1>1, <1>2 DEF CallsSound
  <2> HIDE DEF call
  <2> QED
    BY <2>1, <2>2, CallStep DEF CallsSound, Tidy, Calls, ReadAdmins
<1>3. CASE Goto(c, "write")
  <2> DEFINE call == [adminCall[c] EXCEPT !.step = "write"]
  <2>1. call \in ListCalls /\ call.row = adminCall[c].row
    BY <1>1 DEF ListCalls
  <2>2. adminCall' = [adminCall EXCEPT ![c] = call]
    BY <1>3 DEF Goto
  <2> HIDE DEF call
  <2> QED
    BY <1>1, <2>1, <2>2, CallStep DEF CallsSound, Calls, ReadAdmins
<1> QED
  BY <1>2, <1>3 DEF ReadAdmins

\* What is written follows from the list that was read, not from the row: it is
\* where a stale list enters.
LEMMA WriteSound ==
    ASSUME CallsSound, NEW c \in Callers, WriteAdmins(c)
    PROVE  CallsSound'
<1> DEFINE call == adminCall[c]
<1>1. call \in ListCalls
  BY CallKinds DEF CallsSound, Calls, WriteAdmins
<1>2. call.row \in Lists /\ call.did \in DIDs /\ (tidy => call.row.extra = {})
  BY <1>1 DEF CallsSound, ListCalls
<1>3. adminCall' = [adminCall EXCEPT ![c] = Ready] /\ UNCHANGED tidy
  BY DEF WriteAdmins, Answer
<1>4. admins' \in Lists /\ (tidy => Tidy(admins'))
  <2>1. CASE admins' = admins
    BY <2>1 DEF CallsSound
  <2>2. CASE admins' = [call.row EXCEPT !.dids = @ \cup {call.did}]
    BY <1>2, <2>2 DEF Lists, Tidy
  <2>3. CASE Removable(call.row, call.did) /\ admins' = LeaveOut(call.row, call.did)
    BY <1>2, <2>3, OneLeft, LeaveOutType
  <2> QED
    BY <2>1, <2>2, <2>3 DEF WriteAdmins
<1>5. adminCall' \in [Callers -> Calls]
  BY <1>3 DEF CallsSound, Calls
<1>6. Ready \notin ListCalls
  BY CallKinds
<1>7. \A b \in Callers : tidy' /\ adminCall'[b] \in ListCalls => adminCall'[b].row.extra = {}
  BY <1>3, <1>6 DEF CallsSound
<1> QED
  BY <1>3, <1>4, <1>5, <1>7 DEF CallsSound, Tidy

\* An argument of updateSettings: the position moves on, the call ends, or the
\* list given replaces the row and tidy says whether it was a proper one.
LEMMA SetSound ==
    ASSUME CallsSound, NEW c \in Callers, SetNext(c)
    PROVE  CallsSound'
<1> DEFINE call == adminCall[c]
           key  == Order[call.next]
           next == [call EXCEPT !.next = @ + 1]
<1>1. call \in SetCalls
  BY CallKinds DEF CallsSound, Calls, SetNext
<1>2. next \in SetCalls /\ next \notin ListCalls /\ Ready \notin ListCalls
  <2>1. next \in SetCalls
    BY <1>1 DEF SetCalls
  <2> QED
    BY <2>1, CallKinds
<1>3. CASE Answer(c) /\ UNCHANGED <<admins, tidy>>
  BY <1>2, <1>3, CallStep DEF Answer, Calls
<1>4. CASE adminCall' = [adminCall EXCEPT ![c] = next] /\ UNCHANGED <<admins, tidy>>
  BY <1>2, <1>4, CallStep DEF Calls
<1>5. CASE /\ adminCall' = [adminCall EXCEPT ![c] = next]
           /\ "admin_dids" \in DOMAIN call.args
           /\ admins' = call.args["admin_dids"]
           /\ tidy' = (tidy /\ Tidy(call.args["admin_dids"]))
  <2>1. call.args["admin_dids"] \in Lists
    BY <1>1, <1>5, AdminAssumption DEF SetCalls
  <2>2. adminCall' \in [Callers -> Calls]
    BY <1>2, <1>5 DEF CallsSound, Calls
  <2>3. admins' \in Lists /\ tidy' \in BOOLEAN /\ (tidy' => tidy) /\ (tidy' => Tidy(admins'))
    BY <1>5, <2>1 DEF CallsSound
  <2>4. \A b \in Callers : tidy' /\ adminCall'[b] \in ListCalls => adminCall'[b].row.extra = {}
    BY <1>2, <1>5, <2>3 DEF CallsSound
  <2> QED
    BY <2>2, <2>3, <2>4 DEF CallsSound, Tidy
<1>6. \/ Answer(c) /\ UNCHANGED <<admins, tidy>>
      \/ adminCall' = [adminCall EXCEPT ![c] = next] /\ UNCHANGED <<admins, tidy>>
      \/ /\ adminCall' = [adminCall EXCEPT ![c] = next]
         /\ key = "admin_dids" /\ key \in DOMAIN call.args
         /\ admins' = call.args[key]
         /\ tidy' = (tidy /\ Tidy(call.args[key]))
  BY DEF SetNext
<1> HIDE DEF call, key, next
<1> QED
  BY <1>3, <1>4, <1>5, <1>6

LEMMA DoneSound ==
    ASSUME CallsSound, NEW c \in Callers, SettingsDone(c)
    PROVE  CallsSound'
<1>1. Ready \in Calls /\ Ready \notin ListCalls
  BY CallKinds DEF Calls
<1> QED
  BY <1>1, CallStep DEF SettingsDone, Answer

\* A restart forgets the calls and seeds the row from the environment when it is empty.
LEMMA BootSound ==
    ASSUME CallsSound, AdminBoot
    PROVE  CallsSound'
<1>1. Ready \in Calls /\ Ready \notin ListCalls
  BY CallKinds DEF Calls
<1>2. adminCall' \in [Callers -> Calls] /\ \A b \in Callers : adminCall'[b] \notin ListCalls
  BY <1>1 DEF AdminBoot
<1>3. admins' \in Lists /\ tidy' = tidy
  BY AdminAssumption DEF AdminBoot, CallsSound
<1>4. tidy => admins' = admins
  BY DEF AdminBoot, CallsSound, Tidy
<1> QED
  BY <1>2, <1>3, <1>4 DEF CallsSound, Tidy

-----------------------------------------------------------------------------

LEMMA CallsSoundStep ==
    CallsSound /\ [AdminStep]_adminVars => CallsSound'
<1> SUFFICES ASSUME CallsSound, [AdminStep]_adminVars
             PROVE  CallsSound'
  OBVIOUS
<1>1. ASSUME NEW c \in Callers, NEW d \in DIDs, NEW e \in DIDs, ServeHTTP(c, d, AddAdmin(e))
      PROVE  CallsSound'
  <2>1. AddAdmin(e) \in ListCalls /\ AddAdmin(e).row.extra = {}
    BY DEF AddAdmin, ListCalls, NoAdmins, Lists
  <2> QED
    BY <1>1, <2>1, ServeSound DEF Calls
<1>2. ASSUME NEW c \in Callers, NEW d \in DIDs, NEW e \in DIDs, ServeHTTP(c, d, RemoveAdmin(e))
      PROVE  CallsSound'
  <2>1. RemoveAdmin(e) \in ListCalls /\ RemoveAdmin(e).row.extra = {}
    BY DEF RemoveAdmin, ListCalls, NoAdmins, Lists
  <2> QED
    BY <1>2, <2>1, ServeSound DEF Calls
<1>3. ASSUME NEW c \in Callers, NEW d \in DIDs, NEW args \in Settings, ServeHTTP(c, d, UpdateSettings(args))
      PROVE  CallsSound'
  <2>1. UpdateSettings(args) \in SetCalls
    BY DEF UpdateSettings, SetCalls
  <2>2. UpdateSettings(args) \notin ListCalls
    BY <2>1, CallKinds
  <2> QED
    BY <1>3, <2>1, <2>2, ServeSound DEF Calls
<1>4. ASSUME NEW c \in Callers, ReadAdmins(c) \/ WriteAdmins(c) \/ SetNext(c) \/ SettingsDone(c)
      PROVE  CallsSound'
  BY <1>4, ReadSound, WriteSound, SetSound, DoneSound
<1>5. CASE AdminBoot
  BY <1>5, BootSound
<1>6. CASE UNCHANGED adminVars
  BY <1>6 DEF adminVars, CallsSound, Tidy
<1> QED
  BY <1>1, <1>2, <1>3, <1>4, <1>5, <1>6 DEF AdminNext, AdminStep

\* The calls under way never hold a list that could empty the row.
THEOREM AdminCallsSound == AdminSpec => []CallsSound
<1>1. AdminInit => CallsSound
  BY CallsSoundInit
<1>2. CallsSound /\ [AdminStep]_adminVars => CallsSound'
  BY CallsSoundStep
<1> QED
  BY <1>1, <1>2, PTL DEF AdminSpec

\* Somebody who can call the interface is always left, for any number of callers,
\* DIDs and settings: AddAdmin and RemoveAdmin that overlap, or whose read of the
\* list fails, never empty it while every list given in full was a proper one.
THEOREM AdminAlwaysRemains == AdminSpec => []AdminRemains
<1>1. CallsSound => AdminRemains
  BY DEF CallsSound, AdminRemains, Tidy
<1> QED
  BY <1>1, AdminCallsSound, PTL

-----------------------------------------------------------------------------
(* Lexicons.  ValidateUpload builds a registry from the one that is live    *)
(* and the upload, a start builds it from the directory and the table; the *)
(* order in which files are registered differs.  Both are shown to be what *)
(* the same set of files makes, so that one builds if the other does.      *)

\* The registry reg is what the files V make, no two of which have one id.
Describes(reg, V) ==
    /\ reg = [lexicons |-> reg.lexicons, records |-> reg.records, objects |-> reg.objects]
    /\ reg.lexicons \in [{Files[v].id : v \in V} -> V]
    /\ reg.records = [r \in DOMAIN reg.records |-> reg.records[r]]
    /\ reg.objects = [r \in DOMAIN reg.objects |-> reg.objects[r]]
    /\ DOMAIN reg.records = UNION {DOMAIN RecordDefs(Files[v]) : v \in V}
    /\ DOMAIN reg.objects = UNION {DOMAIN ObjectDefs(Files[v]) : v \in V}
    /\ \A v \in V :
        /\ reg.lexicons[Files[v].id] = v
        /\ \A r \in DOMAIN RecordDefs(Files[v]) : reg.records[r] = RecordDefs(Files[v])[r]
        /\ \A r \in DOMAIN ObjectDefs(Files[v]) : reg.objects[r] = ObjectDefs(Files[v])[r]

\* A set of files makes one registry.
LEMMA Unique ==
    ASSUME NEW a, NEW b, NEW V, Describes(a, V), Describes(b, V)
    PROVE  a = b
<1>1. a.lexicons = b.lexicons
  <2>1. \A id \in {Files[v].id : v \in V} : a.lexicons[id] = b.lexicons[id]
    BY DEF Describes
  <2> QED
    BY <2>1 DEF Describes
<1>2. a.records = b.records
  <2>1. \A r \in DOMAIN a.records : a.records[r] = b.records[r]
    BY DEF Describes
  <2> QED
    BY <2>1 DEF Describes
<1>3. a.objects = b.objects
  <2>1. \A r \in DOMAIN a.objects : a.objects[r] = b.objects[r]
    BY DEF Describes
  <2> QED
    BY <2>1 DEF Describes
<1> QED
  BY <1>1, <1>2, <1>3 DEF Describes

\* A file defines names of its own id only.
LEMMA DefsOwn ==
    ASSUME NEW f
    PROVE  /\ \A r \in DOMAIN RecordDefs(f) : r[1] = f.id
           /\ \A r \in DOMAIN ObjectDefs(f) : r[1] = f.id
           /\ RecordDefs(f) = [r \in DOMAIN RecordDefs(f) |-> RecordDefs(f)[r]]
           /\ ObjectDefs(f) = [r \in DOMAIN ObjectDefs(f) |-> ObjectDefs(f)[r]]
BY DEF RecordDefs, ObjectDefs, Refs

\* Register adds a file, if none has its id.
LEMMA RegisterAdds ==
    ASSUME NEW reg, NEW V, NEW v, Describes(reg, V), \A w \in V : Files[w].id # Files[v].id
    PROVE  Describes(Register(reg, v), V \cup {v})
<1> DEFINE new == Register(reg, v)
           W == V \cup {v}
           f == Files[v]
<1>1. /\ new = [lexicons |-> new.lexicons, records |-> new.records, objects |-> new.objects]
      /\ new.lexicons = Over(Only(f.id, v), reg.lexicons)
      /\ new.records = Over(RecordDefs(f), reg.records)
      /\ new.objects = Over(ObjectDefs(f), reg.objects)
  BY DEF Register
<1> HIDE DEF new
<1>2. /\ new.lexicons \in [{Files[w].id : w \in W} -> W]
      /\ \A w \in W : new.lexicons[Files[w].id] = w
  <2>1. Only(f.id, v) = [x \in {f.id} |-> v]
    BY DEF Only
  <2>2. DOMAIN reg.lexicons = {Files[w].id : w \in V} /\ \A w \in V : reg.lexicons[Files[w].id] = w
    BY DEF Describes
  <2>3. new.lexicons = [x \in {f.id} \cup DOMAIN reg.lexicons |-> IF x = f.id THEN v ELSE reg.lexicons[x]]
    BY <1>1, <2>1 DEF Over
  <2>4. {Files[w].id : w \in W} = {f.id} \cup DOMAIN reg.lexicons
    BY <2>2
  <2>5. \A w \in W : new.lexicons[Files[w].id] = w
    BY <2>2, <2>3
  <2> QED
    BY <2>2, <2>3, <2>4, <2>5
<1>3. /\ new.records = [r \in DOMAIN new.records |-> new.records[r]]
      /\ new.objects = [r \in DOMAIN new.objects |-> new.objects[r]]
  BY <1>1 DEF Over
<1>4. /\ DOMAIN new.records = DOMAIN RecordDefs(f) \cup DOMAIN reg.records
      /\ \A r \in DOMAIN RecordDefs(f) : new.records[r] = RecordDefs(f)[r]
      /\ \A r \in DOMAIN reg.records \ DOMAIN RecordDefs(f) : new.records[r] = reg.records[r]
  BY <1>1 DEF Over
<1>5. /\ DOMAIN new.objects = DOMAIN ObjectDefs(f) \cup DOMAIN reg.objects
      /\ \A r \in DOMAIN ObjectDefs(f) : new.objects[r] = ObjectDefs(f)[r]
      /\ \A r \in DOMAIN reg.objects \ DOMAIN ObjectDefs(f) : new.objects[r] = reg.objects[r]
  BY <1>1 DEF Over
<1>6. DOMAIN new.records = UNION {DOMAIN RecordDefs(Files[w]) : w \in W}
  BY <1>4 DEF Describes
<1>7. DOMAIN new.objects = UNION {DOMAIN ObjectDefs(Files[w]) : w \in W}
  BY <1>5 DEF Describes
<1>8. ASSUME NEW w \in V
      PROVE  /\ \A r \in DOMAIN RecordDefs(Files[w]) : new.records[r] = RecordDefs(Files[w])[r]
             /\ \A r \in DOMAIN ObjectDefs(Files[w]) : new.objects[r] = ObjectDefs(Files[w])[r]
  <2>1. \A r \in DOMAIN RecordDefs(Files[w]) : r \in DOMAIN reg.records /\ r \notin DOMAIN RecordDefs(f)
    BY DefsOwn DEF Describes
  <2>2. \A r \in DOMAIN ObjectDefs(Files[w]) : r \in DOMAIN reg.objects /\ r \notin DOMAIN ObjectDefs(f)
    BY DefsOwn DEF Describes
  <2>3. \A r \in DOMAIN RecordDefs(Files[w]) : reg.records[r] = RecordDefs(Files[w])[r]
    BY DEF Describes
  <2>4. \A r \in DOMAIN ObjectDefs(Files[w]) : reg.objects[r] = ObjectDefs(Files[w])[r]
    BY DEF Describes
  <2> QED
    BY <1>4, <1>5, <2>1, <2>2, <2>3, <2>4
<1> QED
  <2>1. \A w \in W : /\ new.lexicons[Files[w].id] = w
                     /\ \A r \in DOMAIN RecordDefs(Files[w]) : new.records[r] = RecordDefs(Files[w])[r]
                     /\ \A r \in DOMAIN ObjectDefs(Files[w]) : new.objects[r] = ObjectDefs(Files[w])[r]
    BY <1>2, <1>4, <1>5, <1>8
  <2>2. Describes(new, W)
    BY <1>1, <1>2, <1>3, <1>6, <1>7, <2>1 DEF Describes
  <2> QED
    BY <2>2 DEF new

\* The least element of a set of naturals.
LEMMA LeastNat ==
    ASSUME NEW S, S \subseteq Nat, S # {}
    PROVE  \E n \in S : \A m \in S : n <= m
<1>1. PICK x \in S : \A y \in S : ~(<<y, x>> \in OpToRel(<, Nat))
  BY NatLessThanWellFounded, WFMin, Zenon
<1>2. \A y \in S : ~(y < x)
  BY <1>1 DEF OpToRel
<1>3. \A y \in S : x <= y
  BY <1>2
<1> QED
  BY <1>3

\* RegisterAll as steps: the registry after each file.
Takes(files, k) == k \in DOMAIN files /\ Files[files[k]].parses
After(r, files, k) == IF Takes(files, k) THEN Register(r, files[k]) ELSE r

LEMMA RegisterAllSteps ==
    ASSUME NEW reg, NEW files, NEW order, Len(order) \in Nat
    PROVE  \E a : /\ a[0] = reg
                  /\ \A i \in 1 .. Len(order) : a[i] = After(a[i - 1], files, order[i])
                  /\ RegisterAll(reg, files, order) = a[Len(order)]
<1> DEFINE Is(f, n) == f = [i \in 0 .. n |-> IF i = 0 THEN reg ELSE After(f[i - 1], files, order[i])]
           Not == {n \in 0 .. Len(order) : ~\E f : Is(f, n)}
<1>1. \E f : Is(f, Len(order))
  <2> SUFFICES ASSUME Not # {} PROVE FALSE
    OBVIOUS
  <2>0. Not \subseteq Nat
    OBVIOUS
  <2>1. PICK n \in Not : \A m \in Not : n <= m
    <3> HIDE DEF Not
    <3> QED
      BY <2>0, LeastNat
  <2>2. CASE n = 0
    <3> DEFINE f == [i \in 0 .. 0 |-> reg]
    <3>1. Is(f, 0)
      OBVIOUS
    <3> QED
      BY <2>1, <2>2, <3>1
  <2>3. CASE n # 0
    <3>1. n - 1 \in 0 .. Len(order) /\ n - 1 \notin Not
      <4>1. n \in 0 .. Len(order)
        BY <2>1
      <4>2. n - 1 \notin Not
        <5> HIDE DEF Not
        <5> QED
          BY <2>1, <4>1
      <4> QED
        BY <2>3, <4>1, <4>2
    <3>2. PICK f : Is(f, n - 1)
      BY <3>1
    <3> DEFINE g == [i \in 0 .. n |-> IF i = n THEN After(f[n - 1], files, order[n]) ELSE f[i]]
    <3>3. ASSUME NEW i \in 0 .. n
          PROVE  g[i] = IF i = 0 THEN reg ELSE After(g[i - 1], files, order[i])
      BY <3>2, <2>3
    <3>4. Is(g, n)
      BY <3>3
    <3> QED
      BY <3>4, <2>1
  <2> QED
    BY <2>2, <2>3
<1> DEFINE a == CHOOSE f : Is(f, Len(order))
<1>2. Is(a, Len(order))
  BY <1>1
<1>3. RegisterAll(reg, files, order) = a[Len(order)]
  BY DEF RegisterAll, After, Takes
<1> HIDE DEF a
<1>4. a[0] = reg /\ \A i \in 1 .. Len(order) : a[i] = After(a[i - 1], files, order[i])
  BY <1>2
<1> QED
  BY <1>3, <1>4

\* The files of a list that are registered.
Taken(files, order, n) == {files[order[i]] : i \in {i \in 1 .. n : Takes(files, order[i])}}

\* RegisterAll adds all of them, if no two have one id.
LEMMA RegisterAllAdds ==
    ASSUME NEW reg, NEW V, Describes(reg, V), NEW files, NEW order, Len(order) \in Nat,
           \A i \in 1 .. Len(order) : Takes(files, order[i]) =>
              \A w \in V : Files[w].id # Files[files[order[i]]].id,
           \A i, j \in 1 .. Len(order) :
              (/\ Takes(files, order[i]) /\ Takes(files, order[j])
               /\ Files[files[order[i]]].id = Files[files[order[j]]].id) => i = j
    PROVE  Describes(RegisterAll(reg, files, order), V \cup Taken(files, order, Len(order)))
<1>1. PICK a : /\ a[0] = reg
               /\ \A i \in 1 .. Len(order) : a[i] = After(a[i - 1], files, order[i])
               /\ RegisterAll(reg, files, order) = a[Len(order)]
  BY RegisterAllSteps
<1> DEFINE Not == {n \in 0 .. Len(order) : ~Describes(a[n], V \cup Taken(files, order, n))}
<1>2. Not \subseteq Nat
  OBVIOUS
<1> SUFFICES ASSUME Not # {} PROVE FALSE
  <2>1. Len(order) \in 0 .. Len(order)
    OBVIOUS
  <2> QED
    BY <1>1, <2>1
<1>3. PICK n \in Not : \A m \in Not : n <= m
  <2> HIDE DEF Not
  <2> QED
    BY <1>2, LeastNat
<1>4. CASE n = 0
  <2>1. Taken(files, order, 0) = {}
    BY DEF Taken
  <2> QED
    BY <1>1, <1>3, <1>4, <2>1
<1>5. CASE n # 0
  <2>1. n \in 1 .. Len(order) /\ n - 1 \in 0 .. Len(order) /\ n - 1 \notin Not
    <3>1. n \in 0 .. Len(order)
      BY <1>3
    <3>2. n - 1 \notin Not
      <4> HIDE DEF Not
      <4> QED
        BY <1>3, <3>1
    <3> QED
      BY <1>5, <3>1, <3>2
  <2>2. Describes(a[n - 1], V \cup Taken(files, order, n - 1))
    BY <2>1
  <2>3. a[n] = After(a[n - 1], files, order[n])
    BY <1>1, <2>1
  <2>4. CASE ~Takes(files, order[n])
    <3>1. Taken(files, order, n) = Taken(files, order, n - 1)
      BY <2>1, <2>4 DEF Taken
    <3> QED
      BY <1>3, <2>2, <2>3, <2>4, <3>1 DEF After
  <2>5. CASE Takes(files, order[n])
    <3>1. V \cup Taken(files, order, n) = (V \cup Taken(files, order, n - 1)) \cup {files[order[n]]}
      BY <2>1, <2>5 DEF Taken
    <3>2. \A w \in V \cup Taken(files, order, n - 1) : Files[w].id # Files[files[order[n]]].id
      BY <2>1, <2>5 DEF Taken
    <3>3. Describes(Register(a[n - 1], files[order[n]]), (V \cup Taken(files, order, n - 1)) \cup {files[order[n]]})
      BY <2>2, <3>2, RegisterAdds
    <3> QED
      BY <1>3, <2>3, <2>5, <3>1, <3>3 DEF After
  <2> QED
    BY <2>4, <2>5
<1> QED
  BY <1>4, <1>5

-----------------------------------------------------------------------------

\* The files that a start registers: those of the directory, and those of the table.
DirFiles == {Dir[i] : i \in {i \in 1 .. Len(Dir) : Files[Dir[i]].parses}}
FilesOf(table) == {table[id] : id \in {id \in DOMAIN table \cap Range(Nsids) : Files[table[id]].parses}}

LEMMA NewDescribed == Describes(NewRegistry, {})
BY DEF Describes, NewRegistry

\* The rows of a table whose files have the ids of their rows.
LEMMA TableAdds ==
    ASSUME NEW reg, NEW V, Describes(reg, V), NEW table,
           \A id \in DOMAIN table : Files[table[id]].id = id,
           \A w \in V : Files[w].id \notin DOMAIN table
    PROVE  Describes(RegisterTable(reg, table), V \cup FilesOf(table))
<1>1. Len(Nsids) \in Nat /\ DOMAIN Nsids = 1 .. Len(Nsids)
  BY LexiconAssumption
<1>2. \A i \in 1 .. Len(Nsids) : Takes(table, Nsids[i]) => Files[table[Nsids[i]]].id = Nsids[i]
  BY DEF Takes
<1>3. \A i \in 1 .. Len(Nsids) : Takes(table, Nsids[i]) => \A w \in V : Files[w].id # Files[table[Nsids[i]]].id
  BY <1>2 DEF Takes
<1>4. \A i, j \in 1 .. Len(Nsids) :
         (/\ Takes(table, Nsids[i]) /\ Takes(table, Nsids[j])
          /\ Files[table[Nsids[i]]].id = Files[table[Nsids[j]]].id) => i = j
  BY <1>1, <1>2, LexiconAssumption DEF IsInjective
<1>5. Taken(table, Nsids, Len(Nsids)) = FilesOf(table)
  BY <1>1 DEF Taken, FilesOf, Takes, Range
<1>6. Describes(RegisterAll(reg, table, Nsids), V \cup Taken(table, Nsids, Len(Nsids)))
  BY <1>1, <1>3, <1>4, RegisterAllAdds
<1> QED
  BY <1>5, <1>6 DEF RegisterTable

\* What a start registers.
LEMMA LoadDescribed ==
    ASSUME NEW table, Apart(table)
    PROVE  Describes(Load(table), DirFiles \cup FilesOf(table))
<1> DEFINE order == [i \in 1 .. Len(Dir) |-> i]
<1>1. Len(Dir) \in Nat /\ DOMAIN Dir = 1 .. Len(Dir)
  BY LexiconAssumption
<1>2. Len(order) = Len(Dir) /\ \A i \in 1 .. Len(Dir) : order[i] = i
  BY <1>1
<1>3. Describes(RegisterAll(NewRegistry, Dir, order), {} \cup Taken(Dir, order, Len(order)))
  <2> HIDE DEF order
  <2>1. \A i, j \in 1 .. Len(order) :
           (/\ Takes(Dir, order[i]) /\ Takes(Dir, order[j])
            /\ Files[Dir[order[i]]].id = Files[Dir[order[j]]].id) => i = j
    BY <1>1, <1>2 DEF Apart, Takes
  <2> QED
    BY <1>1, <1>2, <2>1, NewDescribed, RegisterAllAdds
<1>4. Taken(Dir, order, Len(order)) = DirFiles
  BY <1>1, <1>2 DEF Taken, DirFiles, Takes
<1>5. Describes(loadLexiconsFromDir(NewRegistry), DirFiles)
  BY <1>3, <1>4 DEF loadLexiconsFromDir
<1>6. \A id \in DOMAIN table : Files[table[id]].id = id
  BY DEF Apart, Ids
<1>7. \A w \in DirFiles : Files[w].id \notin DOMAIN table
  BY <1>1 DEF Apart, Ids, DirFiles
<1> QED
  BY <1>5, <1>6, <1>7, TableAdds DEF Load

\* What ValidateUpload builds is what the next start loads.
LEMMA UploadChecked ==
    ASSUME NEW proposed, NEW old, registry = Load(old), Apart(old),
           DOMAIN proposed \subseteq Range(Nsids),
           \A id \in DOMAIN proposed : Files[proposed[id]].id = id,
           ValidateUpload(proposed), Apart(Over(proposed, old))
    PROVE  Build(Load(Over(proposed, old)))
<1> DEFINE want == Over(proposed, old)
           lex == registry.lexicons
           kept == Restrict(lex, DOMAIN lex \ DOMAIN proposed)
           All == DirFiles \cup FilesOf(old)
           tentative == RegisterTable(RegisterTable(NewRegistry, kept), proposed)
<1>1. Describes(registry, All)
  BY LoadDescribed
<1>2. /\ DOMAIN lex = {Files[v].id : v \in All}
      /\ \A v \in All : lex[Files[v].id] = v
  BY <1>1 DEF Describes
<1>3. \A v \in All : Files[v].parses /\ Files[v].id \in Range(Nsids)
  <2>1. \A v \in DirFiles : Files[v].parses /\ Files[v].id \in Range(Nsids)
    BY LexiconAssumption DEF DirFiles
  <2>2. \A v \in FilesOf(old) : Files[v].parses /\ Files[v].id \in Range(Nsids)
    BY DEF FilesOf, Apart, Ids
  <2> QED
    BY <2>1, <2>2
<1> HIDE DEF All
<1>4. /\ DOMAIN kept = {Files[v].id : v \in All} \ DOMAIN proposed
      /\ \A v \in All : Files[v].id \notin DOMAIN proposed => kept[Files[v].id] = v
  BY <1>2 DEF Restrict
<1> HIDE DEF kept
<1>5. \A id \in DOMAIN kept : Files[kept[id]].id = id
  BY <1>4
<1>6. FilesOf(kept) = {v \in All : Files[v].id \notin DOMAIN proposed}
  <2>1. ASSUME NEW v \in FilesOf(kept) PROVE v \in All /\ Files[v].id \notin DOMAIN proposed
    BY <1>4 DEF FilesOf
  <2>2. ASSUME NEW v \in All, Files[v].id \notin DOMAIN proposed PROVE v \in FilesOf(kept)
    BY <1>3, <1>4, <2>2 DEF FilesOf
  <2> QED
    BY <2>1, <2>2
<1>7. Describes(RegisterTable(NewRegistry, kept), {} \cup FilesOf(kept))
  BY <1>5, NewDescribed, TableAdds
<1>8. Describes(tentative, FilesOf(kept) \cup FilesOf(proposed))
  BY <1>6, <1>7, TableAdds
<1>9. \A id \in DOMAIN proposed : Files[proposed[id]].parses
  BY DEF ValidateUpload
<1>10. FilesOf(kept) \cup FilesOf(proposed) = DirFiles \cup FilesOf(want)
  <2>1. DOMAIN want = DOMAIN proposed \cup DOMAIN old
    BY DEF Over
  <2>2. \A id \in DOMAIN proposed : want[id] = proposed[id]
    BY DEF Over
  <2>3. \A id \in DOMAIN old \ DOMAIN proposed : want[id] = old[id]
    BY DEF Over
  <2>4. \A v \in DirFiles : Files[v].id \notin DOMAIN proposed
    BY <2>1, LexiconAssumption DEF Apart, Ids, DirFiles
  <2>5. \A id \in DOMAIN old : Files[old[id]].id = id
    BY DEF Apart, Ids
  <2> HIDE DEF want
  <2>6. FilesOf(want) = FilesOf(proposed) \cup {v \in FilesOf(old) : Files[v].id \notin DOMAIN proposed}
    <3>1. ASSUME NEW v \in FilesOf(want)
          PROVE  v \in FilesOf(proposed) \/ (v \in FilesOf(old) /\ Files[v].id \notin DOMAIN proposed)
      BY <2>1, <2>2, <2>3, <2>5 DEF FilesOf
    <3>2. FilesOf(proposed) \subseteq FilesOf(want)
      BY <2>1, <2>2 DEF FilesOf
    <3>3. ASSUME NEW v \in FilesOf(old), Files[v].id \notin DOMAIN proposed
          PROVE  v \in FilesOf(want)
      BY <2>1, <2>3, <2>5, <3>3 DEF FilesOf
    <3> QED
      BY <3>1, <3>2, <3>3
  <2> QED
    BY <1>6, <2>4, <2>6 DEF All
<1>11. Describes(Load(want), DirFiles \cup FilesOf(want))
  BY LoadDescribed
<1>12. tentative = Load(want)
  BY <1>8, <1>10, <1>11, Unique
<1>13. Build(tentative)
  BY DEF ValidateUpload, kept
<1> QED
  BY <1>12, <1>13

\* Of several entries with one id, Proposed takes one that is there, with that id.
LEMMA ProposedSound ==
    ASSUME NEW zip \in Zips, Readable(zip)
    PROVE  /\ DOMAIN Proposed(zip) \subseteq Range(Nsids)
           /\ \A id \in DOMAIN Proposed(zip) :
                Proposed(zip)[id] \in DOMAIN Files /\ Files[Proposed(zip)[id]].id = id
<1> DEFINE files == {i \in DOMAIN zip.entries : zip.entries[i] # Junk}
           IdOf(i) == Files[zip.entries[i]].id
           Last(id, i) == IdOf(i) = id /\ \A j \in files : IdOf(j) = id => j <= i
           n == Len(zip.entries)
<1>1. n \in Nat /\ DOMAIN zip.entries = 1 .. n
  BY LexiconAssumption
<1>2. \A i \in files : zip.entries[i] \in DOMAIN Files
  BY <1>1, LexiconAssumption DEF Readable
<1>3. ASSUME NEW k \in files
      PROVE  \E i \in files : Last(IdOf(k), i)
  <2> DEFINE S == {n - i : i \in {i \in files : IdOf(i) = IdOf(k)}}
  <2>1. S \subseteq Nat
    BY <1>1
  <2>2. S # {}
    OBVIOUS
  <2>3. PICK x \in S : \A y \in S : x <= y
    <3> HIDE DEF S
    <3> QED
      BY <2>1, <2>2, LeastNat
  <2>4. PICK i \in files : IdOf(i) = IdOf(k) /\ x = n - i
    BY <2>3
  <2>5. ASSUME NEW j \in files, IdOf(j) = IdOf(k)
        PROVE  j <= i
    <3>1. n - j \in S
      BY <2>5
    <3>2. n - i <= n - j
      BY <2>3, <2>4, <3>1
    <3> QED
      BY <1>1, <3>2
  <2> QED
    BY <2>4, <2>5
<1>4. DOMAIN Proposed(zip) = {IdOf(i) : i \in files}
  BY DEF Proposed
<1>5. ASSUME NEW k \in files
      PROVE  Proposed(zip)[IdOf(k)] \in DOMAIN Files /\ Files[Proposed(zip)[IdOf(k)]].id = IdOf(k)
  <2> DEFINE last == CHOOSE i \in files : Last(IdOf(k), i)
  <2>1. last \in files /\ Last(IdOf(k), last)
    BY <1>3
  <2>2. Proposed(zip)[IdOf(k)] = zip.entries[last]
    BY DEF Proposed
  <2> QED
    BY <1>2, <2>1, <2>2
<1> QED
  BY <1>2, <1>4, <1>5, LexiconAssumption

-----------------------------------------------------------------------------
\* An upload that was checked against all of the table leaves one that builds.
Checked(r) == r.step = "save" /\ r.synced /\ Apart(r.want) => Build(Load(r.want))

LexiconInv ==
    /\ SchemaBuilds
    /\ change = [c \in Curators |-> change[c]]
    /\ \A c \in Curators : Checked(change[c])

LEMMA LexiconInvInit == LexiconInit => LexiconInv
BY DEF LexiconInit, LexiconInv, SchemaBuilds, Checked, Rest

\* A call comes to r, and the table stays or builds.
LEMMA CallKept ==
    ASSUME LexiconInv, NEW c \in Curators, NEW r, change' = [change EXCEPT ![c] = r], Checked(r),
           UNCHANGED <<lexicons, sound>> \/ (sound' => Build(Load(lexicons')))
    PROVE  LexiconInv'
BY DEF LexiconInv, SchemaBuilds, Checked

LEMMA UploadKeeps ==
    ASSUME LexiconInv, NEW c \in Curators, NEW zip \in Zips, UploadLexicons(c, zip)
    PROVE  LexiconInv'
<1> DEFINE want == Over(Proposed(zip), lexicons)
           synced == registry = Load(lexicons) /\ Apart(lexicons)
           r == Saving("upload", Proposed(zip), want, synced)
<1>1. CASE change' = change
  BY <1>1 DEF UploadLexicons, LexiconInv, SchemaBuilds
<1>2. CASE Readable(zip) /\ ValidateUpload(Proposed(zip)) /\ change' = [change EXCEPT ![c] = r]
  <2>1. ASSUME synced, Apart(want) PROVE Build(Load(want))
    BY <1>2, <2>1, ProposedSound, UploadChecked
  <2>2. r.want = want /\ r.synced = synced
    BY DEF Saving
  <2> HIDE DEF r
  <2>3. Checked(r)
    BY <2>1, <2>2 DEF Checked
  <2> QED
    BY <1>2, <2>3, CallKept DEF UploadLexicons
<1> QED
  BY <1>1, <1>2 DEF UploadLexicons

LEMMA SaveKeeps ==
    ASSUME LexiconInv, NEW c \in Curators, Save(c)
    PROVE  LexiconInv'
<1> DEFINE call == change[c]
<1>1. call.step = "save" /\ Checked(call)
  BY DEF Save, LexiconInv
<1>2. CASE change' = [change EXCEPT ![c] = Rest] /\ UNCHANGED <<lexicons, sound>>
  <2>1. Checked(Rest)
    BY DEF Checked, Rest
  <2> QED
    BY <1>2, <2>1, CallKept
<1>3. ASSUME NEW rest, change' = [change EXCEPT ![c] = Saving(call.kind, rest, call.want, call.synced)],
             sound' = (call.synced /\ lexicons' = call.want /\ Apart(lexicons'))
      PROVE  LexiconInv'
  <2> DEFINE r == Saving(call.kind, rest, call.want, call.synced)
  <2>1. r.want = call.want /\ r.synced = call.synced
    BY DEF Saving
  <2>2. Checked(r)
    BY <1>1, <2>1 DEF Checked
  <2>3. sound' => Build(Load(lexicons'))
    BY <1>1, <1>3 DEF Checked
  <2> HIDE DEF r
  <2> QED
    BY <1>3, <2>2, <2>3, CallKept DEF r
<1> QED
  BY <1>2, <1>3 DEF Save, Done

LEMMA LexiconInvStep == LexiconInv /\ [LexiconStep]_lexiconVars => LexiconInv'
<1> SUFFICES ASSUME LexiconInv, [LexiconStep]_lexiconVars
             PROVE  LexiconInv'
  OBVIOUS
<1>1. \A kind, left, want : Checked(Saving(kind, left, want, FALSE))
  BY DEF Checked, Saving
<1>2. /\ Checked(Rest) /\ Checked([step |-> "restart"])
      /\ \A x : Checked([step |-> "resolve", kind |-> "register", id |-> x])
      /\ \A k, x : Checked([step |-> "callback", kind |-> k, ids |-> x])
  BY DEF Checked, Rest
<1>3. ASSUME NEW c \in Curators, NEW id, RegisterLexicon(c, id) \/ DeleteLexicon(c, id) \/ ResolveLexicon(c)
      PROVE  LexiconInv'
  <2>1. CASE RegisterLexicon(c, id)
    BY <1>2, <2>1, CallKept DEF RegisterLexicon
  <2>2. CASE DeleteLexicon(c, id)
    BY <1>1, <2>2, CallKept DEF DeleteLexicon
  <2>3. CASE ResolveLexicon(c)
    BY <1>1, <1>2, <2>3, CallKept DEF ResolveLexicon, Done
  <2> QED
    BY <1>3, <2>1, <2>2, <2>3
<1>4. ASSUME NEW c \in Curators, Notify(c) \/ LexiconChangeCallback(c) \/ ProcessRestartCallback(c)
      PROVE  LexiconInv'
  <2>1. CASE AfterNotify(c) /\ UNCHANGED <<lexicons, sound>>
    <3> DEFINE r == IF change[c].kind = "upload" THEN [step |-> "restart"] ELSE Rest
    <3>1. change' = [change EXCEPT ![c] = r]
      BY <2>1 DEF AfterNotify, LexiconInv
    <3>2. Checked(r)
      BY <1>2
    <3> HIDE DEF r
    <3> QED
      BY <2>1, <3>1, <3>2, CallKept
  <2>2. CASE Notify(c)
    BY <1>2, <2>1, <2>2, CallKept DEF Notify
  <2>3. CASE LexiconChangeCallback(c)
    BY <2>1, <2>3 DEF LexiconChangeCallback
  <2>4. CASE ProcessRestartCallback(c)
    BY <1>2, <2>4, CallKept DEF ProcessRestartCallback, Done
  <2> QED
    BY <1>4, <2>2, <2>3, <2>4
<1>5. CASE TakeRestart \/ UNCHANGED lexiconVars
  BY <1>5 DEF TakeRestart, lexiconVars, LexiconInv, SchemaBuilds
<1>6. ASSUME NEW table, Start(table)
      PROVE  LexiconInv'
  BY <1>2, <1>6 DEF Start, LexiconInv, SchemaBuilds
<1> QED
  BY <1>3, <1>4, <1>5, <1>6, UploadKeeps, SaveKeeps DEF LexiconStep, LexiconNext

\* An upload that had the table to itself leaves one from which the next start builds
\* its schema, for any lexicons, directory and administrators, and whatever else is
\* registered, deleted, interrupted or restarted: ValidateUpload and Load register the
\* same files.
THEOREM UploadsBuild == LexiconSpec => []SchemaBuilds
<1>1. LexiconInv => SchemaBuilds
  BY DEF LexiconInv
<1> QED
  BY <1>1, LexiconInvInit, LexiconInvStep, PTL DEF LexiconSpec

-----------------------------------------------------------------------------
(* The types of a schema.  Types is a bounded iteration; it is shown to    *)
(* reach everything that references lead to, and nothing else.             *)

Defs(reg) == DOMAIN reg.objects \cup DOMAIN reg.records
\* The types S have all records of the registry, and all that their fields lead to.
Closed(reg, S) == Collections(reg) \subseteq S /\ buildFields(reg, S) \subseteq S

LEMMA TypesSteps ==
    ASSUME NEW reg, Cardinality(Defs(reg)) \in Nat
    PROVE  \E a : /\ a[0] = Collections(reg)
                  /\ \A i \in 1 .. Cardinality(Defs(reg)) : a[i] = buildFields(reg, a[i - 1])
                  /\ Types(reg) = a[Cardinality(Defs(reg))]
<1> DEFINE K == Cardinality(Defs(reg))
           Is(f, n) == f = [i \in 0 .. n |-> IF i = 0 THEN Collections(reg) ELSE buildFields(reg, f[i - 1])]
           Not == {n \in 0 .. K : ~\E f : Is(f, n)}
<1>1. \E f : Is(f, K)
  <2> SUFFICES ASSUME Not # {} PROVE FALSE
    OBVIOUS
  <2>0. Not \subseteq Nat
    OBVIOUS
  <2>1. PICK n \in Not : \A m \in Not : n <= m
    <3> HIDE DEF Not
    <3> QED
      BY <2>0, LeastNat
  <2>2. CASE n = 0
    <3> DEFINE f == [i \in 0 .. 0 |-> Collections(reg)]
    <3>1. Is(f, 0)
      OBVIOUS
    <3> QED
      BY <2>1, <2>2, <3>1
  <2>3. CASE n # 0
    <3>1. n - 1 \in 0 .. K /\ n - 1 \notin Not
      <4>1. n \in 0 .. K
        BY <2>1
      <4>2. n - 1 \notin Not
        <5> HIDE DEF Not
        <5> QED
          BY <2>1, <4>1
      <4> QED
        BY <2>3, <4>1, <4>2
    <3>2. PICK f : Is(f, n - 1)
      BY <3>1
    <3> DEFINE g == [i \in 0 .. n |-> IF i = n THEN buildFields(reg, f[n - 1]) ELSE f[i]]
    <3>3. ASSUME NEW i \in 0 .. n
          PROVE  g[i] = IF i = 0 THEN Collections(reg) ELSE buildFields(reg, g[i - 1])
      BY <3>2, <2>3
    <3>4. Is(g, n)
      BY <3>3
    <3> QED
      BY <3>4, <2>1
  <2> QED
    BY <2>2, <2>3
<1> DEFINE a == CHOOSE f : Is(f, K)
<1>2. Is(a, K)
  BY <1>1
<1>3. Types(reg) = a[K]
  BY DEF Types, Defs
<1> HIDE DEF a
<1>4. a[0] = Collections(reg) /\ \A i \in 1 .. K : a[i] = buildFields(reg, a[i - 1])
  BY <1>2
<1> QED
  BY <1>3, <1>4

\* Fields lead to definitions that the registry has.
LEMMA FieldsKnown ==
    ASSUME NEW reg, NEW S
    PROVE  S \subseteq buildFields(reg, S) /\ buildFields(reg, S) \subseteq S \cup Defs(reg)
<1>1. ASSUME NEW p PROVE buildField(reg, p) \subseteq Defs(reg)
  BY DEF buildField, resolveRefType, buildUnionType, ResolveRef, Defs
<1> QED
  BY <1>1 DEF buildFields

\* The types are the least set that has the records and is closed under references
\* (BuildObjectType, BuildRecordType and resolveRefType call one another until every
\* reference has its type): the iteration stops late enough, and adds nothing else.
THEOREM TypesLeast ==
    ASSUME NEW reg, IsFiniteSet(Defs(reg))
    PROVE  Closed(reg, Types(reg)) /\ \A S : Closed(reg, S) => Types(reg) \subseteq S
<1> DEFINE D == Defs(reg)
           K == Cardinality(D)
           C == Collections(reg)
           Next1(S) == buildFields(reg, S)
<1>1. K \in Nat
  BY FS_CardinalityType
<1>2. PICK a : a[0] = C /\ (\A i \in 1 .. K : a[i] = Next1(a[i - 1])) /\ Types(reg) = a[K]
  BY <1>1, TypesSteps
<1>3. \A S : S \subseteq Next1(S) /\ Next1(S) \subseteq S \cup D
  BY FieldsKnown
<1> HIDE DEF D, K, C, Next1
\* Nothing else.
<1>4. ASSUME NEW S, C \subseteq S, Next1(S) \subseteq S
      PROVE  a[K] \subseteq S
  <2> DEFINE Not == {n \in 0 .. K : ~(a[n] \subseteq S)}
  <2>1. ASSUME Not # {} PROVE FALSE
    <3>1. PICK n \in Not : \A m \in Not : n <= m
      <4>1. Not \subseteq Nat
        BY <1>1
      <4> HIDE DEF Not
      <4> QED
        BY <2>1, <4>1, LeastNat
    <3>2. n \in 0 .. K /\ ~(a[n] \subseteq S)
      BY <3>1
    <3>3. n # 0
      BY <1>2, <1>4, <3>2
    <3>4. n - 1 \in 0 .. K /\ n \in 1 .. K /\ n - 1 \notin Not
      <4> HIDE DEF Not
      <4> QED
        BY <1>1, <3>1, <3>2, <3>3
    <3>5. a[n - 1] \subseteq S
      BY <3>4
    <3>6. Next1(a[n - 1]) \subseteq Next1(S)
      BY <3>5 DEF Next1, buildFields
    <3> QED
      BY <1>2, <1>4, <3>2, <3>4, <3>6
  <2>2. K \in 0 .. K
    BY <1>1
  <2> QED
    BY <2>1, <2>2
\* All of them: while a set is not closed, the next one has one definition more.
<1>5. ASSUME NEW n \in 0 .. K
      PROVE  /\ C \subseteq a[n] /\ a[n] \subseteq C \cup D
             /\ Next1(a[n]) \subseteq a[n] \/ Cardinality(a[n] \ C) >= n
  <2> DEFINE Fits(m) == /\ C \subseteq a[m] /\ a[m] \subseteq C \cup D
                        /\ Next1(a[m]) \subseteq a[m] \/ Cardinality(a[m] \ C) >= m
             Not == {m \in 0 .. K : ~Fits(m)}
  <2> SUFFICES ASSUME Not # {} PROVE FALSE
    OBVIOUS
  <2>1. PICK m \in Not : \A k \in Not : m <= k
    <3>1. Not \subseteq Nat
      BY <1>1
    <3> HIDE DEF Not
    <3> QED
      BY <3>1, LeastNat
  <2>2. m \in 0 .. K /\ ~Fits(m)
    BY <2>1
  <2>3. m # 0
    <3>1. a[0] \ C = {}
      BY <1>2
    <3>2. Cardinality(a[0] \ C) = 0
      BY <3>1, FS_EmptySet
    <3>3. C \subseteq a[0] /\ a[0] \subseteq C \cup D
      BY <1>2
    <3>4. Fits(0)
      BY <3>2, <3>3
    <3> QED
      BY <2>2, <3>4
  <2>4. m - 1 \in 0 .. K /\ m \in 1 .. K /\ m - 1 \notin Not
    <3> HIDE DEF Not
    <3> QED
      BY <1>1, <2>1, <2>2, <2>3
  <2>5. Fits(m - 1) /\ a[m] = Next1(a[m - 1])
    BY <1>2, <2>4
  <2>6. C \subseteq a[m] /\ a[m] \subseteq C \cup D /\ a[m - 1] \subseteq a[m]
    BY <1>3, <2>5
  <2>7. CASE Next1(a[m - 1]) \subseteq a[m - 1]
    <3>1. a[m] = a[m - 1]
      BY <2>5, <2>6, <2>7
    <3> QED
      BY <2>2, <2>6, <2>7, <3>1
  <2>8. CASE ~(Next1(a[m - 1]) \subseteq a[m - 1])
    <3> DEFINE P == a[m - 1] \ C
               Q == a[m] \ C
    <3>1. PICK x : x \in a[m] /\ x \notin a[m - 1]
      BY <2>5, <2>8
    <3>2. P \cup {x} \subseteq Q /\ x \notin P /\ Q \subseteq D
      BY <2>5, <2>6, <3>1
    <3>3. IsFiniteSet(D) /\ Cardinality(P) >= m - 1
      BY <2>5, <2>8 DEF D
    <3> HIDE DEF P, Q
    <3>4. IsFiniteSet(Q)
      BY <3>2, <3>3, FS_Subset
    <3>5. IsFiniteSet(P)
      BY <3>2, <3>4, FS_Subset
    <3>6. Cardinality(P) \in Nat /\ Cardinality(P \cup {x}) = Cardinality(P) + 1 /\ IsFiniteSet(P \cup {x})
      BY <3>2, <3>5, FS_AddElement, FS_CardinalityType
    <3>7. Cardinality(Q) \in Nat /\ Cardinality(P \cup {x}) <= Cardinality(Q)
      BY <3>2, <3>4, FS_Subset, FS_CardinalityType
    <3>8. Cardinality(Q) >= m
      BY <2>2, <3>3, <3>6, <3>7
    <3> QED
      BY <2>2, <2>6, <3>8 DEF Q
  <2> QED
    BY <2>7, <2>8
<1>6. C \subseteq a[K] /\ Next1(a[K]) \subseteq a[K]
  <2>1. K \in 0 .. K
    BY <1>1
  <2>2. C \subseteq a[K] /\ a[K] \subseteq C \cup D
    BY <1>5, <2>1
  <2>3. CASE Cardinality(a[K] \ C) >= K
    <3> DEFINE Q == a[K] \ C
    <3>1. Q \subseteq D
      BY <2>2
    <3> HIDE DEF Q
    <3>2. IsFiniteSet(D) /\ K = Cardinality(D)
      BY DEF D, K
    <3>3. Cardinality(Q) <= Cardinality(D) /\ (Cardinality(Q) = Cardinality(D) => Q = D) /\ Cardinality(Q) \in Nat
      BY <3>1, <3>2, FS_Subset, FS_CardinalityType
    <3>4. Q = D
      BY <1>1, <2>3, <3>2, <3>3 DEF Q
    <3>5. D \subseteq a[K]
      BY <3>4 DEF Q
    <3> QED
      BY <1>3, <2>2, <3>5
  <2> QED
    BY <1>5, <2>1, <2>2, <2>3
<1> QED
  BY <1>2, <1>4, <1>6 DEF Closed, C, Next1

-----------------------------------------------------------------------------
(* What is served.  The registry of a process has finitely many            *)
(* definitions, because every row of the table is a file.                  *)

FilesIn(table) == \A id \in DOMAIN table : table[id] \in DOMAIN Files

LEMMA DefsFinite ==
    ASSUME NEW v \in DOMAIN Files
    PROVE  IsFiniteSet(DOMAIN RecordDefs(Files[v])) /\ IsFiniteSet(DOMAIN ObjectDefs(Files[v]))
<1> DEFINE f == Files[v]
<1>1. ASSUME NEW names, IsFiniteSet(names)
      PROVE  IsFiniteSet(Refs(f, names))
  <2> DEFINE g == [d \in names |-> <<f.id, d>>]
  <2>1. g \in Surjection(names, Refs(f, names))
    BY DEF Surjection, Refs
  <2> HIDE DEF g
  <2> QED
    BY <1>1, <2>1, FS_Surjection
<1>2. IsFiniteSet({}) /\ IsFiniteSet({"main"}) /\ IsFiniteSet(DOMAIN f.defs)
  BY FS_EmptySet, FS_Singleton, LexiconAssumption
<1>3. IsFiniteSet(IF f.kind = "defs" THEN {} ELSE {"main"})
  BY <1>2
<1>4. IsFiniteSet(DOMAIN f.defs \cup IF f.kind = "object" THEN {"main"} ELSE {})
  BY <1>2, FS_Union
<1> QED
  BY <1>1, <1>3, <1>4 DEF RecordDefs, ObjectDefs

LEMMA RegisterFinite ==
    ASSUME NEW reg, IsFiniteSet(Defs(reg)), NEW v \in DOMAIN Files
    PROVE  IsFiniteSet(Defs(Register(reg, v)))
<1>1. Defs(Register(reg, v)) = Defs(reg) \cup (DOMAIN RecordDefs(Files[v]) \cup DOMAIN ObjectDefs(Files[v]))
  BY DEF Defs, Register, Over
<1> QED
  BY <1>1, DefsFinite, FS_Union

LEMMA RegisterAllFinite ==
    ASSUME NEW reg, IsFiniteSet(Defs(reg)), NEW files, FilesIn(files), NEW order, Len(order) \in Nat
    PROVE  IsFiniteSet(Defs(RegisterAll(reg, files, order)))
<1>1. PICK a : /\ a[0] = reg
               /\ \A i \in 1 .. Len(order) : a[i] = After(a[i - 1], files, order[i])
               /\ RegisterAll(reg, files, order) = a[Len(order)]
  BY RegisterAllSteps
<1> DEFINE Not == {n \in 0 .. Len(order) : ~IsFiniteSet(Defs(a[n]))}
<1> SUFFICES ASSUME Not # {} PROVE FALSE
  <2>1. Len(order) \in 0 .. Len(order)
    OBVIOUS
  <2> QED
    BY <1>1, <2>1
<1>2. PICK n \in Not : \A m \in Not : n <= m
  <2>1. Not \subseteq Nat
    OBVIOUS
  <2> HIDE DEF Not
  <2> QED
    BY <2>1, LeastNat
<1>3. n \in 0 .. Len(order) /\ ~IsFiniteSet(Defs(a[n]))
  BY <1>2
<1>4. n # 0
  BY <1>1, <1>3
<1>5. n - 1 \in 0 .. Len(order) /\ n \in 1 .. Len(order) /\ n - 1 \notin Not
  <2> HIDE DEF Not
  <2> QED
    BY <1>2, <1>3, <1>4
<1>6. IsFiniteSet(Defs(a[n - 1])) /\ a[n] = After(a[n - 1], files, order[n])
  BY <1>1, <1>5
<1>7. IsFiniteSet(Defs(After(a[n - 1], files, order[n])))
  BY <1>6, RegisterFinite DEF After, Takes, FilesIn
<1> QED
  BY <1>3, <1>6, <1>7

LEMMA LoadFinite ==
    ASSUME NEW table, FilesIn(table)
    PROVE  IsFiniteSet(Defs(Load(table)))
<1> DEFINE order == [i \in 1 .. Len(Dir) |-> i]
<1>1. Len(order) \in Nat /\ Len(Nsids) \in Nat /\ FilesIn(Dir)
  BY LexiconAssumption DEF FilesIn
<1>2. Defs(NewRegistry) = {}
  BY DEF Defs, NewRegistry
<1>3. IsFiniteSet(Defs(NewRegistry))
  BY <1>2, FS_EmptySet
<1>4. IsFiniteSet(Defs(RegisterAll(NewRegistry, Dir, order)))
  <2> HIDE DEF order
  <2> QED
    BY <1>1, <1>3, RegisterAllFinite
<1>5. IsFiniteSet(Defs(loadLexiconsFromDir(NewRegistry)))
  BY <1>4 DEF loadLexiconsFromDir
<1> QED
  BY <1>1, <1>5, RegisterAllFinite DEF Load, RegisterTable

\* The rows that a call is about to write are files.
CallFiles(r) ==
    /\ r.step = "save" => \A id \in DOMAIN r.left : r.left[id] \in DOMAIN Files \cup {Gone}
    /\ r.step = "resolve" => r.id \in DOMAIN Published

FilesInv ==
    /\ FilesIn(lexicons) /\ IsFiniteSet(Defs(registry)) /\ mounted = Build(registry)
    /\ change = [c \in Curators |-> change[c]]
    /\ \A c \in Curators : CallFiles(change[c])

LEMMA FilesInvInit == LexiconInit => FilesInv
<1> SUFFICES ASSUME LexiconInit PROVE FilesInv
  OBVIOUS
<1>1. FilesIn(lexicons)
  BY LexiconAssumption DEF LexiconInit, Relevant, FilesIn
<1>2. CallFiles(Rest)
  BY DEF CallFiles, Rest
<1> QED
  BY <1>1, <1>2, LoadFinite DEF LexiconInit, FilesInv

LEMMA CallFilesKept ==
    ASSUME FilesInv, NEW c \in Curators, NEW r, change' = [change EXCEPT ![c] = r], CallFiles(r),
           FilesIn(lexicons'), UNCHANGED <<registry, mounted>>
    PROVE  FilesInv'
BY DEF FilesInv, CallFiles, FilesIn

LEMMA SavingFiles ==
    ASSUME NEW kind, NEW left, NEW want, NEW synced,
           \A id \in DOMAIN left : left[id] \in DOMAIN Files \cup {Gone}
    PROVE  CallFiles(Saving(kind, left, want, synced))
BY DEF CallFiles, Saving

LEMMA SaveFiles ==
    ASSUME FilesInv, NEW c \in Curators, Save(c)
    PROVE  FilesInv'
<1> DEFINE call == change[c]
<1>1. UNCHANGED <<registry, mounted>> /\ FilesIn(lexicons) /\ CallFiles(call) /\ call.step = "save"
  BY DEF Save, FilesInv
<1>2. CASE change' = [change EXCEPT ![c] = Rest] /\ UNCHANGED lexicons
  <2>1. CallFiles(Rest)
    BY DEF CallFiles, Rest
  <2> QED
    BY <1>1, <1>2, <2>1, CallFilesKept
<1>3. ASSUME NEW id \in DOMAIN call.left,
             lexicons' = IF call.left[id] = Gone THEN Delete(id) ELSE Upsert(id, call.left[id]),
             change' = [change EXCEPT ![c] = Saving(call.kind, Drop(call.left, id), call.want, call.synced)]
      PROVE  FilesInv'
  <2> DEFINE r == Saving(call.kind, Drop(call.left, id), call.want, call.synced)
  <2>1. \A x \in DOMAIN call.left : call.left[x] \in DOMAIN Files \cup {Gone}
    BY <1>1 DEF CallFiles
  <2>2. \A x \in DOMAIN Drop(call.left, id) : Drop(call.left, id)[x] \in DOMAIN Files \cup {Gone}
    BY <2>1 DEF Drop, Restrict
  <2>3. CallFiles(r)
    BY <2>2, SavingFiles
  <2>4. FilesIn(lexicons')
    <3>1. CASE call.left[id] = Gone
      BY <1>1, <1>3, <3>1 DEF Delete, Drop, Restrict, FilesIn
    <3>2. CASE call.left[id] # Gone
      <4>1. call.left[id] \in DOMAIN Files /\ lexicons' = Upsert(id, call.left[id])
        BY <1>3, <2>1, <3>2
      <4> QED
        BY <1>1, <4>1 DEF Upsert, Over, Only, FilesIn
    <3> QED
      BY <3>1, <3>2
  <2> HIDE DEF r
  <2> QED
    BY <1>1, <1>3, <2>3, <2>4, CallFilesKept DEF r
<1> QED
  BY <1>2, <1>3 DEF Save, Done

LEMMA FilesInvStep == FilesInv /\ [LexiconStep]_lexiconVars => FilesInv'
<1> SUFFICES ASSUME FilesInv, [LexiconStep]_lexiconVars
             PROVE  FilesInv'
  OBVIOUS
<1>1. /\ CallFiles(Rest) /\ CallFiles([step |-> "restart"])
      /\ \A x \in DOMAIN Published : CallFiles([step |-> "resolve", kind |-> "register", id |-> x])
      /\ \A k, x : CallFiles([step |-> "callback", kind |-> k, ids |-> x])
  BY DEF CallFiles, Rest
<1>2. FilesIn(lexicons) /\ FilesIn(<<>>)
  BY DEF FilesInv, FilesIn
<1>3. ASSUME NEW c \in Curators, NEW zip \in Zips, UploadLexicons(c, zip)
      PROVE  FilesInv'
  <2> DEFINE r == Saving("upload", Proposed(zip), Over(Proposed(zip), lexicons), registry = Load(lexicons) /\ Apart(lexicons))
  <2>1. CASE change' = change
    BY <1>3, <2>1 DEF UploadLexicons, FilesInv
  <2>2. CASE Readable(zip) /\ change' = [change EXCEPT ![c] = r]
    <3>1. CallFiles(r)
      BY <2>2, ProposedSound, SavingFiles
    <3> HIDE DEF r
    <3> QED
      BY <1>2, <1>3, <2>2, <3>1, CallFilesKept DEF UploadLexicons
  <2> QED
    BY <1>3, <2>1, <2>2 DEF UploadLexicons
<1>4. ASSUME NEW c \in Curators, NEW id \in DOMAIN Published, RegisterLexicon(c, id)
      PROVE  FilesInv'
  BY <1>1, <1>2, <1>4, CallFilesKept DEF RegisterLexicon
<1>5. ASSUME NEW id, NEW v \in DOMAIN Files \cup {Gone}
      PROVE  \A x \in DOMAIN Only(id, v) : Only(id, v)[x] \in DOMAIN Files \cup {Gone}
  BY DEF Only
<1>6. ASSUME NEW c \in Curators, NEW id, DeleteLexicon(c, id)
      PROVE  FilesInv'
  <2>1. CallFiles(Saving("delete", Only(id, Gone), <<>>, FALSE))
    BY <1>5, SavingFiles
  <2> QED
    BY <1>2, <1>6, <2>1, CallFilesKept DEF DeleteLexicon
<1>7. ASSUME NEW c \in Curators, ResolveLexicon(c)
      PROVE  FilesInv'
  <2>1. UNCHANGED <<lexicons, registry, mounted>> /\ change[c].id \in DOMAIN Published
    BY <1>7 DEF ResolveLexicon, FilesInv, CallFiles
  <2>2. CASE Done(c)
    BY <1>1, <1>2, <2>1, <2>2, CallFilesKept DEF Done
  <2>3. ASSUME NEW v \in Published[change[c].id],
               change' = [change EXCEPT ![c] = Saving("register", Only(change[c].id, v), <<>>, FALSE)]
        PROVE  FilesInv'
    <3>1. v \in DOMAIN Files
      BY <2>1, LexiconAssumption
    <3>2. CallFiles(Saving("register", Only(change[c].id, v), <<>>, FALSE))
      BY <1>5, <3>1, SavingFiles
    <3> QED
      BY <1>2, <2>1, <2>3, <3>2, CallFilesKept
  <2> QED
    BY <1>7, <2>2, <2>3 DEF ResolveLexicon
<1>8. ASSUME NEW c \in Curators, Notify(c) \/ LexiconChangeCallback(c) \/ ProcessRestartCallback(c)
      PROVE  FilesInv'
  <2>1. UNCHANGED <<lexicons, registry, mounted>>
    BY <1>8 DEF Notify, LexiconChangeCallback, ProcessRestartCallback
  <2>2. CASE AfterNotify(c)
    <3> DEFINE r == IF change[c].kind = "upload" THEN [step |-> "restart"] ELSE Rest
    <3>1. change' = [change EXCEPT ![c] = r]
      BY <2>2 DEF AfterNotify, FilesInv
    <3>2. CallFiles(r)
      BY <1>1
    <3> HIDE DEF r
    <3> QED
      BY <1>2, <2>1, <3>1, <3>2, CallFilesKept
  <2>3. CASE Notify(c)
    BY <1>1, <1>2, <2>1, <2>2, <2>3, CallFilesKept DEF Notify
  <2>4. CASE LexiconChangeCallback(c)
    BY <2>2, <2>4 DEF LexiconChangeCallback
  <2>5. CASE ProcessRestartCallback(c)
    BY <1>1, <1>2, <2>1, <2>5, CallFilesKept DEF ProcessRestartCallback, Done
  <2> QED
    BY <1>8, <2>3, <2>4, <2>5
<1>9. CASE TakeRestart \/ UNCHANGED lexiconVars
  BY <1>9 DEF TakeRestart, lexiconVars, FilesInv
<1>10. ASSUME NEW table, FilesIn(table), Start(table)
       PROVE  FilesInv'
  BY <1>1, <1>2, <1>10, LoadFinite DEF Start, FilesInv, FilesIn
<1> QED
  BY <1>2, <1>3, <1>4, <1>6, <1>7, <1>8, <1>9, <1>10, SaveFiles DEF LexiconStep, LexiconNext

\* The schema that is served is whole: it has a type for every record and for whatever
\* the fields of its types lead to, and each has fields and a name of its own.
ServedWhole ==
    mounted =>
        \E S : /\ Closed(registry, S)
               /\ \A r \in S : HasFields(registry, r) /\ TypeName[r] # Malformed
               /\ \A r, s \in S : TypeName[r] = TypeName[s] => r = s

\* While /graphql is mounted (setupGraphQL), no reference from a type that is served
\* leads out of the schema or to an object without fields, however deep references
\* nest or loop, whatever was uploaded, registered or deleted, and although definitions
\* of files that were replaced stay in the registry.
THEOREM SchemaWhole == LexiconSpec => []ServedWhole
<1>1. ASSUME FilesInv PROVE ServedWhole
  <2>1. Closed(registry, Types(registry))
    BY <1>1, TypesLeast DEF FilesInv
  <2> QED
    BY <1>1, <2>1 DEF FilesInv, ServedWhole, Build
<1> QED
  BY <1>1, FilesInvInit, FilesInvStep, PTL DEF LexiconSpec
=============================================================================
