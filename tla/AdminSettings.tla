---------------------------- MODULE AdminSettings ----------------------------
(***************************************************************************)
(* The settings in table config and the list of administrators among them: *)
(* admin/handler.go decides from the list who may call, AddAdmin,          *)
(* RemoveAdmin and UpdateSettings in admin/resolvers.go read and write it  *)
(* in statements of their own.                                             *)
(*                                                                         *)
(* The row admin_dids is a list of texts.  It is kept as the DIDs on it    *)
(* and the entries it has in excess: a DID given twice, a blank.           *)
(***************************************************************************)
EXTENDS Budget, FiniteSets, Sequences

CONSTANTS
    DIDs,          \* well-formed DIDs
    Blank,         \* an entry that is empty
    Callers,       \* requests at the same time
    EnvAdmins,     \* ADMIN_DIDS: a row
    GoodUrls,      \* those that validateOperatorURL and validateJetstreamURL take
    Default,       \* the built-in value of a setting
    Settings       \* the arguments of updateSettings: setting -> value, the DIDs well-formed

\* A row without blanks and repetitions has no extra entries.
Lists == [dids : SUBSET DIDs, extra : SUBSET (DIDs \cup {Blank})]

ASSUME AdminAssumption ==
    /\ EnvAdmins \in Lists /\ EnvAdmins.dids # {}
    /\ \A args \in Settings : "admin_dids" \in DOMAIN args => args["admin_dids"] \in Lists

VARIABLES
    admins,        \* config row admin_dids
    config,        \* the other config rows
    adminCall,     \* caller -> the mutation under way
    tidy           \* history: no list given had blanks or repetitions

adminVars == <<admins, config, adminCall, tidy>>

NoAdmins == [dids |-> {}, extra |-> {}]
Ready == [step |-> "ready"]
Tidy(row) == row.dids # {} /\ row.extra = {}

\* The order in which UpdateSettings goes through its arguments.
Order == <<"domain_authority", "admin_dids", "relay_url", "plc_directory_url", "jetstream_url", "oauth_supported_scopes">>
Keys == {Order[i] : i \in DOMAIN Order} \ {"admin_dids"}

\* InitializeDefaults has filled the rows that have a default.
AdminInit ==
    /\ admins = EnvAdmins /\ tidy = (EnvAdmins.extra = {})
    /\ config = [k \in Keys |-> Default]
    /\ adminCall = [c \in Callers |-> Ready]

-----------------------------------------------------------------------------

Goto(c, s) == adminCall' = [adminCall EXCEPT ![c].step = s]
Answer(c) == adminCall' = [adminCall EXCEPT ![c] = Ready]

\* ServeHTTP: the caller is an administrator by the list of this moment.
ServeHTTP(c, did, mutation) ==
    /\ adminCall[c] = Ready /\ did \in admins.dids /\ Spend("admin")
    /\ adminCall' = [adminCall EXCEPT ![c] = mutation]
    /\ UNCHANGED <<admins, config, tidy>>

AddAdmin(did) == [step |-> "read", op |-> "add", did |-> did, row |-> NoAdmins]
RemoveAdmin(did) == [step |-> "read", op |-> "remove", did |-> did, row |-> NoAdmins]
UpdateSettings(args) == [step |-> "set", args |-> args, next |-> 1]

\* Config.Get: an error counts as an empty list.
ReadAdmins(c) ==
    /\ adminCall[c].step = "read"
    /\ \/ Fine /\ adminCall' = [adminCall EXCEPT ![c].step = "write", ![c].row = admins]
       \/ Spend("fault") /\ Goto(c, "write")
    /\ UNCHANGED <<admins, config, tidy>>

Length(row) == Cardinality(row.dids) + Cardinality(row.extra)
LeaveOut(row, did) ==
    LET left == row.dids \ {did} IN [dids |-> left, extra |-> IF left = {} THEN {} ELSE row.extra \ {did}]

\* Mutant: the check for the last administrator is gone.
RemovableAlways(row, did) == did \in row.dids
\* Not the last entry of the list, and on it.
Removable(row, did) == Length(row) > 1 /\ did \in row.dids

\* The list as it was read, with the DID added or without it, replaces the row.
WriteAdmins(c) ==
    LET call == adminCall[c] IN
    /\ call.step = "write" /\ Answer(c)
    /\ \/ /\ Fine
          /\ admins' = CASE call.op = "add" /\ call.did \notin call.row.dids ->
                                [call.row EXCEPT !.dids = @ \cup {call.did}]
                         [] call.op = "remove" /\ Removable(call.row, call.did) -> LeaveOut(call.row, call.did)
                         [] OTHER -> admins
       \/ Spend("fault") /\ UNCHANGED admins
    /\ UNCHANGED <<config, tidy>>

\* One argument after another: each is checked, then written; an invalid one or a
\* failure ends the call, what was written stays.
Accepted(k, v) == k \in {"relay_url", "plc_directory_url", "jetstream_url"} => v \in GoodUrls

SetNext(c) ==
    LET call == adminCall[c]
        key  == Order[call.next]
    IN /\ call.step = "set" /\ call.next <= Len(Order)
       /\ IF key \notin DOMAIN call.args
          THEN /\ Fine /\ adminCall' = [adminCall EXCEPT ![c].next = @ + 1]
               /\ UNCHANGED <<admins, config, tidy>>
          ELSE \/ /\ Fine /\ Accepted(key, call.args[key])
                  /\ adminCall' = [adminCall EXCEPT ![c].next = @ + 1]
                  /\ IF key = "admin_dids"
                     THEN /\ admins' = call.args[key] /\ tidy' = (tidy /\ Tidy(call.args[key]))
                          /\ UNCHANGED config
                     ELSE config' = [config EXCEPT ![key] = call.args[key]] /\ UNCHANGED <<admins, tidy>>
               \/ /\ IF Accepted(key, call.args[key]) THEN Spend("fault") ELSE Fine
                  /\ Answer(c) /\ UNCHANGED <<admins, config, tidy>>

SettingsDone(c) ==
    /\ adminCall[c].step = "set" /\ adminCall[c].next > Len(Order)
    /\ Answer(c) /\ Fine /\ UNCHANGED <<admins, config, tidy>>

AdminNext ==
    \E c \in Callers :
        \/ \E d \in DIDs : \/ \E e \in DIDs : ServeHTTP(c, d, AddAdmin(e)) \/ ServeHTTP(c, d, RemoveAdmin(e))
                           \/ \E args \in Settings : ServeHTTP(c, d, UpdateSettings(args))
        \/ ReadAdmins(c) \/ WriteAdmins(c) \/ SetNext(c) \/ SettingsDone(c)

\* initServices: the list of the environment replaces one without DIDs.
AdminBoot ==
    /\ admins' = IF admins.dids = {} THEN EnvAdmins ELSE admins
    /\ adminCall' = [c \in Callers |-> Ready]
    /\ UNCHANGED <<config, tidy>>

\* The component by itself: the process may be restarted at any time.
AdminStep == AdminNext \/ AdminBoot
AdminSpec == AdminInit /\ [][AdminStep]_adminVars

-----------------------------------------------------------------------------

\* Somebody is left who can call the interface: additions and removals that overlap,
\* read a list that is out of date or fail to read it at all may lose one another's
\* changes, but never empty the list (RemoveAdmin, AddAdmin), as long as every list
\* given in full had distinct DIDs and nothing else.
AdminRemains == tidy => admins.dids # {}
=============================================================================
