----------------------------- MODULE RecordData ------------------------------
(***************************************************************************)
(* The JSON of records as queries see it, and the lexicons that describe   *)
(* it.  A record's JSON maps paths to values [type, text]; an array also   *)
(* has its elements, elems, and the generated column subject_did is kept   *)
(* with the paths.  Texts are tokens; Text says what can be told apart.    *)
(***************************************************************************)
CONSTANTS
    Text,      \* the tokens: a record of relations, see below
    Lexicons   \* lexicon id -> [props, elems, required]

\* Text.fold: ASCII lower case.  Text.within, Text.begins: the pairs <<a, b>> with
\* b holding, or beginning with, a whatever the case.  Text.size: the length.
\* Text.digits: the tokens that begin as a number does; Text.num: the value of
\* those that are one.  Text.time: the value of those that are a timestamp.
\* Text.rank: the collation.  Text.dids: the well-formed DIDs.
Null == "null"
JSONNull == [type |-> "null", text |-> Null]

At(row, path) == IF path \in DOMAIN row.json THEN row.json[path] ELSE JSONNull
=============================================================================
