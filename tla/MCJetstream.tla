----------------------------- MODULE MCJetstream -----------------------------
(* Instances of Jetstream for TLC: one record, and the event sequences that  *)
(* matter for it.                                                            *)
EXTENDS Jetstream

CONSTANTS u1, c1

put == [kind |-> "put", uri |-> u1, cid |-> c1]
del == [kind |-> "del", uri |-> u1, cid |-> c1]
noop == [kind |-> "noop", uri |-> u1, cid |-> c1]
bad == [kind |-> "bad", uri |-> u1, cid |-> c1]

\* A create and a delete of the same record.
PutDel == <<put, del>>

\* A create, then an unparsable frame.
PutBad == <<put, bad>>

\* A create, then an event that needs no database write.
PutNoop == <<put, noop>>
=============================================================================
