------------------------------- MODULE MCIndex -------------------------------
(* Index for TLC: one repository, two URIs, every kind of event. *)
EXTENDS Index

CONSTANTS d1, u1, u2, c1, c2, h1

MCOwner == [u \in {u1, u2} |-> d1]

Rec(op, u, c, listed, valid) ==
    [kind |-> "record", op |-> op, uri |-> u, cid |-> c, listed |-> listed, object |-> TRUE, valid |-> valid]

\* A record, a second one with the same content, the deletion of the first, a
\* version of the second that enforce mode rejects, a change of handle, then events
\* that the processor passes over and one that it does not know.
MCFeed == [d \in {d1} |->
    << Rec("create", u1, c1, TRUE, TRUE), Rec("create", u2, c1, TRUE, TRUE),
       Rec("delete", u1, c1, TRUE, TRUE), Rec("update", u2, c2, TRUE, FALSE),
       [kind |-> "identity", handle |-> h1], [kind |-> "other"],
       Rec("update", u2, c1, FALSE, TRUE), Rec("rename", u2, c1, TRUE, TRUE) >>]

Quota(n, f, c, p, b, x) ==
    [t \in Troubles |-> CASE t = "publish" -> n [] t = "fault" -> f [] t = "crash" -> c
                          [] t = "pause" -> p [] t = "backfill" -> b [] t = "purge" -> x]
\* Ingestion in trouble; one backfill in trouble; two backfills; a purge next to a
\* backfill, a failure or a crash; one token used twice; the cap.
MCQuotas == {Quota(5, 2, 0, 0, 0, 0), Quota(8, 1, 0, 0, 0, 0), Quota(4, 1, 1, 1, 0, 0),
             Quota(2, 1, 1, 0, 1, 0), Quota(4, 0, 0, 0, 1, 0), Quota(3, 0, 0, 0, 2, 0), Quota(2, 2, 0, 0, 1, 0),
             Quota(1, 0, 0, 0, 1, 2), Quota(1, 1, 0, 0, 0, 2), Quota(1, 0, 1, 0, 0, 2), Quota(0, 0, 1, 0, 0, 3),
             Quota(0, 0, 0, 0, 0, 4)}
=============================================================================
