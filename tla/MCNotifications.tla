--------------------------- MODULE MCNotifications ---------------------------
(* Instances of Notifications for TLC: two endorsements that may share a     *)
(* subject, and an activity with contributors.                               *)
EXTENDS Notifications, TLC

CONSTANTS w1, w2, r1, r2, ann, bob, cat, s1, s2

endorse(o, r, k, t) == [op |-> o, uri |-> r, author |-> ann, to |-> <<bob>>, key |-> k, at |-> t]
activity(o, to) == [op |-> o, uri |-> r2, author |-> ann, to |-> to, key |-> NoKey, at |-> 1]

\* Two endorsements of one subject, the newer one deleted or moved to another
\* subject (with a createdAt that is not usable); one deleted and made again; an
\* activity that names its author, a handle and bob twice, then others, then nobody.
MCLogs ==
    {<<endorse("create", r1, s1, 2), endorse("create", r2, s1, 1), endorse("delete", r1, s1, 2)>>,
     <<endorse("create", r2, s1, 1), endorse("create", r1, s1, 2), endorse("update", r1, s2, NoTime)>>,
     <<endorse("create", r1, s1, 2), endorse("update", r1, s2, 2), endorse("create", r2, s2, 1)>>,
     <<endorse("create", r1, s1, 2), endorse("delete", r1, s1, 2), endorse("create", r1, s1, 1)>>,
     <<activity("create", <<ann, bob, bob, cat>>), activity("update", <<cat, "handle">>),
       activity("update", <<ann>>)>>}

\* The goroutines are interchangeable.
Symmetry == Permutations(Workers)
=============================================================================
