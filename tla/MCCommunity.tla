---------------------------- MODULE MCCommunity ----------------------------
(* Instances of Community for TLC: an administrator and a user. *)
EXTENDS Community

CONSTANTS h1, h2, h3, a1, a2, a3

Tables(post, comment) ==
    [users    |-> [u \in User |-> IF u = 1 THEN NewUser(h1, "admin")
                                 ELSE IF u = 2 THEN NewUser(h2, "user") ELSE None],
     emails   |-> {Address(-1, 1, a1, TRUE), Address(-2, 2, a2, TRUE)},
     posts    |-> [i \in Post |-> post],
     comments |-> [c \in Comment |-> IF c = 1 THEN comment ELSE None]]
\* Nothing is written yet, or each has written once: a solution with a comment.
Beginnings ==
    {Tables(None, None),
     Tables([user |-> 1, day |-> 0, deleted |-> FALSE, count |-> 1],
            [user |-> 2, day |-> 0, deleted |-> FALSE, post |-> 1])}
NobodySolvedMuch == [u \in User |-> 0]
=============================================================================
