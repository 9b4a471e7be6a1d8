--------------------------- MODULE MCCollections ---------------------------
(* Instances of Collections for TLC. *)
EXTENDS Collections

CONSTANTS uo, um, un, p1, p2

Row(preset, axes, owner, startsAt, endsAt, duration, freeze) ==
    axes @@ [preset |-> preset, owner |-> owner, startsAt |-> startsAt, endsAt |-> endsAt,
             duration |-> duration, freeze |-> freeze] @@ PresetDefaults[preset]
Usual == [freeze |-> 0]  \* no axis is changed

Members(us, r) == [u \in User |-> IF u \in us THEN NewMember(r) ELSE None]

Exam    == Row("exam", Usual, uo, None, None, 1, 0)
Blind   == Row("contest", [reveal |-> "after_end"], uo, 0, 1, None, 0)
Lecture == Row("course", Usual, None, None, None, None, 0)

World(c1, c2, ms1, ms2) ==
    [role    |-> [u \in User |-> IF u = uo THEN "instructor" ELSE "user"],
     course  |-> (1 :> c1) @@ (2 :> c2),
     member  |-> (1 :> ms1) @@ (2 :> ms2),
     items   |-> (1 :> <<p1>>) @@ (2 :> IF c2 = None THEN <<>> ELSE <<Text, p2, p1>>),
     problem |-> (p1 :> [isPublic |-> FALSE, publicFrom |-> None, owner |-> None])
              @@ (p2 :> [isPublic |-> FALSE, publicFrom |-> None,
                         owner |-> IF c2 = None THEN None ELSE 2])]

Nobody == Members({}, "member")
WithLecture == World(Exam, Lecture, Members({um}, "member"),
                     [Members({uo, un}, "manager") EXCEPT ![um] = NewMember("ta")])
WithBlind   == World(Blind, None, Members({um}, "member"), Nobody)
Worlds == {WithLecture, WithBlind}
ExamOnly == {WithLecture}

SomeDrafts == {[preset |-> "contest", startsAt |-> 1, endsAt |-> 2, duration |-> None,
                freeze |-> 1, visibility |-> "unlisted"]}
SomePatches == {[timing |-> "none", reveal |-> "immediate"], [reveal |-> "after_end"],
                [visibility |-> "public"]}
SomeProblemPatches == {[isPublic |-> TRUE]}
SomeLists == {<<p2, Text>>}
SomeInvitations == {[users |-> {um}, role |-> "member", replace |-> FALSE],
                    [users |-> {un}, role |-> "manager", replace |-> TRUE]}
SomeRoleChanges == {[user |-> u, role |-> "member"] : u \in {uo, un}}
=============================================================================
