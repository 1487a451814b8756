----------------------------- MODULE MCRetrieval -----------------------------
(* Three employees, two ingests of the first one's resume, two searches. A *)
(* key holds one id less than the longest scope, so that it takes the      *)
(* whole team for the first of it, and a cohort of nobody for everybody's. *)
EXTENDS Retrieval, TLC

CONSTANTS j1, j2, s1, s2

Symmetric == Permutations({j1, j2}) \cup Permutations({s1, s2})

MCPeople == {1, 2, 3}
MCSubject == [j \in {j1, j2} |-> 1]

Q(kind, scoped, ids, named) ==
    [kind |-> kind, scoped |-> scoped, ids |-> ids, named |-> named]

Everybody == Q("cohort", FALSE, {}, {})
Nobodies == Q("cohort", TRUE, {}, {})
Team == Q("cohort", TRUE, {1, 2, 3}, {})
Half == Q("cohort", TRUE, {1, 2}, {})
Namesakes == Q("person", FALSE, {}, {1, 2})
Skilled == Q("skill", TRUE, {2}, {})

MCQueries == {Everybody, Nobodies, Team, Half, Namesakes, Skilled}
=============================================================================
