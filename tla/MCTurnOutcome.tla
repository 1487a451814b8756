---------------------------- MODULE MCTurnOutcome ----------------------------
(* The plan shapes of plan_from_query_state, heuristic_planner,            *)
(* location_plans, intent_templates and bound_person, two employees.       *)
EXTENDS TurnOutcome

MCCriteria == {"all", "skill", "place", "filter", "status", "name", "team"}

N(id, op, crit, from) ==
    [id |-> id, op |-> op, crit |-> crit, from |-> from, other |-> "none",
     prior |-> FALSE, bound |-> FALSE]
Prior(n) == [n EXCEPT !.prior = TRUE]
Bound(n) == [n EXCEPT !.bound = TRUE]
Meet(id, from, other) == [N(id, "intersect", "all", from) EXCEPT !.other = other]

P(nodes, active) ==
    [nodes |-> nodes, active |-> active, hint |-> "none", universe |-> FALSE,
     howMany |-> FALSE]
HowMany(p) == [p EXCEPT !.howMany = TRUE]

Skill == << N("r1", "search", "skill", "none"), N("ids", "extract", "all", "r1") >>
Place == << N("loc", "search", "place", "none"), N("locids", "extract", "all", "loc") >>

(* _skill_plan: a list, a list among the prior set, and a filtered count   *)
(* in a place, whose filters only the count applies.                       *)
SkillList == P(Skill \o << N("sql1", "rows", "filter", "ids") >>, "sql1")
SkillAmong ==
    P(<< Prior(Skill[1]), Skill[2], Meet("ix", "ids", "prior"),
         N("sql1", "rows", "all", "ix") >>, "sql1")
SkillInPlace ==
    P(Place \o Skill \o << Meet("skloc", "ids", "locids"),
                           N("sql1", "count", "filter", "skloc") >>, "skloc")

(* location_cohort_plan: a list, and a filtered count among the prior set. *)
PlaceList == P(Place \o << N("sql1", "rows", "filter", "locids") >>, "sql1")
PlaceCount ==
    HowMany(P(Place \o << Meet("locix", "locids", "prior"),
                          N("sql1", "count", "filter", "locix") >>, "locix"))

(* _filtered_count_plan, _plain_count_plan, _list_plan. *)
FilteredCount ==
    P(<< Prior(N("cohort", "idrows", "filter", "none")),
         Prior(N("sql1", "count", "filter", "none")) >>, "cohort")
Headcount ==
    [P(<< N("sql1", "count", "all", "none") >>, "none") EXCEPT !.universe = TRUE]
(* _filtered_count_plan of an employment status (expand_intent), and the   *)
(* one generated statement of expand_selected_tools.                       *)
StatusCount ==
    HowMany(P(<< N("cohort", "idrows", "status", "none"),
                 N("sql1", "count", "status", "none") >>, "cohort"))
Generated == P(<< N("t1", "generated", "filter", "none") >>, "t1")
List == P(<< N("sql1", "rows", "filter", "none") >>, "sql1")

(* Person lookups, by name or bound; the reports of a manager, and those   *)
(* who have a skill.                                                       *)
Profile == P(<< N("e1", "person", "name", "none"), N("loc", "fact", "all", "e1") >>, "e1")
ById == P(<< Bound(N("e1", "person", "all", "none")) >>, "e1")
Where == P(<< Bound(N("r1", "fact", "all", "none")) >>, "none")
Team ==
    P(<< N("mgr", "reports", "team", "none"), N("r1", "search", "skill", "mgr"),
         N("ids", "extract", "all", "r1"), N("sql1", "rows", "all", "ids") >>, "ids")
Reports == P(<< N("e1", "reports", "team", "none") >>, "e1")

Greeting == P(<< N("g1", "greeting", "all", "none") >>, "none")
OutOfScope == [P(<<>>, "none") EXCEPT !.hint = "out_of_scope"]
Clarify == [P(<<>>, "none") EXCEPT !.hint = "ambiguous"]

MCPlans ==
    {SkillList, SkillAmong, SkillInPlace, PlaceList, PlaceCount, FilteredCount,
     StatusCount, Generated, List, Profile, ById, Where, Team, Reports,
     Greeting, OutOfScope, Clarify, Headcount}

ASSUME PlansAreSound == SoundPlans

Symmetry == Permutations(People)
=============================================================================
