------------------------------ MODULE FollowUps ------------------------------
(***************************************************************************)
(* What a session is told when no model answers: PlanCompiler's guards,    *)
(* plan_from_query_state and try_heuristic_plan read the question and what *)
(* the session remembers, the plan is evaluated, and commit remembers what *)
(* the next question may refer to.                                         *)
(*                                                                         *)
(* A question is what the patterns recognise in it; a plan is what it asks *)
(* for.  Nothing fails here and nobody writes (see TurnOutcome and         *)
(* StatusConfirmation); facts of one resume are asked for in ResumeFacts.  *)
(* Orders, limits and the cap of 50 are left out.                          *)
(***************************************************************************)
EXTENDS FiniteSets, Functions, Integers

CONSTANTS People,     \* employees
          Record,     \* field -> value of each, those of the resume included
          Questions,  \* what may be asked
          None

SqlFields == {"department", "position", "hire_date_gte", "hire_date_gt", "manager"}
PlaceFields == {"city", "country"}
Remembered == {"department", "position", "city", "country"}

(* What the patterns may recognise. *)
Patterns ==
    {"unsupported", "headcount", "bare dept", "bare skill", "meta", "pronoun", "person",
     "attribute", "skills of", "about", "reports", "manager", "previous", "names",
     "named", "whereabouts", "facet count", "facet list", "refers", "count", "any of them", "which of them",
     "skill intent", "knowing", "tenure", "longest", "unknown place", "location",
     "lists", "narrows", "employees", "anyone", "staff", "titles", "residual", "shift"}

ASSUME FollowUpAssumption ==
    /\ IsFiniteSet(People)
    /\ \A e \in People :
          /\ SqlFields \cup PlaceFields \cup {"skills"} \subseteq DOMAIN Record[e]
          /\ Record[e].manager \in People \cup {None}
    /\ \A S \in SUBSET People : S # None
    /\ \A q \in Questions :
          /\ q.says \subseteq Patterns
          /\ DOMAIN q.filters \subseteq Remembered
          /\ DOMAIN q.hired \subseteq {"hire_date_gte", "hire_date_gt"}
          /\ IF q.says \cap {"about", "manager", "reports", "whereabouts"} = {}
             THEN q.who \in People \cup {None} ELSE q.who \in People
          /\ q.says \cap {"names", "meta"} # {} => "refers" \in q.says
          /\ "headcount" \in q.says => "refers" \notin q.says
          /\ "bare skill" \in q.says => q.skill # None

(* last_employee_ids, last_listed, constraint_memory, the dimension of     *)
(* last_focus, whether last_count is there, person_bindings, and whom      *)
(* entity_memory knows by name.                                            *)
VARIABLE memory

Nobody == [cohort |-> {}, listed |-> {}, constraints |-> <<>>, facet |-> None,
           counted |-> FALSE, he |-> None, known |-> {}]

FollowUpInit == memory = Nobody

Says(q, pattern) == pattern \in q.says
Place(f) == Restrict(f, DOMAIN f \cap PlaceFields)
Sql(f) == Restrict(f, DOMAIN f \ PlaceFields)
Only(field, value) == [k \in {field} |-> value]
Department(f) == Restrict(f, DOMAIN f \cap {"department"})
Mentioned(q) == IF q.dept = None THEN <<>> ELSE Only("department", q.dept)
Empty(f) == DOMAIN f = {}
Over(f, g) == [k \in DOMAIN f \cup DOMAIN g |-> IF k \in DOMAIN f THEN f[k] ELSE g[k]]
IsOne(people) == \E e \in People : people = {e}
TheOne(people) == CHOOSE e \in People : people = {e}
Meets(e, f) == \A k \in DOMAIN f : Record[e][k] = f[k]

-----------------------------------------------------------------------------
(* Plans: `among` is employee_ids or the ids intersected with; fields of   *)
(* the resume are retrieved, the others are filters of the sql node.       *)
Plan(does, among, filters, skill) ==
    [does |-> does, among |-> among, filters |-> filters, skill |-> skill,
     dim |-> None, who |-> None, code |-> None]

(* A planner that leaves the question to the next one. *)
Declines == Plan("decline", None, <<>>, None)

Say(code) == [Plan("say", None, <<>>, None) EXCEPT !.code = code]
Values(dim, does) == [Plan(does, None, <<>>, None) EXCEPT !.dim = dim]
Person(p, does) == [Plan(does, None, <<>>, None) EXCEPT !.who = p]
Reports(p) == Plan("list", None, Only("manager", p), None)

(* Mutant of OverIds: the filters that narrow the ids are lost. *)
OverIdsAll(does, ids, extra) == Plan(does, ids, <<>>, None)

OverIds(does, ids, extra) == Plan(does, ids, extra, None)
Filtered(does, filters) == Plan(does, None, filters, None)

ReportsTo(p) == {e \in People : Record[e].manager = p}

(* The skill is searched for among the reports, in the whole corpus when   *)
(* there are none.                                                         *)
Team(p, skill, place) ==
    [Plan("team", IF ReportsTo(p) = {} THEN None ELSE ReportsTo(p), place, skill)
        EXCEPT !.who = p]

Repeat(m) ==
    IF m.counted THEN Say("repeat")
    ELSE IF m.cohort # {} THEN OverIds("count", m.cohort, <<>>) ELSE Say("nothing counted")

Pronoun(m) ==
    IF m.he # None THEN Person(m.he, "person")
    ELSE IF IsOne(m.known) THEN Person(TheOne(m.known), "person") ELSE Say("ambiguous")

(* A person is asked about by a name that the session has heard.           *)
Familiar(q, m) == Says(q, "named") /\ q.who \in m.known

(* elliptical_bound_person_plan: an attribute of whoever is in focus, when *)
(* the question names nobody, or nobody the session knows.                 *)
Elliptical(q, m) ==
    IF Familiar(q, m) THEN Declines
    ELSE IF IsOne(m.cohort) THEN Person(TheOne(m.cohort), "person")
    ELSE IF IsOne(m.listed) THEN Person(TheOne(m.listed), "person")
    ELSE IF m.he # None THEN Person(m.he, "person") ELSE Declines

(* Mutant of Among: "them" is forgotten. *)
AmongAll(q, m) == None

Among(q, m) == IF Says(q, "refers") /\ m.cohort # {} THEN m.cohort ELSE None

CountOr(q, other) == IF Says(q, "count") THEN "count" ELSE other
Refine(q) == IF Says(q, "any of them") THEN "count" ELSE CountOr(q, "list")

-----------------------------------------------------------------------------
(* extract_query_state: the intent, the filters, and whether it is at      *)
(* least 0.7 sure.                                                         *)
Read(intent, filters, sure) == [intent |-> intent, filters |-> filters, sure |-> sure]

(* Mutant of Merged: whatever is remembered is kept. *)
MergedAlways(q, m, own) == Over(own, m.constraints)

Merged(q, m, own) == IF Says(q, "refers") THEN Over(own, m.constraints) ELSE own

Counts(q) == Says(q, "count") \/ Says(q, "which of them")

(* Lists, counts, and what only names conditions. *)
ExtractedSet(q, m, own) ==
    LET all == Merged(q, m, own)
    IN  IF Says(q, "names") \/ (Says(q, "lists") /\ ~Counts(q))
        THEN Read("list", all, ~Empty(own) \/ Says(q, "refers"))
        ELSE IF Counts(q) \/ (Says(q, "refers") /\ ~Empty(own) /\ Says(q, "narrows"))
        THEN Read("count", all, ~Empty(own) \/ Says(q, "refers") \/ Says(q, "employees"))
        ELSE IF ~Empty(own) THEN Read("list", all, TRUE)
        ELSE Read("unknown", own, FALSE)

Extracted(q, m) ==
    LET own == Over(q.filters, q.hired)
        all == Merged(q, m, own)
        early == Merged(q, m, q.filters)
    IN  IF Says(q, "unsupported") THEN Read("unsupported", <<>>, TRUE)
        ELSE IF Says(q, "bare dept") THEN Read("count", early, TRUE)
        ELSE IF Says(q, "tenure") THEN Read("tenure_agg", early, TRUE)
        ELSE IF Says(q, "longest") THEN Read("longest_tenured", early, TRUE)
        ELSE IF "hire_date_gte" \in DOMAIN q.hired
        THEN Read(IF Counts(q) THEN "count" ELSE "list", all, TRUE)
        ELSE IF q.skill # None /\ Says(q, "knowing") THEN Read("skill_search", all, TRUE)
        ELSE IF Says(q, "reports") THEN Read("reports", all, TRUE)
        ELSE IF Says(q, "manager") THEN Read("manager", own, TRUE)
        ELSE IF Says(q, "about") THEN Read("profile", own, TRUE)
        ELSE IF Says(q, "facet count") THEN Read("facet_count", own, TRUE)
        ELSE IF Says(q, "facet list") THEN Read("facet_list", own, TRUE)
        ELSE ExtractedSet(q, m, own)

-----------------------------------------------------------------------------
(* plan_from_query_state. *)
Structured(q, x, m) ==
    LET among == Among(q, m)
    IN  IF ~x.sure \/ x.intent = "unknown" THEN Declines
        ELSE IF x.intent = "unsupported" THEN Say("out_of_scope")
        ELSE IF x.intent = "list" /\ Empty(x.filters) /\ Says(q, "refers")
        THEN IF m.facet # None THEN Values(m.facet, "values")
             ELSE IF m.cohort # {} THEN OverIds("list", m.cohort, <<>>)
             ELSE Say("ambiguous")
        ELSE IF x.intent = "facet_count" THEN Values(q.dim, "count values")
        ELSE IF x.intent = "facet_list" THEN Values(q.dim, "values")
        ELSE IF x.intent = "reports" THEN Reports(q.who)
        ELSE IF x.intent = "tenure_agg" THEN Filtered("tenure", Department(x.filters))
        ELSE IF x.intent = "longest_tenured" THEN Filtered("list", Department(x.filters))
        ELSE IF x.intent = "manager" THEN Person(q.who, "manager")
        ELSE IF x.intent = "profile" THEN Person(q.who, "person")
        ELSE IF x.intent = "skill_search"
        THEN IF ~Says(q, "count") /\ ~Says(q, "refers") /\ Empty(x.filters) THEN Declines
             ELSE Plan(IF Empty(q.hired) THEN CountOr(q, "list") ELSE "count",
                       among, x.filters, q.skill)
        ELSE IF x.intent = "count"
        THEN IF ~Empty(x.filters) \/ among # None THEN Plan("count", among, x.filters, None)
             ELSE IF Says(q, "refers") THEN Declines ELSE Filtered("headcount", <<>>)
        ELSE IF Empty(x.filters) /\ m.cohort = {} THEN Declines
        ELSE Plan("list", among, x.filters, None)

-----------------------------------------------------------------------------
(* try_heuristic_plan.  What is asked for by itself: *)
Claimed(q, m) ==
    LET scope == Sql(m.constraints)
    IN  IF Says(q, "unsupported") THEN Say("out_of_scope")
        ELSE IF Says(q, "headcount") THEN Filtered("count", <<>>)
        ELSE IF Says(q, "bare dept") THEN Filtered("count", Mentioned(q))
        ELSE IF Says(q, "bare skill")
        THEN IF m.cohort # {} THEN Plan("count", m.cohort, <<>>, q.skill)
             ELSE Plan(IF Empty(scope) THEN "list" ELSE "count", None, scope, q.skill)
        ELSE IF Says(q, "meta") THEN Repeat(m)
        ELSE IF Says(q, "attribute") /\ Elliptical(q, m) # Declines THEN Elliptical(q, m)
        ELSE IF Familiar(q, m) /\ Says(q, "person") THEN Person(q.who, "person")
        ELSE IF Says(q, "pronoun") /\ Says(q, "person") THEN Pronoun(m)
        ELSE Declines

(* What names somebody, names again, or a facet. *)
NamedOrListed(q, m) ==
    IF Says(q, "whereabouts") THEN Person(q.who, "person")
    ELSE IF Says(q, "reports") /\ q.skill # None
    THEN Team(q.who, q.skill, Over(Place(q.filters), Place(m.constraints)))
    ELSE IF Says(q, "reports") THEN Reports(q.who)
    ELSE IF Says(q, "manager") THEN Person(q.who, "manager")
    ELSE IF Says(q, "previous")
    THEN IF m.cohort # {} THEN OverIds("list", m.cohort, <<>>) ELSE Say("ambiguous")
    ELSE IF Says(q, "names") /\ m.facet # None THEN Values(m.facet, "values")
    ELSE IF Says(q, "names") /\ m.cohort # {} THEN OverIds("list", m.cohort, <<>>)
    ELSE IF Says(q, "names") /\ ~Says(q, "facet list") THEN Say("ambiguous")
    ELSE IF Says(q, "facet count") THEN Values(q.dim, "count values")
    ELSE IF Says(q, "facet list") THEN Values(q.dim, "values")
    ELSE Declines

(* What is asked about "them": the ids, or else the conditions remembered. *)
AboutThem(q, m) ==
    LET place == Over(Place(q.filters), Place(m.constraints))
        scope == Sql(m.constraints)
        wanted == Says(q, "count") \/ Says(q, "names")
    IN  IF ~Says(q, "refers") THEN Declines
        ELSE IF m.cohort # {} /\ ~Empty(Place(q.filters))
        THEN Plan(Refine(q), m.cohort, Place(q.filters), None)
        ELSE IF m.cohort # {} /\ ~Empty(Department(q.filters))
        THEN OverIds(CountOr(q, "list"), m.cohort, Department(q.filters))
        ELSE IF m.cohort # {} /\ Says(q, "count") /\ q.skill = None
        THEN OverIds("count", m.cohort, <<>>)
        ELSE IF m.cohort = {} /\ q.skill = None /\ ~Empty(place)
        THEN Filtered(IF Says(q, "names") THEN CountOr(q, "list") ELSE "count",
                      Over(place, scope))
        ELSE IF m.cohort = {} /\ q.skill = None /\ ~Empty(scope) /\ wanted
        THEN Filtered(CountOr(q, "list"), scope)
        ELSE Declines

(* What is asked of the company, unless it is scoped. *)
OrgWide(q, m) ==
    LET place == Place(q.filters)
        dept == Mentioned(q)
        scope == Sql(m.constraints)
        scoped == Says(q, "refers") /\ (m.cohort # {} \/ ~Empty(scope))
        skilled == q.skill # None /\ Says(q, "skill intent")
        kept == IF scoped /\ m.cohort = {} THEN scope ELSE <<>>
    IN  IF Says(q, "tenure") THEN Filtered("tenure", dept)
        ELSE IF Says(q, "longest") THEN Filtered("list", dept)
        ELSE IF ~Empty(dept) /\ ~scoped /\ (Says(q, "count") \/ Says(q, "staff"))
        THEN Filtered(CountOr(q, "list"), Over(place, dept))
        ELSE IF /\ ~Empty(place) /\ ~scoped /\ ~skilled
                /\ Says(q, "count") \/ Says(q, "anyone")
        THEN Filtered(CountOr(q, "list"), place)
        ELSE IF /\ "position" \in DOMAIN q.filters /\ ~scoped
                /\ ~Says(q, "count") /\ Says(q, "titles")
        THEN Filtered("list", Only("position", q.filters["position"]))
        ELSE IF ~Empty(q.hired) THEN Filtered(CountOr(q, "list"), q.hired)
        ELSE IF skilled
        THEN Plan(IF Says(q, "which of them") THEN "count" ELSE CountOr(q, "list"),
                  Among(q, m), Over(Over(place, Place(m.constraints)), kept), q.skill)
        ELSE Declines

(* What is left. *)
LastChance(q) ==
    LET place == Place(q.filters)
    IN  IF Says(q, "about") THEN Person(q.who, "person")
        ELSE IF Says(q, "location") /\ ~Empty(place)
        THEN Filtered(CountOr(q, "list"), place)
        ELSE IF Says(q, "location")
        THEN Values(IF q.dim \in PlaceFields THEN q.dim ELSE "city",
                    IF q.dim \in PlaceFields /\ Says(q, "count")
                    THEN "count values" ELSE "values")
        ELSE IF Says(q, "unknown place") THEN Say("ambiguous")
        ELSE IF Says(q, "count") /\ q.dept # None THEN Filtered("count", Mentioned(q))
        ELSE IF Says(q, "count") /\ Empty(place) /\ q.skill = None
        THEN Filtered("count", <<>>)
        ELSE IF Says(q, "residual") THEN Say("unclear")
        ELSE Declines

OrElse(p, other) == IF p # Declines THEN p ELSE other

Heuristic(q, m) ==
    OrElse(Claimed(q, m), OrElse(NamedOrListed(q, m),
        OrElse(AboutThem(q, m), OrElse(OrgWide(q, m), LastChance(q)))))

-----------------------------------------------------------------------------
(* What _compile_pair answers before anything else, and then the cascade   *)
(* that is left when the selector and the model are unavailable.           *)
PersonGuard(q, m) ==
    IF Says(q, "meta") THEN Repeat(m)
    ELSE IF Says(q, "headcount") THEN Filtered("count", <<>>)
    ELSE IF Says(q, "about") THEN Person(q.who, "person")
    ELSE IF Says(q, "unsupported") THEN Say("out_of_scope")
    ELSE IF Says(q, "skills of")
    THEN IF IsOne(m.known) THEN Person(TheOne(m.known), "skills") ELSE Say("ambiguous")
    ELSE IF Says(q, "pronoun") /\ Says(q, "person") THEN Pronoun(m)
    ELSE Declines

SetGuard(q, x, m) ==
    LET place == Place(q.filters)
    IN  IF Says(q, "facet count") THEN Values(q.dim, "count values")
        ELSE IF Says(q, "facet list") THEN Values(q.dim, "values")
        ELSE IF Says(q, "names")
        THEN IF m.facet # None THEN Values(m.facet, "values")
             ELSE IF m.cohort # {} THEN OverIds("list", m.cohort, <<>>)
             ELSE IF m.listed # {} THEN OverIds("list", m.listed, <<>>)
             ELSE Say("empty_cohort")
        ELSE IF ~Empty(q.hired) THEN Filtered(CountOr(q, "list"), q.hired)
        ELSE IF x.intent \in {"tenure_agg", "longest_tenured"} THEN Structured(q, x, m)
        ELSE IF Says(q, "unknown place") THEN Say("ambiguous")
        ELSE IF /\ Says(q, "refers") /\ Cardinality(m.cohort) >= 2
                /\ ~Empty(place) /\ q.skill = None
        THEN Plan(Refine(q), m.cohort, place, None)
        ELSE IF /\ Says(q, "refers") /\ m.cohort = {}
                /\ Empty(place) /\ q.skill = None /\ q.dept = None
        THEN Say("ambiguous")
        ELSE IF x.intent \in {"list", "count"} /\ ~Empty(x.filters) /\ x.sure
        THEN Structured(q, x, m)
        ELSE IF Says(q, "attribute") THEN Elliptical(q, m)
        ELSE Declines

Compile(q, m) ==
    LET x == Extracted(q, m)
    IN  OrElse(PersonGuard(q, m), OrElse(SetGuard(q, x, m),
            OrElse(Structured(q, x, m), OrElse(Heuristic(q, m), Say("unavailable")))))

-----------------------------------------------------------------------------
(* What a plan's nodes return. *)
Retrieves(p) == ~Empty(Place(p.filters)) \/ p.skill # None
InPlace(p) == {e \in People : Meets(e, Place(p.filters))}
Skilled(p) ==
    {e \in IF p.among = None THEN People ELSE p.among : p.skill \in Record[e].skills}

Retrieved(p) ==
    {e \in IF p.among = None THEN People ELSE p.among :
        /\ Meets(e, Place(p.filters))
        /\ p.skill # None => p.skill \in Record[e].skills}

(* The rows, or what is counted. *)
Found(p) == {e \in Retrieved(p) : Meets(e, Sql(p.filters))}

Managers(p) ==
    LET boss == Record[p].manager
    IN  IF boss = None THEN {}
        ELSE {boss} \cup IF Record[boss].manager = None THEN {} ELSE {Record[boss].manager}

(* extract_cohort_ids: a count publishes what was retrieved.               *)
(* Mutant: it publishes the rows alone, and a count has none.              *)
PublishedRows(p) == IF p.does \in {"list", "team"} THEN Found(p) ELSE {}

Published(p) ==
    IF p.does \in {"list", "team"} THEN Found(p)
    ELSE IF p.does = "count" THEN IF Retrieves(p) THEN Retrieved(p) ELSE Found(p)
    ELSE IF p.does \in {"person", "skills"} THEN {p.who}
    ELSE IF p.does = "manager" THEN {p.who} \cup Managers(p.who)
    ELSE {}

(* should_update_last_employee_ids *)
Saved(p) ==
    IF \/ p.does # "count"
       \/ Retrieves(p) \/ p.among # None
       \/ DOMAIN p.filters \cap {"department", "position", "hire_date_gt"} # {}
    THEN Published(p) ELSE {}

Cleared(p) == p.does \in {"list", "count", "team", "manager"} /\ Published(p) = {}

(* extract_listed_employees: the names of the answer, or of the first      *)
(* search that has any.                                                    *)
Listed(p) ==
    LET lists == p.does \in {"list", "team"}
    IN  IF p.does = "team" /\ ReportsTo(p.who) # {} THEN ReportsTo(p.who)
        ELSE IF p.does = "skills" THEN {p.who}
        ELSE IF lists /\ Found(p) # {} THEN Found(p)
        ELSE IF lists /\ ~Empty(Place(p.filters)) /\ InPlace(p) # {} THEN InPlace(p)
        ELSE IF lists /\ p.skill # None THEN Skilled(p)
        ELSE {}

(* extract_entities_from_state *)
Entities(p) ==
    LET hits == (IF Empty(Place(p.filters)) THEN {} ELSE InPlace(p))
                    \cup (IF p.skill = None THEN {} ELSE Skilled(p))
    IN  IF p.does = "list" THEN Found(p) \cup hits
        ELSE IF p.does = "team" THEN Found(p) \cup hits \cup ReportsTo(p.who)
        ELSE IF p.does = "count" THEN hits
        ELSE IF p.who # None THEN {p.who}
        ELSE {}

-----------------------------------------------------------------------------
(* clear_referents, when the topic shifts *)
Shifted(q, m) ==
    IF Says(q, "shift")
    THEN [m EXCEPT !.cohort = {}, !.listed = {}, !.facet = None, !.he = None] ELSE m

(* merge_query_constraints: a headcount starts over. *)
Constrained(q, m) ==
    LET x == Extracted(q, m)
        all == /\ x.intent = "count" /\ ~Says(q, "refers")
               /\ Empty(x.filters)
        kept == IF all THEN [m EXCEPT !.cohort = {}, !.listed = {}, !.constraints = <<>>]
                ELSE m
    IN  [kept EXCEPT !.constraints = Over(q.filters, kept.constraints)]

(* Mutant of FacetAfter: a list does not end the talk of cities. *)
FacetKept(m, p) == IF p.dim # None THEN p.dim ELSE m.facet

FacetAfter(m, p) ==
    IF p.dim # None THEN p.dim ELSE IF Saved(p) # {} THEN None ELSE m.facet

Answer(q, m) == Compile(q, Shifted(q, m))

(* commit *)
After(m, p) ==
    LET saved == Saved(p)
        listed == Listed(p)
        named == Entities(p)
    IN  [m EXCEPT
           !.cohort = IF saved # {} THEN saved ELSE IF Cleared(p) THEN {} ELSE @,
           !.listed = IF listed # {} THEN listed ELSE IF Cleared(p) THEN {} ELSE @,
           !.facet = FacetAfter(m, p),
           !.counted = @ \/ p.does \in {"count", "headcount", "count values"}
                         \/ p.dim \in PlaceFields,
           !.he = IF IsOne(named) THEN TheOne(named) ELSE @,
           !.known = @ \cup named]

Turn(q, m, p) == After(Constrained(q, Shifted(q, m)), p)

Ask(q) == memory' = Turn(q, memory, Answer(q, memory))

(* last_count is kept for three minutes. *)
Expire ==
    /\ memory.counted
    /\ memory' = [memory EXCEPT !.counted = FALSE]

FollowUpNext ==
    \/ \E q \in Questions : Ask(q)
    \/ Expire

FollowUpSpec == FollowUpInit /\ [][FollowUpNext]_memory

-----------------------------------------------------------------------------
Lists(p) == p.does \in {"list", "team"}
Counted(p) == p.does \in {"count", "headcount"}
Finds(p) == Lists(p) \/ Counted(p)

(* Two plans that are the same, or list or count the same people. *)
Alike(p, c) == p = c \/ (Finds(p) /\ Finds(c) /\ Found(p) = Found(c))

(* Whatever was talked about, a question that refers to nobody is planned  *)
(* as the first of a session: what is remembered never narrows it.  Only   *)
(* somebody the session has heard of may be told by the name alone.  (The  *)
(* city remembered narrows a question about a skill; an attribute, or      *)
(* skills, without an owner are those of the person in focus.)             *)
FreshStandsAlone ==
    \A q \in Questions :
        /\ q.says \cap {"refers", "pronoun", "previous", "attribute", "skills of"} = {}
        /\ q.skill = None
        => \/ Compile(q, memory) = Compile(q, Nobody)
           \/ Familiar(q, memory) /\ Compile(q, memory) = Person(q.who, "person")

(* While the session has a "them", whoever is listed or counted in answer  *)
(* to a question about them is one of them, by whichever of the planners   *)
(* and whatever was asked before.  (Who joined in a window, reports to     *)
(* somebody or has been here longest, even "which of them", is asked of    *)
(* the company.)                                                           *)
FollowUpsStayInside ==
    memory.cohort # {} =>
        \A q \in Questions :
            LET p == Compile(q, memory)
            IN  /\ Says(q, "refers") /\ Empty(q.hired)
                /\ q.says \cap {"reports", "longest"} = {}
                /\ Lists(p) \/ Counted(p)
                => Found(p) \subseteq memory.cohort

(* The patterns of questions that are not about the list, whatever else    *)
(* they say.                                                               *)
Elsewhere == {"meta", "about", "unsupported", "skills of", "pronoun", "facet count",
              "facet list"}

(* Whoever an answer lists is "them" afterwards, and "names please" lists  *)
(* the same people again: not the values of the facet, and not the list,   *)
(* that was talked about before.                                           *)
ListedIsThem ==
    \A q \in Questions :
        LET p == Answer(q, memory)
            next == Turn(q, memory, p)
        IN  Lists(p) /\ Found(p) # {} =>
                /\ next.cohort = Found(p)
                /\ \A r \in Questions :
                      Says(r, "names") /\ r.says \cap Elsewhere = {} =>
                          Found(Compile(r, next)) = next.cohort

(* Nobody who is counted under a condition is missing from "them" in the   *)
(* next question: the nodes that count return no ids of their own.  (A     *)
(* window of hire dates is no condition here.)                             *)
CountedAreThem ==
    \A q \in Questions :
        LET p == Answer(q, memory)
        IN  /\ p.does = "count"
            /\ \/ Retrieves(p) \/ p.among # None
               \/ DOMAIN p.filters \ {"hire_date_gte"} # {}
            => Found(p) \subseteq Turn(q, memory, p).cohort

(* The two planners without a model are of one mind: with a "them" and no  *)
(* condition remembered, the cascade of heuristics lists or counts the     *)
(* people that compile's guards and the query state do, and what lists and *)
(* counts nobody is the same plan.  But to the heuristics a question about *)
(* somebody the session has heard of asks for that person, whatever of     *)
(* them it names: their manager, or who is on their team.  (A job title is *)
(* also a department to the heuristics, "which of them know" a skill is a  *)
(* question about one person to the guards, and of a department and a      *)
(* window of hire dates each takes one: "how many people joined ..." asks  *)
(* for the department People, too.)                                        *)
TiersAgree ==
    memory.cohort # {} /\ Empty(memory.constraints) =>
        \A q \in Questions :
            /\ ~Says(q, "skills of") /\ ~Says(q, "facet list")
            /\ "position" \notin DOMAIN q.filters
            /\ Empty(q.hired) \/ q.dept = None
            => LET p == Heuristic(q, memory)
                   c == Compile(q, memory)
               IN  \/ p = Declines
                   \/ Alike(p, c)
                   \/ /\ Familiar(q, memory) /\ Says(q, "person")
                      /\ p = Person(q.who, "person")

=============================================================================
