------------------------------ MODULE MCFollowUps ------------------------------
(* Three people, and forty-two questions with what the patterns of      *)
(* the program recognise in each.                                          *)
EXTENDS FollowUps, TLC

CONSTANTS p1,  \* Ann Fox
          p2,  \* Bob Ray
          p3

MCPeople == {p1, p2, p3}

Is(department, position, manager, day, after, city, country, skills) ==
    [department |-> department, position |-> position, manager |-> manager,
     hire_date_gte |-> day, hire_date_gt |-> after,
     city |-> city, country |-> country, skills |-> skills]

MCRecord ==
    p1 :> Is("Engineering", "Software Engineer", None, None, None,
             "Berlin", "Germany", {"Python"})
    @@ p2 :> Is("Engineering", "Product Manager", p1, "this year", "2020",
                "Paris", "France", {})
    @@ p3 :> Is("Sales", "Sales Manager", p1, None, None, "Berlin", "Germany", {"Python"})

Q(says) == [says |-> says, skill |-> None, dim |-> None, filters |-> <<>>,
            hired |-> <<>>, dept |-> None, who |-> None]
With(skill, q) == [q EXCEPT !.skill = skill]
Knowing(skill, q) == With(skill, [q EXCEPT !.says = @ \cup {"knowing"}])
Of(dim, q) == [q EXCEPT !.dim = dim]
Where(filters, q) == [q EXCEPT !.filters = filters]
In(dept, q) == [q EXCEPT !.filters = [department |-> dept], !.dept = dept]
Engineers(q) == [q EXCEPT !.filters = [position |-> "Software Engineer"],
                          !.dept = "Engineering"]
Hired(q) == [q EXCEPT !.hired = [hire_date_gte |-> "this year"]]
After2020(q) == [q EXCEPT !.hired = [hire_date_gt |-> "2020"]]
Naming(p, q) == [q EXCEPT !.who = p]

Who == {"anyone", "skill intent", "staff", "titles"}
Staff == Who \cup {"employees", "narrows", "residual"}
Them == {"refers", "skill intent", "narrows"}
HowMany == {"count", "skill intent", "residual"}

MCQuestions == {
    \* headcount?
    Q({"count", "headcount", "residual"}),
    \* How many people work in Engineering?
    In("Engineering", Q(Who \cup HowMany \cup {"narrows"})),
    \* List employees in Sales
    In("Sales", Q(Staff \cup {"lists"})),
    \* Sales?
    In("Sales", Q({"bare dept"})),
    \* employees in Berlin
    Where([city |-> "Berlin"], Q(Staff)),
    \* how many Engineering employees are in Berlin?
    [Q(Staff \cup HowMany) EXCEPT
        !.filters = [department |-> "Engineering", city |-> "Berlin"],
        !.dept = "Engineering"],
    \* who knows Python?
    Knowing("Python", Q(Who)),
    \* Python?
    With("Python", Q({"bare skill"})),
    \* names please
    Q({"lists", "names", "refers", "titles"}),
    \* how many of them?
    Q(HowMany \cup {"refers"}),
    \* which of them are in Paris?
    Where([city |-> "Paris"], Q(Them)),
    \* which of them know Python?
    Knowing("Python", Q({"refers", "skill intent", "skills of", "which of them"})),
    \* how many of them are in Sales?
    In("Sales", Q(Them \cup HowMany)),
    \* any of them in Berlin?
    Where([city |-> "Berlin"], Q(Them \cup {"any of them"})),
    \* how many was that again?
    Q(Them \cup HowMany \cup {"meta"}),
    \* in how many different cities?
    Of("city", Q(HowMany \cup {"facet count", "location", "narrows"})),
    \* which cities
    Of("city", Q({"facet list", "location", "names", "refers", "residual"})),
    \* Tell me about Bob Ray
    Naming(p2, Q({"about", "named", "person"})),
    \* where does she live?
    Q({"location", "person", "pronoun"}),
    \* what is the education?
    Q({"attribute", "person"}),
    \* who joined this year?
    Hired(Q(Who \cup {"narrows"})),
    \* which of them joined this year?
    Hired(Q(Them)),
    \* how many people know Python and joined after 2020?
    After2020(In("People", Knowing("Python", Q(Who \cup HowMany \cup {"narrows"})))),
    \* what is the average tenure in Sales?
    In("Sales", Q({"narrows", "tenure"})),
    \* who has been here longest?
    Q(Who \cup {"longest"}),
    \* which of them is the most senior?
    Q({"longest", "refers", "skill intent"}),
    \* employees in Atlantis
    Q(Staff \cup {"unknown place"}),
    \* employees from a previous search
    Q(Staff \cup {"previous"}),
    \* start over - who knows Python?
    Knowing("Python", Q(Who \cup {"shift"})),
    \* how many vacation days do they have?
    Q(HowMany \cup {"refers", "unsupported"}),
    \* who knows Python in Berlin?
    Knowing("Python", Where([city |-> "Berlin"], Q(Who \cup {"narrows"}))),
    \* who is the manager of Bob Ray?
    Naming(p2, Q(Who \cup {"manager", "named", "person"})),
    \* who reports to Ann Fox?
    Naming(p1, Q(Who \cup {"named", "reports"})),
    \* who is on ann fox's team?
    Naming(p1, Q(Who \cup {"named", "person", "reports"})),
    \* which of them report to Ann Fox?
    Naming(p1, Q({"named", "refers", "reports", "skill intent"})),
    \* who on Ann Fox's team knows Python?
    Naming(p1, Knowing("Python", Q(Who \cup {"person", "reports"}))),
    \* who on bob ray's team knows Python?
    Naming(p2, Knowing("Python", Q(Who \cup {"named", "person", "reports"}))),
    \* where does Bob Ray live?
    Naming(p2, Q({"attribute", "location", "named", "person", "whereabouts"})),
    \* what is Ann Fox's job title?
    Naming(p1, Q({"attribute", "person"})),
    \* list software engineers
    Engineers(Q({"anyone", "lists", "narrows", "staff", "titles"})),
    \* which of them are software engineers?
    Engineers(Q(Them)),
    \* where are our employees based?
    Q(Staff \cup {"attribute", "location", "person"})}
=============================================================================
