----------------------------- MODULE MCResumeFacts -----------------------------
(* Three people with resumes that are whole, in parts, of two minds, or    *)
(* not there, around ends of years and of February.                        *)
EXTENDS ResumeFacts, TLC

Chunk(section, index, hints, tells) ==
    [section |-> section, index |-> index, hints |-> hints, tells |-> tells]

At(city, country) == [city |-> city, country |-> country]
Berlin == At("berlin", "germany")
Munich == At("munich", None)
Line(bullet, dash) == [bullet |-> bullet, dash |-> dash]

Written1 ==
    {Chunk("Summary", 0, {"location", "languages"},
           ("location" :> Berlin) @@ ("languages" :> {"german"})),
     Chunk("Personal", 0, {"birth_date"}, "birth_date" :> Day(2000, 2, 29)),
     Chunk("Location", 0, {"location"}, "location" :> Berlin),
     Chunk("Languages", 0, {"languages"}, "languages" :> {"german", "english"}),
     Chunk("Certificates", 0, {}, "certifications" :> {"cka"}),
     Chunk("Skills", 0, {}, "skills" :> {"python", "sql"}),
     Chunk("Experience", 0, {}, "experience" :> <<Line(TRUE, FALSE), Line(TRUE, TRUE),
                                    Line(FALSE, FALSE), Line(TRUE, FALSE)>>),
     Chunk("Experience", 1, {}, "experience" :> <<Line(TRUE, FALSE)>>)}

(* Long sections, whose first parts tell nothing. *)
InParts ==
    {Chunk("Personal", 0, {}, <<>>),
     Chunk("Personal", 1, {"birth_date"}, "birth_date" :> Day(1999, 3, 1)),
     Chunk("Location", 0, {"location"}, "location" :> Munich),
     Chunk("Languages", 0, {"languages"}, <<>>),
     Chunk("Languages", 1, {}, "languages" :> {"english"}),
     Chunk("Certificates", 0, {}, "certifications" :> {"ckad"}),
     Chunk("Projects", 0, {}, "projects" :> <<Line(FALSE, FALSE), Line(FALSE, TRUE)>>)}

Born(date) ==
    {Chunk("Personal", 0, {"birth_date"}, "birth_date" :> date),
     Chunk("Location", 0, {"location"}, "location" :> At("munich", "germany")),
     Chunk("Summary", 0, {"certifications"}, <<>>)}

MCEmployees == {1, 2, 3}
MCResumes ==
    (1 :> {Written1, InParts, {}})
    @@ (2 :> {InParts, Born(Day(1996, 12, 31)), {}})
    @@ (3 :> {Born(Day(1990, 2, 28)), Born(Day(2001, 1, 1))})

MCStarts ==
    {Day(2022, 12, 30), Day(2023, 2, 27), Day(2024, 2, 28), Day(2100, 2, 27)}

Who(exact, close, strong) == [exact |-> exact, close |-> close, strong |-> strong]

Q(about, name, ids, value) ==
    [about |-> about, name |-> name, ids |-> ids, value |-> value, facet |-> None,
     heard |-> {}, month |-> 0]
B(name, ids, heard, month) ==
    [Q("birth_date", name, ids, None) EXCEPT !.heard = heard \cup {"birthday"},
                                             !.month = month]
What(x) == [what |-> x]
F(dimension) == [Q("location", None, {}, None) EXCEPT !.facet = dimension]

MCAsks ==
    {B(Who({1}, {}, {}), {}, {"wish"}, 0), B(Who({1, 2}, {}, {}), {}, {}, 0),
     B(Who({}, {2}, {2}), {}, {}, 0), B(Who({}, {1, 3}, {3}), {}, {}, 0),
     B(Who({}, {}, {}), {}, {}, 0), B(Who({2}, {}, {}), {2}, {"age"}, 0),
     B(None, {3}, {"deixis"}, 0), B(None, {}, {"deixis", "people"}, 0),
     B(None, {}, {"today"}, 0), B(None, {}, {}, 3),
     B(None, {}, {"upcoming", "this month"}, 0), B(None, {}, {"people"}, 0),
     B(None, {1, 2}, {"closest", "prior"}, 0), B(Who({3}, {}, {}), {}, {"closest"}, 0),
     Q("location", None, {1}, None), Q("location", None, {}, At("berlin", None)),
     Q("location", None, {2}, At(None, "germany")), Q("location", None, {}, At(None, "france")), F("city"), F("country"),
     Q("languages", None, {}, What("english")), Q("languages", None, {2, 3}, What("german")),
     Q("languages", None, {}, None), Q("languages", Who({1}, {}, {}), {}, None),
     Q("certifications", None, {}, What("cka")), Q("certifications", None, {2}, None),
     Q("skills", None, {1}, What("python")), Q("skills", None, {}, None),
     [Q("experience", None, {1}, None) EXCEPT !.heard = {"complete"}],
     Q("projects", Who({1, 2}, {}, {}), {}, None)}

MCWithin == {<<"cka", "ckad">>}
=============================================================================
