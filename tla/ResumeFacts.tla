------------------------------ MODULE ResumeFacts ------------------------------
(***************************************************************************)
(* Facts that live only in resumes: birth dates, places, languages,        *)
(* certificates, skills, experience and projects.  A question is planned   *)
(* by the *_plan function of its attribute and answered from the chunks    *)
(* that may tell the fact, by _attribute_person, _attribute_cohort or      *)
(* _attribute_facet of ResumeSearchTool.                                   *)
(*                                                                         *)
(* The text of a chunk is what the extractors make of it.  Between the     *)
(* plan and the answer it may become midnight; ingests beside a search,    *)
(* and the cache, are in Retrieval.                                        *)
(***************************************************************************)
EXTENDS Birthdays, Sequences, FiniteSets

CONSTANTS Employees, \* their ids, in the order of employee_id
          Resumes,   \* the resumes, as sets of chunks, that each may have
          Starts, MaxDays,   \* the days on which the model starts, and how many pass
          Asks,      \* the questions asked
          Within,    \* certificates whose name is part of another's, by pairs
          Limit,     \* the chunks a cohort is read from (2000)
          Cited,     \* the chunks cited for want of a match (20)
          Named,     \* the people an answer names (5, 10 or 25)
          Written,   \* the entries an answer lists (8)
          None

Prose == {"birth_date", "languages", "certifications"}
Entries == {"experience", "projects"}
Attributes == Prose \cup Entries \cup {"location", "skills"}

(* The section that carries an attribute. *)
SectionOf ==
    [birth_date |-> "Personal", location |-> "Location", languages |-> "Languages",
     certifications |-> "Certificates", skills |-> "Skills",
     experience |-> "Experience", projects |-> "Projects"]

(* The wordings of a birthday question that are told apart. *)
Wordings == {"birthday", "closest", "prior", "today", "upcoming", "this month",
             "deixis", "people", "age", "wish", "complete"}

ASSUME FactsAssumption ==
    /\ Employees \subseteq Nat /\ IsFiniteSet(Employees)
    /\ \A t \in Starts : IsDate(t)
    /\ \A q \in Asks :
          /\ q.about \in Attributes /\ q.heard \subseteq Wordings
          /\ q.month \in 0..12 /\ q.ids \subseteq Employees
          /\ q.about = "location" /\ q.value # None =>
                q.value.city # None \/ q.value.country # None
    /\ \A p \in Employees : \A chunks \in Resumes[p] :
          /\ IsFiniteSet(chunks)
          /\ \A c \in chunks :
                /\ c.index \in Nat
                /\ "birth_date" \in DOMAIN c.tells => IsDate(c.tells["birth_date"])
    /\ MaxDays \in Nat /\ Limit \in Nat /\ Cited \in Nat
    /\ Named \in Nat \ {0} /\ Written \in Nat \ {0}

VARIABLES today, past,   \* the day, and the days that have passed
          resume,        \* resume_chunks, by employee
          request,       \* what is planned and not yet answered
          reply,         \* the last answer,
          facets         \* and the last aggregate

factsVars == <<today, past, resume, request, reply, facets>>

Silence ==
    [kind |-> "none", to |-> None, said |-> 0, facts |-> <<>>, named |-> {}, published |-> {},
     missing |-> 0, born |-> None, on |-> None, turning |-> 0, until |-> 0,
     list |-> <<>>, of |-> 0]

FactsInit ==
    /\ today \in Starts /\ past = 0
    /\ resume \in [Employees -> UNION {Resumes[p] : p \in Employees}]
    /\ \A p \in Employees : resume[p] \in Resumes[p]
    /\ request = None /\ reply = Silence /\ facets = None

-----------------------------------------------------------------------------
(* Understanding and planning *)

(* extract_birthday: what is closest is a cohort's, whoever is named.      *)
BirthdayScope(q) ==
    IF "closest" \in q.heard THEN "closest"
    ELSE IF q.name # None THEN "person"
    ELSE IF q.month # 0 THEN "month"
    ELSE IF "today" \in q.heard THEN "today"
    ELSE IF "this month" \in q.heard THEN "month"
    ELSE IF "upcoming" \in q.heard THEN "upcoming"
    ELSE IF "people" \in q.heard /\ "deixis" \notin q.heard THEN "upcoming"
    ELSE "person"

IsBirthday(q) ==
    q.about = "birth_date" =>
        "birthday" \in q.heard \/ ("closest" \in q.heard /\ "prior" \in q.heard)

BirthdayMode(q) == IF BirthdayScope(q) = "person" THEN "person" ELSE "cohort"

(* Without a value to look for, earlier people are asked for their own.    *)
ValueMode(q) ==
    IF q.name # None \/ (q.ids # {} /\ q.value = None) THEN "person" ELSE "cohort"

Mode(q) ==
    IF q.about = "birth_date" THEN BirthdayMode(q)
    ELSE IF q.facet # None THEN "facet"
    ELSE IF q.about \in {"skills"} \cup Entries THEN "person" ELSE ValueMode(q)

(* Whose, or which one? *)
Clear(q) ==
    CASE Mode(q) = "person" -> q.name # None \/ q.ids # {}
      [] Mode(q) = "cohort" -> q.about = "birth_date" \/ q.value # None
      [] OTHER -> TRUE

Request(q) ==
    [about |-> q.about, mode |-> Mode(q), name |-> q.name,
     (* a place is intersected with earlier people by a later node *)
     ids |-> IF q.about = "location" /\ Mode(q) = "cohort" THEN {} ELSE q.ids,
     value |-> q.value, facet |-> q.facet,
     scope |-> IF q.about = "birth_date" THEN BirthdayScope(q) ELSE "",
     month |-> IF q.about # "birth_date" \/ BirthdayScope(q) # "month" THEN 0
               ELSE IF q.month # 0 THEN q.month ELSE today.m,
     heard |-> q.heard \cap {"age", "wish", "complete"}]

Plan(q) ==
    /\ request = None
    /\ IsBirthday(q) /\ Clear(q)
    /\ request' = Request(q)
    /\ UNCHANGED <<today, past, resume, reply, facets>>

AskBack(q) ==
    /\ request = None
    /\ IsBirthday(q) /\ ~Clear(q)
    /\ reply' = [Silence EXCEPT !.kind = "clarify"]
    /\ UNCHANGED <<today, past, resume, request, facets>>

-----------------------------------------------------------------------------
(* Reading facts out of chunks *)

(* parse_experience and parse_projects: bullets, or else lines; none with  *)
(* a dash, which could be a header.                                        *)
Items(lines) ==
    LET bullets == SelectSeq(lines, LAMBDA l : l.bullet /\ ~l.dash)
    IN  IF bullets # <<>> THEN bullets ELSE SelectSeq(lines, LAMBDA l : ~l.dash)

Tells(c, a) == a \in DOMAIN c.tells /\ (a \in Entries => Items(c.tells[a]) # <<>>)
Told(c, a) == IF a \in Entries THEN Items(c.tells[a]) ELSE c.tells[a]

(* fetch_section_chunks: a hint is as good as the section.  The index      *)
(* restarts with every section, so that the order is one of several, and   *)
(* so is what the limit cuts.                                              *)
Found(a, who) ==
    UNION {{<<p, c>> : c \in {c \in resume[p] : c.section = SectionOf[a] \/ a \in c.hints}} :
               p \in who}

Before(x, y) == x[1] < y[1] \/ (x[1] = y[1] /\ x[2].index < y[2].index)

Readings(all, limit) ==
    IF Cardinality(all) <= limit THEN {all}
    ELSE {R \in SUBSET all : /\ Cardinality(R) = limit
                             /\ \A x \in R, y \in all \ R : ~Before(y, x)}

(* Mutant of FactsFrom: a person whose first chunk tells nothing has none. *)
FactsFromFirst(R, a) ==
    LET first == {x \in R : ~\E y \in R : y[1] = x[1] /\ Before(y, x)}
        tell == {x \in first : Tells(x[2], a)}
    IN  {f \in [{x[1] : x \in tell} -> {Told(x[2], a) : x \in tell}] :
            \A p \in DOMAIN f : \E x \in tell : x[1] = p /\ f[p] = Told(x[2], a)}

(* facts_from_hits: of each person, what the first chunk that tells it     *)
(* tells.                                                                  *)
FactsFrom(R, a) ==
    LET tell == {x \in R : Tells(x[2], a)}
        first == {x \in tell : ~\E y \in tell : y[1] = x[1] /\ Before(y, x)}
    IN  {f \in [{x[1] : x \in first} -> {Told(x[2], a) : x \in first}] :
            \A p \in DOMAIN f : \E x \in first : x[1] = p /\ f[p] = Told(x[2], a)}

WithResume == {p \in Employees : resume[p] # {}}

(* The first n of S, by rank and then by id. *)
FirstOf(n, S, Rank(_)) ==
    {p \in S : Cardinality({o \in S : \/ Rank(o) < Rank(p)
                                      \/ Rank(o) = Rank(p) /\ o < p}) < n}

-----------------------------------------------------------------------------
(* _attribute_person *)

Exactly(r) == r.name.exact \cap WithResume
Closely(r) == r.name.close \cap WithResume

(* resolve_employees: everyone whose name contains the one asked for, or   *)
(* everyone whose name is close.                                           *)
Whose(r) ==
    IF r.ids # {} THEN r.ids
    ELSE IF Exactly(r) # {} THEN Exactly(r) ELSE Closely(r)

(* A close name is taken for the one asked for if it is the only one, and  *)
(* quite close.                                                            *)
Doubtful(r) ==
    /\ r.ids = {} /\ Exactly(r) = {} /\ Closely(r) # {}
    /\ Cardinality(Closely(r)) > 1 \/ Closely(r) \cap r.name.strong = {}

(* "turning N on D (in K days)" *)
BirthdayReply(born) ==
    [Silence EXCEPT !.kind = IF "age" \in request.heard /\ ~IsToday(born, today)
                             THEN "age" ELSE "birthday",
                    !.born = born, !.on = NextOccurrence(born, today),
                    !.turning = Turning(born, today), !.until = DaysUntil(born, today)]

Shown(items) == SubSeq(items, 1, IF Len(items) < Written THEN Len(items) ELSE Written)

(* Yes or no, if one skill is asked for. *)
SkillReply(known) ==
    [Silence EXCEPT !.kind = IF request.value = None THEN "fact"
                             ELSE IF request.value.what \in known THEN "yes" ELSE "no"]

(* The entries, or whether they are all. *)
EntriesReply(a, items) ==
    [Silence EXCEPT !.kind = IF a = "experience" /\ "complete" \in request.heard
                             THEN "everything" ELSE "entries",
                    !.list = Shown(items), !.of = Len(items)]

PersonReply(a, fact) ==
    CASE a = "birth_date" -> BirthdayReply(fact)
      [] a = "skills" -> SkillReply(fact)
      [] a \in Entries -> EntriesReply(a, fact)
      [] OTHER -> [Silence EXCEPT !.kind = "fact"]

Answered(answer) ==
    /\ reply' = [answer EXCEPT !.said = past]
    /\ request' = None
    /\ UNCHANGED <<today, past, resume>>

DoubtPerson ==
    /\ request # None /\ request.mode = "person"
    /\ Doubtful(request)
    /\ Answered([Silence EXCEPT !.kind = "clarify"])
    /\ UNCHANGED facets

Say(who, f) ==
    CASE who = {} -> [Silence EXCEPT !.kind = "nothing"]
      [] Cardinality(who) > 1 ->
            [Silence EXCEPT !.kind = "which", !.named = FirstOf(Named, who, LAMBDA p : 0)]
      [] OTHER -> [PersonReply(request.about, f[CHOOSE p \in who : TRUE])
                     EXCEPT !.named = who]

(* A person's chunks are read up to 40 and more. *)
TellPerson ==
    /\ request # None /\ request.mode = "person"
    /\ ~Doubtful(request)
    /\ LET read == Found(request.about, Whose(request))
       IN  \E f \in FactsFrom(read, request.about) :
              Answered([Say(DOMAIN f, f) EXCEPT
                          !.to = request, !.facts = f,
                          !.published = {x[1] : x \in read}])
    /\ UNCHANGED facets

-----------------------------------------------------------------------------
(* _attribute_cohort *)

(* Mutant of IsIn: a country is not looked at. *)
IsInCity(place, asked) == asked.city # None => place.city = asked.city

(* LocationFact.matches *)
IsIn(place, asked) ==
    /\ asked.city # None => place.city = asked.city
    /\ asked.country # None => place.country = asked.country

(* LanguageFact.matches *)
Speaks(known, asked) == asked \in known

(* CertificationFact.matches: either name may be a part of the other. *)
Like(held, asked) ==
    \E c \in held : c = asked \/ <<c, asked>> \in Within \/ <<asked, c>> \in Within

Soonest(f) ==
    {p \in DOMAIN f : \A o \in DOMAIN f : DaysUntil(f[p], today) <= DaysUntil(f[o], today)}

(* birthday.select_cohort: for a month, whoever has it today as well. *)
Celebrates(r, f) ==
    CASE r.scope = "closest" -> Soonest(f)
      [] r.scope = "upcoming" -> {p \in DOMAIN f : DaysUntil(f[p], today) <= 30}
      [] OTHER -> {p \in DOMAIN f : IsToday(f[p], today) \/ f[p].m = r.month}

(* select_cohort of the attribute *)
Select(r, f) ==
    CASE r.about = "birth_date" -> Celebrates(r, f)
      [] r.about = "location" -> {p \in DOMAIN f : IsIn(f[p], r.value)}
      [] r.about = "languages" -> {p \in DOMAIN f : Speaks(f[p], r.value.what)}
      [] OTHER -> {p \in DOMAIN f : Like(f[p], r.value.what)}

(* The people a birthday answer is about are picked anew. *)
Celebrated(r, f) ==
    CASE r.scope = "today" -> {p \in DOMAIN f : IsToday(f[p], today)}
      [] r.scope = "closest" -> FirstOf(Named, Soonest(f), LAMBDA p : 0)
      [] r.scope = "month" -> {p \in DOMAIN f : f[p].m = r.month}
      [] OTHER -> FirstOf(Named, {p \in DOMAIN f : DaysUntil(f[p], today) <= 30},
                          LAMBDA p : DaysUntil(f[p], today))

(* A place is no answer in itself; other cohorts are named. *)
Mentioned(r, f) ==
    CASE r.about = "birth_date" -> Celebrated(r, f)
      [] r.about = "location" -> {}
      [] OTHER -> FirstOf(Named, Select(r, f), LAMBDA p : 0)

(* The employee_ids of the chunks cited: of those who match or, for        *)
(* birthdays without a match, of the first chunks read.                    *)
Publishes(r, R, f) ==
    LET matched == Select(r, f)
    IN  IF matched # {} \/ r.about # "birth_date" THEN matched
        ELSE {x[1] : x \in {x \in R : Cardinality({y \in R : y[1] < x[1]}) < Cited}}

Unscoped(r) == r.ids = {} /\ r.about \in Prose

(* Mutant of Missing: chunks are counted for people. *)
MissingOfChunks(r, R, f) ==
    IF Unscoped(r) /\ Cardinality(R) < Cardinality(WithResume)
    THEN Cardinality(WithResume) - Cardinality(R) ELSE 0

(* coverage_caveat: how many of all the indexed have nothing recorded. *)
Missing(r, R, f) ==
    IF Unscoped(r) THEN Cardinality(WithResume) - Cardinality(DOMAIN f) ELSE 0

TellCohort ==
    /\ request # None /\ request.mode = "cohort"
    /\ LET r == request
           who == IF r.ids # {} THEN r.ids ELSE Employees
       IN  \E R \in Readings(Found(r.about, who), Limit) : \E f \in FactsFrom(R, r.about) :
              Answered([Silence EXCEPT
                          !.kind = "cohort", !.to = r, !.facts = f,
                          !.named = Mentioned(r, f),
                          !.published = Publishes(r, R, f),
                          !.missing = Missing(r, R, f)])
    /\ UNCHANGED facets

(* _attribute_facet publishes nobody: "an aggregate is not a cohort". *)
TellFacet ==
    /\ request # None /\ request.mode = "facet"
    /\ \E R \in Readings(Found("location", Employees), Limit) :
       \E f \in FactsFrom(R, "location") :
          LET values == {f[p][request.facet] : p \in DOMAIN f} \ {None}
          IN  /\ Answered([Silence EXCEPT !.kind = "facet", !.to = request, !.facts = f])
              /\ facets' = [by |-> request.facet, values |-> values]

-----------------------------------------------------------------------------
DayPasses ==
    /\ past < MaxDays
    /\ today' = Tomorrow(today) /\ past' = past + 1
    /\ UNCHANGED <<resume, request, reply, facets>>

FactsNext ==
    \/ \E q \in Asks : Plan(q) \/ AskBack(q)
    \/ DoubtPerson \/ TellPerson \/ TellCohort \/ TellFacet
    \/ DayPasses

FactsSpec == FactsInit /\ [][FactsNext]_factsVars

-----------------------------------------------------------------------------
Modes == {"person", "cohort", "facet"}

(* A birthday said to be in so many days is a day less away on every day   *)
(* that passes, until it is there, on the date next_occurrence gave: over  *)
(* ends of years and of February, and for whoever was born on 29 February. *)
CountdownHolds ==
    reply.kind = "birthday" /\ past - reply.said <= reply.until =>
        /\ DaysUntil(reply.born, today) = reply.until - (past - reply.said)
        /\ past - reply.said = reply.until => reply.on = today

LeapBorn(born) == born.m = 2 /\ born.d = 29

(* The same, but for those born on 29 February, whom is_today does not     *)
(* know on 1 March.                                                        *)
AgesCome ==
    reply.kind = "birthday" /\ reply.on = today /\ ~LeapBorn(reply.born) =>
        Age(reply.born, today) = reply.turning

Cohort == reply.kind = "cohort"

Fits(c) ==
    /\ Tells(c, reply.to.about)
    /\ reply.to.about = "birth_date" => reply.said = past /\ reply.to.scope # "closest"
    /\ LET told == Told(c, reply.to.about)
       IN  Select(reply.to, [p \in {0} |-> told]) # {}

Asked == IF reply.to.ids # {} THEN reply.to.ids ELSE Employees
Read == Found(reply.to.about, Asked)

(* Those of whom every chunk that could be read, if it tells anything,     *)
(* says so, and who are not in the answer.                                 *)
LeftOut ==
    {p \in Asked \ reply.published :
        LET tell == {x[2] : x \in {x \in Read : x[1] = p /\ Tells(x[2], reply.to.about)}}
        IN  tell # {} /\ \A c \in tell : Fits(c)}

(* "Only matching employees may be published: an unrelated id here becomes *)
(* a wrong row in the next node", and "Completeness, not ranking, is the   *)
(* requirement here": whoever a cohort hands on has a resume that says so, *)
(* nobody whom the answer names is missing, and it leaves out nobody whose *)
(* resume is of one mind, as long as all chunks are within the limit.      *)
CohortsAreExact ==
    Cohort =>
        /\ reply.to.about # "birth_date" =>
              \A p \in reply.published : \E c \in resume[p] : Fits(c)
        /\ reply.named \subseteq reply.published
        /\ Cardinality(Read) <= Limit => LeftOut = {}

(* "Admit corpus gaps": beyond the limit, or with nothing to read, an      *)
(* answer in prose about everybody says of how many it knows nothing, and  *)
(* whoever is left out is one of them.                                     *)
GapsAreAdmitted ==
    Cohort /\ Unscoped(reply.to) =>
        /\ Cardinality(LeftOut) <= reply.missing
        /\ reply.missing = Cardinality(WithResume \ DOMAIN reply.facts)

OfOneMind(a) ==
    /\ Cardinality(Found(a, Employees)) <= Limit
    /\ \A x, y \in Found(a, Employees) :
            x[1] = y[1] /\ Tells(x[2], a) /\ Tells(y[2], a) => Told(x[2], a) = Told(y[2], a)

(* "How many different cities": a city or country is counted exactly if    *)
(* somebody is found there when it is asked for next, provided no resume   *)
(* names two places.                                                       *)
FacetsAreCohorts ==
    facets # None /\ Cohort /\ reply.to.about = "location" /\ OfOneMind("location") =>
        LET v == reply.to.value
        IN  /\ facets.by = "city" /\ v.country = None =>
                    (reply.published # {} <=> v.city \in facets.values)
            /\ facets.by = "country" /\ v.city = None =>
                    (reply.published # {} <=> v.country \in facets.values)
=============================================================================
