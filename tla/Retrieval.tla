------------------------------ MODULE Retrieval ------------------------------
(***************************************************************************)
(* Resume searches against ingests that run beside them.  An ingest        *)
(* replaces the chunks of an employee in two transactions, delete_by_      *)
(* employee and upsert; a search (ResumeSearchTool.run) looks up the       *)
(* retrieval cache, reads the chunks in up to two queries and stores its   *)
(* answer for the searches after it.  A step is what runs between two      *)
(* awaits.                                                                 *)
(*                                                                         *)
(* The chunks of one ingest are one row.  The searches ask one text, so    *)
(* that only the rest of the key tells them apart.                         *)
(***************************************************************************)
EXTENDS Naturals, FiniteSets

CONSTANTS People,      \* their ids, in the order the scope is sorted
          Jobs, Subject,         \* the ingests, and whose resume each reads
          Seed,        \* the rows of an ingest of long ago
          Searches, Queries,
          KeyedIds,    \* how many ids of a scope the key holds (80)
          DayLength, Lifetime,   \* of a day, and of an undated entry
          Horizon      \* ends time, for the model

(* An attribute of a cohort (a facet is one, too) or of a person, or a     *)
(* ranked search; among the ids of a scope, if there is one; named: who    *)
(* carries the name asked for.                                             *)
Query == [kind: {"cohort", "person", "skill"}, scoped: BOOLEAN,
          ids: SUBSET People, named: SUBSET People]

ASSUME RetrievalAssumption ==
    /\ People \subseteq Nat /\ IsFiniteSet(People)
    /\ Subject \in [Jobs -> People] /\ Seed \notin Jobs
    /\ Queries \subseteq Query
    /\ KeyedIds \in Nat /\ DayLength \in Nat \ {0}
    /\ Lifetime \in Nat /\ Horizon \in Nat

Unasked == [kind |-> "skill", scoped |-> FALSE, ids |-> {}, named |-> {}]

(* What is true today only: attribute answers, which are about ages and    *)
(* birthdays.                                                              *)
Dated(q) == q.kind # "skill"

(* Whom the question is about: the ids of its scope, or who has the name   *)
(* of a person.  An empty scope limits a cohort to nobody, a ranked search *)
(* not at all.                                                             *)
Whom(q) ==
    IF q.ids # {} THEN q.ids
    ELSE CASE q.kind = "person" -> q.named
           [] q.kind = "cohort" -> IF q.scoped THEN {} ELSE People
           [] q.kind = "skill" -> People

Rows == Jobs \cup {Seed}
Days == 1..(Horizon \div DayLength + 1)

(* The rows a search saw of each person, and the day it counts ages from.  *)
Answer == [seen: [People -> SUBSET Rows], today: Days]
Nobody == [p \in People |-> {}]
Unanswered == [seen |-> Nobody, today |-> 1]

-----------------------------------------------------------------------------
VARIABLES now,       \* in ticks
          expiring,  \* Redis drops what is too old, MemoryCache never does
          index,     \* resume_chunks, by employee
          cache,
          job,       \* how far each ingest is
          asks, search,      \* the question of each search, and how far it is
          began,     \* the day its key was built
          found,     \* the candidates it resolved a name to
          answer,
          touched,   \* whose chunks changed today
          clean      \* ingests nobody has interfered with

vars == <<now, expiring, index, cache, job, asks, search, began, found, answer,
          touched, clean>>

Today == now \div DayLength + 1

(* _seconds_to_utc_midnight *)
Midnight == Today * DayLength

Init ==
    /\ now = 0 /\ expiring \in BOOLEAN
    /\ index \in [People -> {{}, {Seed}}]
    /\ cache = {}
    /\ job = [j \in Jobs |-> "new"]
    /\ asks = [s \in Searches |-> Unasked]
    /\ search = [s \in Searches |-> "new"]
    /\ began = [s \in Searches |-> 1]
    /\ found = [s \in Searches |-> {}]
    /\ answer = [s \in Searches |-> Unanswered]
    /\ touched = {} /\ clean = {}

-----------------------------------------------------------------------------
(* IngestPipeline.ingest_file *)
searching == <<cache, asks, search, began, found, answer>>

Rivals(j) == {i \in Jobs \ {j} : Subject[i] = Subject[j]}

(* Mutant of Delete: the chunks of this resume go, not the employee's.     *)
DeleteResume(j) ==
    /\ job[j] = "new"
    /\ job' = [job EXCEPT ![j] = "deleted"]
    /\ index' = [index EXCEPT ![Subject[j]] = @ \ {j}]
    /\ touched' = touched \cup {Subject[j]}
    /\ clean' = (clean \ Rivals(j)) \cup {j}
    /\ UNCHANGED <<now, expiring, searching>>

(* Parsing, chunking and embedding come before, and change nothing; then   *)
(* delete_by_employee.                                                     *)
Delete(j) ==
    /\ job[j] = "new"
    /\ job' = [job EXCEPT ![j] = "deleted"]
    /\ index' = [index EXCEPT ![Subject[j]] = {}]
    /\ touched' = touched \cup {Subject[j]}
    /\ clean' = (clean \ Rivals(j)) \cup {j}
    /\ UNCHANGED <<now, expiring, searching>>

(* upsert inserts: the ids of the chunks are new. *)
Upsert(j) ==
    /\ job[j] = "deleted"
    /\ job' = [job EXCEPT ![j] = "done"]
    /\ index' = [index EXCEPT ![Subject[j]] = @ \cup {j}]
    /\ touched' = touched \cup {Subject[j]}
    /\ clean' = clean \ Rivals(j)
    /\ UNCHANGED <<now, expiring, searching>>

(* A document without sections has no chunks. *)
UpsertNothing(j) ==
    /\ job[j] = "deleted"
    /\ job' = [job EXCEPT ![j] = "empty"]
    /\ UNCHANGED <<now, expiring, index, searching, touched, clean>>

(* The upsert fails, or the process ends; an ingest that fails before it    *)
(* deletes leaves no trace.                                                *)
Abort(j) ==
    /\ job[j] = "deleted"
    /\ job' = [job EXCEPT ![j] = "failed"]
    /\ UNCHANGED <<now, expiring, index, searching, touched, clean>>

-----------------------------------------------------------------------------
(* ResumeSearchTool.run *)
ingesting == <<index, job, touched, clean>>

Begin(s, q) ==
    /\ search[s] = "new"
    /\ asks' = [asks EXCEPT ![s] = q]
    /\ search' = [search EXCEPT ![s] = "lookup"]
    /\ began' = [began EXCEPT ![s] = Today]
    /\ UNCHANGED <<now, expiring, cache, found, answer, ingesting>>

(* The first ids of a scope, in their order. *)
Keyed(ids) == {p \in ids : Cardinality({o \in ids : o < p}) < KeyedIds}

(* Mutants of Key: the scope, or the day, is left out. *)
KeyUnscoped(q, day) ==
    [kind |-> q.kind, ids |-> {}, named |-> q.named,
     day |-> IF Dated(q) THEN day ELSE 0]
KeyUndated(q, day) ==
    [kind |-> q.kind, ids |-> Keyed(q.ids), named |-> q.named, day |-> 0]

(* The key of the cache: an empty scope and none are the same to it.       *)
Key(q, day) ==
    [kind |-> q.kind, ids |-> Keyed(q.ids), named |-> q.named,
     day |-> IF Dated(q) THEN day ELSE 0]

KeyOf(s) == Key(asks[s], began[s])

(* The questions that the key takes for one.                               *)
Alike(q) ==
    {r \in Queries :
        r.kind = q.kind /\ Keyed(r.ids) = Keyed(q.ids) /\ r.named = q.named}

(* It tells scopes apart that are shorter than what it holds of them, but  *)
(* for a cohort of nobody and the whole one.                               *)
KeyTells(q) == Cardinality(q.ids) < KeyedIds /\ (q.kind = "cohort" => q.ids # {})

Hit(s, e) ==
    /\ search[s] = "lookup"
    /\ e.key = KeyOf(s)
    /\ answer' = [answer EXCEPT ![s] = e.answer]
    /\ search' = [search EXCEPT ![s] = "done"]
    /\ UNCHANGED <<now, expiring, cache, asks, began, found, ingesting>>

(* The search goes on with what it saw. *)
Sees(s, seen, next) ==
    /\ answer' = [answer EXCEPT ![s] = [seen |-> seen, today |-> Today]]
    /\ search' = [search EXCEPT ![s] = next]
    /\ UNCHANGED <<now, expiring, cache, asks, began, ingesting>>

Uncached(s) == search[s] = "lookup" /\ \A e \in cache : e.key # KeyOf(s)

(* A cohort scoped to nobody is nobody. *)
OfNobody(q) == q.kind = "cohort" /\ q.scoped /\ q.ids = {}

MissEmpty(s) ==
    /\ Uncached(s) /\ OfNobody(asks[s])
    /\ Sees(s, Nobody, "storing")
    /\ UNCHANGED found

(* Scoped to nobody, it is the name again. *)
ByName(q) == q.kind = "person" /\ q.ids = {}

Miss(s) ==
    /\ Uncached(s) /\ ~OfNobody(asks[s])
    /\ search' = [search EXCEPT ![s] =
                    IF ByName(asks[s]) THEN "resolving" ELSE "fetching"]
    /\ UNCHANGED <<now, expiring, cache, asks, began, found, answer, ingesting>>

Indexed == {p \in People : index[p] # {}}

(* resolve_employees by exact name: every namesake that is indexed. *)
Resolve(s) ==
    /\ search[s] = "resolving"
    /\ asks[s].named \cap Indexed # {}
    /\ found' = [found EXCEPT ![s] = asks[s].named \cap Indexed]
    /\ search' = [search EXCEPT ![s] = "fetching"]
    /\ UNCHANGED <<now, expiring, cache, asks, began, answer, ingesting>>

(* A name that nobody has is nobody, until midnight. *)
ResolveNobody(s) ==
    /\ search[s] = "resolving"
    /\ asks[s].named \cap Indexed = {}
    /\ Sees(s, Nobody, "storing")
    /\ UNCHANGED found

Among(who) == [p \in People |-> IF p \in who THEN index[p] ELSE {}]

(* fetch_section_chunks: all of them; an unscoped cohort is counted, too.  *)
Fetch(s) ==
    /\ search[s] = "fetching" /\ Dated(asks[s])
    /\ Sees(s, Among(IF ByName(asks[s]) THEN found[s] ELSE Whom(asks[s])),
            IF asks[s].kind = "cohort" /\ ~asks[s].scoped THEN "counting"
                                                          ELSE "storing")
    /\ UNCHANGED found

(* Embedding, ranking and the floors keep any of them. *)
Rank(s) ==
    /\ search[s] = "fetching" /\ ~Dated(asks[s])
    /\ \E top \in SUBSET (Whom(asks[s]) \cap Indexed) :
            Sees(s, Among(top), "storing")
    /\ UNCHANGED found

(* count_indexed_employees *)
Count(s) ==
    /\ search[s] = "counting"
    /\ search' = [search EXCEPT ![s] = "storing"]
    /\ UNCHANGED <<now, expiring, cache, asks, began, found, answer, ingesting>>

Entry(s) ==
    [key |-> KeyOf(s), answer |-> answer[s],
     expires |-> IF Dated(asks[s]) THEN Midnight ELSE now + Lifetime]

Put(s) == cache' = {e \in cache : e.key # KeyOf(s)} \cup {Entry(s)}

Store(s) ==
    /\ search[s] = "storing"
    /\ Put(s)
    /\ search' = [search EXCEPT ![s] = "done"]
    /\ UNCHANGED <<now, expiring, asks, began, found, answer, ingesting>>

(* Nobody sees what a failed search had found. *)
Forget(s) ==
    /\ search' = [search EXCEPT ![s] = "failed"]
    /\ asks' = [asks EXCEPT ![s] = Unasked]
    /\ began' = [began EXCEPT ![s] = 1]
    /\ found' = [found EXCEPT ![s] = {}]
    /\ answer' = [answer EXCEPT ![s] = Unanswered]
    /\ UNCHANGED <<now, expiring, ingesting>>

(* A query or the cache fails, or the time-out fires. *)
Fail(s) ==
    /\ search[s] \in {"lookup", "resolving", "fetching", "counting", "storing"}
    /\ Forget(s)
    /\ UNCHANGED cache

(* The time-out fires while the answer is being stored. *)
FailStored(s) ==
    /\ search[s] = "storing"
    /\ Put(s)
    /\ Forget(s)

Tick ==
    /\ now < Horizon
    /\ now' = now + 1
    /\ cache' = {e \in cache : expiring => e.expires > now'}
    /\ touched' = IF now' % DayLength = 0 THEN {} ELSE touched
    /\ UNCHANGED <<expiring, index, job, asks, search, began, found, answer, clean>>

-----------------------------------------------------------------------------
Ingest(j) == Delete(j) \/ Upsert(j) \/ UpsertNothing(j) \/ Abort(j)

Search(s) ==
    \/ (\E q \in Queries : Begin(s, q)) \/ \E e \in cache : Hit(s, e)
    \/ MissEmpty(s) \/ Miss(s) \/ Resolve(s) \/ ResolveNobody(s)
    \/ Fetch(s) \/ Rank(s) \/ Count(s) \/ Store(s) \/ Fail(s) \/ FailStored(s)

Next == Tick \/ (\E j \in Jobs : Ingest(j)) \/ (\E s \in Searches : Search(s))

Spec == Init /\ [][Next]_vars

-----------------------------------------------------------------------------
JobSteps == {"new", "deleted", "done", "empty", "failed"}
SearchSteps == {"new", "lookup", "resolving", "fetching", "counting", "storing",
                "done", "failed"}
Keys == [kind: {"cohort", "person", "skill"}, ids: SUBSET People,
         named: SUBSET People, day: Days \cup {0}]

(* Every variable has its type, and the cache one entry per key. *)
TypeOK ==
    /\ now \in 0..Horizon /\ expiring \in BOOLEAN
    /\ index \in [People -> SUBSET Rows]
    /\ \A e \in cache : e.key \in Keys /\ e.answer \in Answer /\ e.expires \in Nat
    /\ \A e, f \in cache : e.key = f.key => e = f
    /\ job \in [Jobs -> JobSteps] /\ search \in [Searches -> SearchSteps]
    /\ asks \in [Searches -> Queries \cup {Unasked}] /\ began \in [Searches -> Days]
    /\ found \in [Searches -> SUBSET People] /\ answer \in [Searches -> Answer]
    /\ touched \subseteq People /\ clean \subseteq Jobs

(* "delete_by_employee then upsert - idempotent": an ingest that no other  *)
(* of the same employee has interfered with leaves its rows alone in the   *)
(* index, whatever earlier crashes and overlaps have left there.           *)
LoneIngestIsExact ==
    \A j \in clean : /\ job[j] = "done" => index[Subject[j]] = {j}
                     /\ job[j] = "empty" => index[Subject[j]] = {}

Delivers(s) == search[s] # "done" /\ search'[s] = "done"

(* "A cached answer must never survive the date change that invalidates    *)
(* it": ages and birthdays are counted from a day on which the search ran, *)
(* also when the answer was stored, or the clock read, across midnight.    *)
DatedAnswers ==
    [][\A s \in Searches : Delivers(s) /\ Dated(asks[s]) =>
            answer'[s].today \in began[s]..Today]_vars

(* What is delivered to s answers q: it shows nobody q is not about and,   *)
(* as "completeness, not ranking, is the requirement", an attribute answer *)
(* shows everybody it is about as the index has them, unless their resumes *)
(* were ingested today.                                                    *)
Answers(s, q) ==
    /\ \A p \in People \ Whom(q) : answer'[s].seen[p] = {}
    /\ Dated(asks[s]) /\ began[s] = Today =>
          \A p \in Whom(q) \ touched : answer'[s].seen[p] = index[p]

(* A search scoped to fewer people than the key holds is answered about    *)
(* these, whoever stored the answer it is given.  Any other is answered    *)
(* about the scope of one of those that share its key: beyond 80 ids, and  *)
(* where a cohort of nobody shares the key of everybody's, it may be given *)
(* that of another search, but never a mixture.                            *)
AnswersFitScope ==
    [][\A s \in Searches : Delivers(s) =>
            IF KeyTells(asks[s]) THEN Answers(s, asks[s])
                             ELSE \E q \in Alike(asks[s]) : Answers(s, q)]_vars
=============================================================================
