# A TLA+ model of HRMind

HRMind is a chat agent over an employee database and a collection of resumes
(`src/backend`). This directory holds TLA+ modules for the parts of it whose
correctness depends on order, failure or sharing, the TLC configurations that
check them, and TLAPS proofs. Paths below are relative to
`src/backend/app` unless they start with `src/`; `docs/` is `src/backend/docs`.

    tlc -config MCPlanExecution.cfg MCPlanExecution.tla     # one run
    tlapm PlanExecutionProofs.tla                           # one module's proofs

`PROJECT.json` lists the runs, the source lines behind every definition, the
hazards and the properties that watch them, and for each checked property a
mutant of the code that breaks it.

## 1. The system

One turn of conversation is `ChatService.handle`
(`application/chat/chat_service.py`). It loads the session, appends the user's
message, resolves references, routes the question, compiles a plan (a small
graph of tool and operator nodes), validates it, executes it, decides how it is
refused if it is, commits to the session what the answer was about, formats the
answer and appends it.

| Part | State it keeps | Operations | Interacts with | What makes it correct |
|---|---|---|---|---|
| Chat service | none of its own | `handle`, `_sync_pending_*` | everything below, in that order | what the session remembers follows what was answered |
| Plan validator | none; `visiting`, `visited` during a call | `validate` | compiler before, executor after | accepts exactly the plans that can run |
| Graph executor | `pending`, `completed`, `GraphState` | `execute` | node runner, by `asyncio.gather` | dependencies first, every turn ends, failures show |
| Node runner | one `CircuitBreaker` per tool, for the process | `run_node` | tools, operators; shared by all turns | a circuit is open because its tool failed |
| Planner tiers | `_force_repair`, `_select_meta` on the shared compiler | `compile`, `plan` | LLM, validator (lint), memory | a plan for every question; writes only when confirmed |
| Understanding | none | extraction, merge, plan building | memory (universe marker) | answer and cohort of a plan agree |
| Refusal resolver | none | `resolve_refusal` | executor's results | the code says what went wrong |
| Context manager | none of its own | `prepare_turn`, `commit` | memory service | "them" is whom the answer was about, and survives a turn that broke |
| Memory service and stores | `SessionMemory` in Redis or in memory | `get_or_create`, setters that save | all turns of a session | a turn that runs alone is kept; a session has one owner |
| Status confirmation | two facts in the session's tool cache | ask, confirm, cancel, write | compiler, chat service, employee tool | what is written was asked for, or confirmed; a model's word is the exception |
| Tools | SQL and retrieval caches | `run` | database, vector store, cache | scope and permissions limit every result; an answer from resumes is what they say |
| Operators | none | extract, intersect, count, dedupe, merge, project | executor | set algebra on ids |
| Ingest | none; two tables | `ingest_file` | parser, embeddings, vector store | an employee has the chunks of the last resume |
| Caches | keyed entries with a lifetime | `get`, `set`, `delete` | sql, retrieval, embeddings | no entry crosses principals; staleness is bounded |
| Policies | none | `can_use_tool`, `visible_columns` | validator, tools | a role sees what it may see |
| Follow-up planning | none; reads `SessionMemory` | guards, query state, heuristics | memory before and after the answer | "them" means the people talked about, and only where it is said |
| Routing, formatting, API, wiring, catalog, scripts | none that matters to other parts | | | text and plumbing |

What is hard in it: turns run concurrently on one event loop and share breakers,
compiler attributes, caches and sessions; nodes of a wave fail or time out one by
one; a turn touches its session in many separate saves; and the meaning of
"them" and "she" is spread over four fields of the session that different
branches of one function keep.

## 2. Plan

| # | Modules | What they ask | State |
|---|---|---|---|
| 1 | `PlanGraph`, `PlanValidator`, `PlanningProofs` | Is the validator's verdict exact? | done, proved |
| 2 | `PlanExecution`, `PlanExecutionProofs` | Do waves, failures and shared breakers work under concurrency? | done, proved |
| 3 | `TurnOutcome`, `TurnOutcomeProofs` | Does memory follow the answer? | done, proved |
| 4 | `StatusConfirmation`, `StatusConfirmationProofs` | Is the write that happens the one that was confirmed? | done, proved |
| 5 | `SessionMemory`, `SessionMemoryProofs`, and `Conversation`, the specification of atomic turns it implements without overlap | What do concurrent turns and failures leave? | done; invariants, actions and refinement proved |
| 6 | `PlanCompiler`, `PlanCompilerProofs` | Which planner answers; the repair loop; attributes shared by requests | done, proved |
| 7 | `Retrieval`, `ResumeSearchProofs` | Searches beside ingests; whose, and which day's, answers the cache gives | done, proved |
| 8 | `QueryCache`, `QueryCacheProofs` | The sql cache beside status writes; whose rows and columns an answer has; statements of the model | done, proved |
| 9 | `Birthdays`, `ResumeFacts`, also in `ResumeSearchProofs` | Do answers from resumes say what the resumes say, over any calendar? | done, proved |
| 10 | `FollowUps`, also in `PlanningProofs` | Without a model, does every planner mean the same people by "them"? | done; proved, `TiersAgree` in part |

`PlanGraph` is shared by the validator and the executor, so the statement "the
validator accepts exactly acyclic, closed plans" and the statement "acyclic plans
complete" are about the same operator: together they say that an accepted plan
never deadlocks. `TurnOutcome` takes the executor as a function from node endings
to results, which `DependenciesSeen` of `PlanExecution` justifies. `TurnOutcome` asks
what a turn leaves behind when its nodes fail, for the shapes of plans; `FollowUps`
asks, when nothing fails, which plan a question gets and whom the next question is
about. `Birthdays` is the calendar that `ResumeFacts` answers from.

## 3. Modules and code

### PlanGraph and PlanValidator

`application/planning/plan_validator.py`, `validate`. The node loop is one action
per node (`CheckNode`) that appends the errors of that node (`NodeError`: unknown
kind or name, permission, parameters, dependencies that are not in the plan);
`CheckShape` is the test of emptiness, size and unique ids. The nested `dfs` is
modelled with an explicit stack: `VisitRoot`, `VisitDep`, `Leave`, with the sets
`visiting` and `visited` of the code. The permission table and whether a node's
parameters are allowed are inputs. Wording of errors is left out.

### PlanExecution

`application/execution`. State: `breakers` (the dictionary of `NodeRunner`, shared
by all turns), and per turn its plan, the progress of every node and `degraded`.
`StartWave` is the `gather` of the ready nodes, `EndWave` its return; between them
nodes run interleaved: `RunOperator`, `RejectCall` (circuit open), `CallTool`
(the await begins), `ToolSucceeds`, `ToolFails` (an error result, an exception, or
`wait_for`'s time-out). `Deadlock` publishes the error results of
`langgraph_executor.py:45-57`. A step is what runs between two awaits.

Time is relative and capped where the code stops telling values apart. A success closes
the circuit and forgets the failures counted, also if its call was admitted before theirs
(`RecordSuccess`); nothing in the repository asks for that or forbids it, and
`OpenCircuitIsEarned` holds either way.

Three things the model leaves out because they cannot happen: a tool that returns
an error without setting `degraded` (every tool of the repository sets both), the
"incomplete plan execution" branch after the loop (the loop ends only when nothing
is pending), and an unknown name raised out of `gather` (the validator refuses it).

### TurnOutcome

`ChatService.handle` for one session, a turn as three steps: `Ask` (references
cleared on a change of topic, plan compiled, universe marker applied), `Execute`
(the employees that meet each criterion and the way each node ends are chosen) and
`Commit` (`resolve_refusal`, then `ContextManager.commit`). A plan is a list of
nodes of eleven kinds; `Run` says what each publishes, from what its bindings resolve
to (`_resolve_path`, `_as_id_list`), `RefusalCode` is `resolve_refusal`,
`CohortPart` and `PersonPart` are the two halves of `commit`, with `CohortIds`
(`result_ids.py`) for whom the answer was about and `KeepsIds` (`cohort.py`) for whether
that becomes "them". `MCTurnOutcome` spells out the plan shapes of
`plan_from_query_state`, `location_plans`, `intent_templates` and `heuristic_planner`.

Abstractions: ids are sets (their order and the caps of 50, that of `cohort.py:64`
among them, are dropped); the codes `ok` and `empty_cohort` commit alike and are one;
operators never raise; constraints, focus, named sets and tool facts are left out;
two queries of one plan see one database; a fact about nobody is answered with
"couldn't find".

What makes a plan right is a definition too. `Conditions` runs over the nodes of a
plan and says which conditions everybody that a node publishes meets, whoever is
employed and whatever fails; a plan is sound (`SoundPlans`) if every node reads
only results it can take ids from (`Linked`) and its active node meets every
condition of the plan (`Covered`). Two things that the code does are not conditions
of the people remembered: the filters of a count that follows the cohort narrow only
the number it says (`SkillInPlace`, `PlaceCount`), and a generic search takes a scope
that found nobody for no scope (`Team`; the scopes of `GenericScope`, any of which may
be `Lost`). `Meant` says so, and with it every shape of `MCPlans` is sound, which TLC
evaluates (`PlansAreSound`); section 8 says what that is worth to the user.

### StatusConfirmation

The agent status of employees is the one thing a conversation may write. Turns of
one session, one after another; a turn that writes has three phases (planned,
written, reported), so the tool may fail before its commit or be timed out after
it. `mutation` and `who` are the two facts of the session's tool cache
(`pending_status_mutation`, `pending_set_status`), `job` the planned `set_status`
call. `shown`, `under` and `missing` are history: the questions that are open from the
user's point of view, which the properties compare with what the code remembers. A
vague question (no polarity, or nobody) is not remembered and leaves the one `under` it
to the next yes.

One action per way a turn can go: `Confirm`, `Cancel`, `BareName` and `AskValue` (the
compiler), `Direct` (the status guard), `AskConfirm` and `AskSure` (the tool selector's
questions), `SelectedAsConfirmed` and `PlannedBehind` (the writes that it, or a planner
behind it, plans for a paraphrase without asking; whom they touch is the model's word),
`AskWho`, `Query` and `Other` (the rest, told apart by what
`_sync_pending_set_status` does to the facts); then `FindsNobody`, `Propose` and
`Write` (`EmployeeTool._set_status`), `Report` (`_sync_pending_status_mutation`)
and `Fail`. `Tick` lets time pass, and `Live` is `_expire_tool_facts`.

Abstractions: an utterance is what the extractors make of it; resume retrieval
finds any subset of the people a name or a place fits, so a name two people share
may write both; the model's rationale is not consulted for polarity; saves of the
session succeed; `hitl_status_writes` is on, as by default.

### SessionMemory and Conversation

One session id. `store` is the record in the store (at most one), `readable` whether
it still validates, `copy` the object each turn works on, `step` how far the turn is.
A turn goes `Get` (or `GetNothing` and `Create`, or `GetUnreadable`, `Discard` and
`Create`, or `GetRefused`), `Hear` (`append_user`, with the summary), `Prepare`
(topic shift), `Sync` (pending facts), `Execute`, `CommitCohort`, `CommitReferent`,
`Report`, `Reply`; each saves the whole copy where the code does, and `Fail` may end
it anywhere. `Expire` is the record's lifetime or a restart of a store in memory,
`Drift` the deployment of another schema. `alone`, `kept`, `settled` and `held` (the questions
that others still held when a cancellation was saved, `Missed`) are history.

The two stores are one model. `MemorySessionStore.get` returns the stored object
itself, which looks like sharing, but nothing suspends between that read and the save
in `append_user` (its lock is never contended across an await), and the save replaces
the stored object by a deep copy, so every turn ends up with an object of its own.

`Conversation` is the promise to a client that waits for each answer: `Turn` adds a
question and its answer and moves "them" as a whole, `Break` leaves the question and
perhaps the cohort without the referent, `Forget` loses everything. The refinement
mapping shows what was stored when no turn was running (the history variable
`settled`).

Abstractions: the summary is the set of messages it digests (the code also truncates
its text); the fields that commit like the cohort and the referent are left out;
an old fact may be dropped by any turn.

### PlanCompiler

`PlanCompiler.compile` for requests in flight together. `forceRepair` and
`selectMeta` are the compiler's attributes, written when a request starts
(`Starts`) and when its selector returns (`Selected`), read when it is called and
when the plan is returned (`Deliver`). A step is what runs between two completions
of the model.

The guards are data: `GuardOrder` lists them in the order of `_compile_pair`, a
question says which of their patterns match, and `Guard` is the first that does
(`First`). A request goes `GuardAnswers`, or `LegacyAnswers` where the selector is not in front,
or on to the selector: `Reselect` sends an answer back (not readable, not
expandable, not valid, or under the probe), `GiveUp` and `Accept` end the loop, and
`Selected` is what `compile` does with the outcome, the legacy planners included.
Then `SlotsAnswer` or `SlotsMiss`, `PlannerAnswers` or `Strip`, `StrippedAnswers` or
`AskBack`. `Breaks` is a failure of the call to the model that nobody catches.

`CompileSelection` has the thresholds of confidence, `ExpandIntent` and `ExpandTools`
what a selection becomes, `NeedsHitl` when it asks first, `SlotPlan` and `PersonPlan`
what a slot bundle becomes, `Poisoned` the lint of fresh questions, with
what it lets through: a name the question does not contradict, and an id where the
question looks up a name.

Abstractions: a plan is what it does (reads, writes, asks back, refuses) and how it
says about whom (`Scopes`: nobody earlier, its own nodes, the cohort, a name with ids, an id,
or the employee of a write); confidence has the three bands the code compares; which
question matches which pattern, and what a valid expansion is, are inputs. The pending
facts of a reply are in `StatusConfirmation`.

### Retrieval

Resume searches (`ResumeSearchTool.run`) beside ingests (`IngestPipeline.ingest_file`).
`index` is the table of chunks, one row for the chunks of one ingest; `cache` the
retrieval entries with their keys and ends of life, which `RedisCache` drops and
`MemoryCache` does not (`expiring`). A step is what runs between two awaits, so an
ingest is `Delete` and `Upsert` (or `UpsertNothing`, or `Abort`), and a search goes
`Begin` (the key is built), `Hit`, or `Miss` and `Resolve`, `Fetch`, `Count`, or
`Rank`, then `Store`; it may `Fail` anywhere. `Key` says what tells two questions
apart to the cache, `KeyTells` when that includes their scopes, `Alike` which questions
share a key otherwise, `Midnight` how long an attribute answer lives. An answer is
abstracted to the rows it saw of each person and the day it counted from.

`touched` (whose chunks changed today) and `clean` (ingests that no other one of the
same employee overlapped) are history. Abstractions: names match exactly (the fuzzy
arms end in a question or in one person); a facet is an unscoped cohort; the ranking
and its floors keep any subset; the limit of 2000 chunks is not reached; the searches
run for one principal and one text.

### QueryCache

`SqlTool` (`tools/sql/tool.py`) with `QueryBuilder`, `SqlExecutor`, the cache keys, the
column policy and the row policies of the migrations. `calls` are the calls of the tool
in flight, `cache` the entries with their ends of life, `db` the statuses and the day.
A constrained call goes `Ask` (role tested and statement built, before any wait), then
`Hit`, or `Miss`, `Execute` and `Store`; a free one goes `Draft` (the model answers)
and `RunDraft`, or `Bounce`, which is the one repair. `Fail` is a failure of the cache,
the database or the model, or the time-out; `SetStatus` is the write of
`EmployeeTool`, which leaves the cache alone; `Tick` is time and midnight, on which
answers about tenure depend. `Build` is the statement, as the parts the answer depends
on, `Answers` what it may return under `Visible` (row-level security), `Key` what the
cache tells apart.

`TwinsAssumption` says that the two calls of a turn that lists and counts have the same
filters and the same scope, as `heuristic_planner.py` builds them. `held` (the states
the table had, by time) and `twins` (the last turn was a list with
its count) are history. Abstractions: `RedisCache` only (`MemoryCache`, used where no
Redis is configured, ignores the lifetime, so `AnswersAreRecent` does not hold of it);
only statuses change; a generated statement is its verb, tables, columns and kind of
limit, whether it calls functions, and whether it ends in a comment. `Valid` is what
the validator looks at, which is not the functions; `Executable` what it appends, which a
comment hides; one with functions may return any rows and columns (`Reads`).

### Birthdays and ResumeFacts

`Birthdays` is `age_on`, `next_occurrence`, `is_today`, `days_until` and `turning` of
`tools/resume_search/birthday.py` over a calendar of dates (`datetime.date`, external).

`ResumeFacts` is a question about a fact of resumes, from its words to the answer:
`Plan` or `AskBack` (the extractor of the attribute and its `_*_plan` function), then
`DoubtPerson` (a name that is not sure), `TellPerson`, `TellCohort` or `TellFacet`
(`_attribute_person`, `_attribute_cohort`, `_attribute_facet`), and `DayPasses`, which
may fall between the two. A resume is a set of chunks: the section, the index within
it, the attributes whose hints it contains, and what the extractors find in it.
`FactsFrom` takes the first chunk that tells (one of them, where sections share an
index), `Readings` is the limit of `fetch_section_chunks`, `Select` and `Celebrated`
are the two selections that a birthday answer makes, `Missing` the caveat about
coverage.

Abstractions: what an extractor finds in a text is an input; a name is the set of
people it contains, resembles and resembles well; the cache and concurrent ingests are
in `Retrieval`.

### FollowUps

A session in which no model answers: the guards of `PlanCompiler._compile_pair` about
people and lists (`PersonGuard`, `SetGuard`), then `plan_from_query_state`
(`Structured`), then `try_heuristic_plan` (`Heuristic`), which is what the cascade tries
in this order. `memory` is the part of `SessionMemory` that a question may refer to. A
question is the set of patterns that match it, with the filters, the skill and the
person found in it; a plan is what it asks for, among whom, and under which filters.
`Answer` is the plan: `Compile` after `Shifted` (an explicit change of topic). `Turn` is
what the session remembers then: `Constrained` (`merge_query_constraints`, which runs
after the plan was made and before commit), and `After` (`ContextManager.commit`, with
`Saved`, `Listed`, `Entities` for the functions of `memory/`). `Expire` is the lifetime
of the last count. `known` are the people of the entity memory: `Familiar` says that a
name in the question is one of theirs, which the heuristics look at before the rest of
it (`Claimed`), and `Elliptical` that it is nobody's they know.

A planner that leaves the question to the next one returns `Declines`; `Over` is how
the conditions of a question override those remembered. Each of the questions of
`MCFollowUps` is an English sentence, in a comment, with the patterns that match it in
the code; "knowing" and "skill intent" are the two patterns by which extraction and the
heuristics tell a question about a skill. `FollowUpAssumption` has what the expressions
guarantee of any question: "names please" and "how many was that" are matched by the
expression for "them", "headcount" is a question of its own, a lone skill names one,
and where a person must be named one is. Abstractions: nodes do not fail; the
confirmation of writes and the attributes of resumes are guards of their own, in
`StatusConfirmation` and `ResumeFacts`; order, limits, and the dropping of a cohort of
more than fifty are left out.

## 4. Runs that pass

| Run | Instance | Shows |
|---|---|---|
| `validator` | all 512 dependency graphs over three nodes; all one- and two-node plans with every fault; two roles | verdict exact (`VerdictExact`), the search returns (`Returns`, weak fairness: the function runs) |
| `execution` | two turns, three plan shapes (intersection, single query, a chain closed to a cycle), two tools, threshold 2, recovery and time-out 1 tick, under fairness | waves respect dependencies (`DependenciesSeen`), acyclic plans complete (`AcyclicPlansComplete`), failures reported exactly (`DegradedMatchesFailures`), an open circuit earned (`OpenCircuitIsEarned`), and every turn ends whatever tools do (`EveryTurnEnds`) |
| `outcome` | two employees, eighteen plan shapes, every combination of node endings, any number of turns (643,444 states) | after a full answer "them" are the people asked about, or whoever they were where `cohort.py` keeps no ids (`CohortIsAnswer`); failures never widen it, a lost scope apart (`NeverOrgWide`); where something broke and nobody was found it stays (`OutageKeepsCohort`); the referent is the cohort or one person (`ReferentIsCurrent`) |
| `confirmation` | three employees, two with one name; twenty utterances: seven that name a person, an id, a place or nobody, nine replies, four paraphrases; facts that live one tick (335,100 states) | no status changes unless the conversation asks for it or a model reads it in a paraphrase (`EveryChangeWasAsked`), and a failed write can be confirmed again (`FailureKeepsQuestion`) |
| `sessions` | three overlapping turns, two users, trigger and kept history 2 (143,679 states) | no turn sees somebody else's conversation (`OneOwner`), answers stay behind their questions (`AnswersFollowQuestions`), and a turn that ran alone is remembered (`AloneIsKept`) |
| `sessions_one` | three turns of one user, overlapping or not, failing anywhere (633,309 states) | until the first overlap the saves of a turn implement `Conversation` (`TurnsAreAtomic`); a cancelled write is made only if another turn held its question when the cancellation was saved, or had saved it back (`CancelledStaysCancelled`) |
| `planner` | two requests, eight questions, nine selections and garbage, six bundles, four free drafts, three settings, one repair (386,823 states) | refused topics never reach the model (`RefusedNeverSent`), selected writes are sure and confirmed (`SelectedWritesAreSure`), no fresh question is answered about an earlier cohort, and about one of its people only as the lint permits (`FreshStaysFresh`), a request sees its own probe and selection (`SelectionIsMine`), every request returns (`EveryRequestReturns`) |
| `retrieval` | three employees, two ingests of one of them, two searches, six questions of which two pairs share a key, three ticks over a midnight | what an undisturbed ingest leaves is exact (`LoneIngestIsExact`), ages are of a day the search ran on (`DatedAnswers`), nobody outside a question's scope (or, where the key does not hold it, of one scope that shares the key) is in its answer, and an attribute answer misses nobody in it but those ingested that day (`AnswersFitScope`) |
| `resume_facts` | three people with whole, split, contradictory and missing resumes, in every combination; thirty questions; starts on 2022-12-30, 2023-02-27, 2024-02-28 and 2100-02-27, and two more days; at most four chunks read | countdowns come true (`CountdownHolds`) and so do ages (`AgesCome`), a cohort has nobody whose resume does not say so and leaves out nobody whose resume does (`CohortsAreExact`), what is not found is admitted (`GapsAreAdmitted`), a counted place has people and no other has (`FacetsAreCohorts`) |
| `query_cache` | three employees of two tenants and two departments, asked about by a recruiter of each tenant, two managers and an employee, two calls in flight; lifetime 2, time-out 1, midnight at 2, up to time 3; two turns of nine kinds, one write, six drafts, one with functions and one with a comment | no answer is of a table gone longer than an entry lives and a call takes (`AnswersAreRecent`), a list and its count agree where nothing changed (`PairsAgree`), no salary leaves its department or tenant, drafts with functions apart (`SalariesStayHome`), no draft of the model, repaired or not, runs unchecked, and what the checks miss is only functions and a limit behind a comment (`DraftsAreChecked`) |
| `follow_ups` | three employees, forty-two questions, any number of turns (15,444 states) | a question without a skill that refers to nobody is not narrowed by memory, and not changed by it unless it names somebody known (`FreshStandsAlone`), lists and counts about "them", other than by hire window, reports or seniority, stay within them (`FollowUpsStayInside`), a list is the next "them" and "names please" repeats it (`ListedIsThem`), so is whoever is counted (`CountedAreThem`), and the planners find the same people, a familiar name apart (`TiersAgree`) |

Why the bounds are enough. Three nodes hold every shape that matters to the search
(self-loop, two- and three-cycle, diamond edge, cycle behind a root); the proofs
cover the rest. `MCPlanValidator` also checks, by an assumption TLC evaluates, that
`Acyclic` is what reachability says. Two turns of up to three nodes give the breaker up
to six calls against a threshold of two, so it opens, recovers, is reopened by a late
failure and closed by a late success. Three employees let a yes meet its own question,
somebody else's, one that shares a name and one about several people; conversations are
not bounded. Three overlapping turns let one be lost by another and be seen by a third;
a history that is cut at two messages is cut at every question. In `TurnOutcome` two
employees distinguish "nobody", "one", "everybody" and "the other one"; sessions are not
bounded, TLC explores them until no new memory appears. The questions of `planner` match
no guard, one, or several that disagree; the selections are one for each way through the
thresholds; two requests suffice for one to overwrite what the other reads, and one
repair for a first, a repaired and a last attempt. In `retrieval` two ingests of one
employee crash, overlap and repair each other; two searches are one that stores and one
that is given what was stored, on the same day or the next.

In `resume_facts` the days are the ends of a year, and the days around the end of a
February of 28 days, of one of 29, and of 2100; birthdays lie on, before and behind
them. Four chunks are fewer than three people can have, so the limit cuts; a resume
tells a fact in its own section, elsewhere as well, only in a later chunk, or not at
all, or does not exist. In `query_cache` an entry can be filled before a
write, be read after it, and expire; a second turn suffices to be given somebody else's
entry, for every pair of principals. In `follow_ups` memory is finite, so TLC finds
every memory that a conversation can lead to, and asks every question of it; three
employees are enough for a "them" of none, one, two and all, in two cities and
departments.

Fairness of `execution`: the event loop runs callbacks that are ready (weak
fairness of each turn's bookkeeping and of each queued node) and time passes (weak
fairness of `Tick` and of the time-out once due, since `wait_for` fires it). Nothing
is assumed of tools. Fairness of `planner`: a call to the model returns or raises (weak
fairness of each request's `ModelReturns`), because its client has a time-out. Which
answer it gives, and whether it ever gives a useful one, is not assumed.

Deadlock checking is off where the model stops because everything asked is answered, or
its time is over: `validator`, `execution`, `sessions`, `sessions_one`, `planner`,
`retrieval` and `query_cache`.

## 5. A run that finds a disagreement

`unclear_yes` checks a sentence of the code against what the code does; `PROJECT.json`
quotes it under `findings`. A confirmation question that could not tell true from false
is not remembered; a yes to it performs an older write (`YesMeansShown`).

## 6. Proofs

Eight modules prove safety properties of `PlanValidator`, `FollowUps`, `PlanExecution`,
`TurnOutcome`, `StatusConfirmation`, `SessionMemory`, `PlanCompiler`, `Retrieval`,
`ResumeFacts` and `QueryCache` for every value of the constants, from the named
assumptions of those modules (plans are finite lists or functions of well-typed nodes,
thresholds and lifetimes are numbers, employees are finitely many and have names).
Each has the same three parts: the invariant holds at first, every action preserves it
(a lemma per action), and it implies the property. Only the two theorems about
`TurnOutcome` that speak of plans add a hypothesis, `SoundPlans`, which TLC evaluates for
the plans of the code. Where the code does not do what one would wish, the property
names the exception, and sections 5 and 8 say what the code does there.

* `VerdictIsExact`. The accepting direction needs to know that the nodes already
  left form a set closed under dependencies in which every non-empty subset has a
  source; the invariant says that of `visited` minus `visiting`, and that the stack
  is a path of the graph. The rejecting direction (`CyclesAreReal`) reads a cycle
  off the stack: from the node found again to the top, every node depends on one
  above it, so that set has no source.
* `MemoryIsTyped` and the five theorems about `FollowUps` that rest on it. The planners
  are cases over patterns, so the argument goes by planner and not by question: one
  lemma per planner says what every plan it returns is, and `Compile`, which takes the
  first that answers, inherits it. For `CountsBecomeThem` and `ListsBecomeThem` the fact
  is `Sound` (who a plan names is an employee, a count has conditions that are known);
  with `Remembers`, the invariant, for the memory the plan is made from. For
  `FollowUpsAreInside` it is `Inside`, together with `ThemIsUnderstood`: extraction is
  sure of a question about "them", or the question states nothing that a later planner
  could ask of the company. For `FreshIsPlannedAlone` it is that two memories give one
  plan, unless one of them knows the person named. They hold for any company and any set
  of questions that fits `FollowUpAssumption`, including combinations of patterns no
  sentence has.
* `TiersAreOfOneMind` is `TiersAgree` for the questions that state one thing, and only
  where both tiers look for people (`Finds`), so that there is something to compare.
  `AsksOneThing`: a place, a department, a skill somebody "knows", or a hire window
  asked of the company, of "them" or of everybody, and no pattern that claims a question
  for itself (`Claims`). Each planner then `Selects` by that one condition, and two plans
  that select alike find the same people. A question for somebody's reports
  (`AsksForReports`) they plan alike, unless the session has heard of the name.
* `DependenciesAreSeen` and `PlansComplete`. Per node: a queued node has its
  dependencies published, and published nodes stay published. A deadlock means that
  the pending nodes have no source, which contradicts `Acyclic`. `DegradedIsExact`
  follows the nodes that failed through the wave to the turn's flag.
* `OpenCircuitsAreEarned`. A breaker's failure count never exceeds the number of
  failed nodes of its tool (a success only lowers the count, a failure adds one to
  both), and it opens only at the threshold (`BreakersMatch`).
* `CohortIsExact`, `NeverWidened`. Results and conditions are both functions over the
  nodes of a plan, so one induction on its length (by a least node that fails) carries
  the statement "whoever this node publishes meets its conditions" over any plan.
  The conditions are indexed by the set of scopes that were lost, so the statement
  holds for each way in which they can be. Without failures the converse holds as well, and
  with `SoundPlans` the active node's result is the people meant. `OutagesKeepCohort` and
  `ReferentFollows` need no soundness: the one goes over the refusal codes (a broken node
  and no evidence anywhere is an error, and every earlier test preserves the cohort too),
  the other over what a turn has fixed at each phase (`Invariance`).
* `ChangesAreAsked`. The property speaks of the dialogue, the code acts on its facts.
  The invariant is the bridge: a remembered mutation is the open question, a
  remembered value is the one asked for without a person, both with the same age, and
  the planned call of a turn is what that turn asks for, or, in the turn of a paraphrase,
  what the model made of it. A question under which an unclear one was put stays the
  one that a yes performs (`under`). `FailuresKeepQuestions` follows from the same mirror: a
  turn that fails leaves the facts, and so the question, alone.
* `SessionsHaveOneOwner`, `AnswersHaveQuestions`, `HistoriesAreBounded`. One statement
  about a record (everything in it is its owner's, answers stand behind their
  questions, its length is bounded) holds of what is stored and of every turn's copy,
  since each save replaces the one by the other. A turn that has been heard knows its
  own question, and its history is short enough to take the answer, which is why
  the bound holds for any number of overlapping turns.
* `AloneStays` says where a turn's messages are (in the store, and in every copy that
  was loaded since), also while later turns overlap. `CancelledIsFinal` follows a
  question from the cancellation on: if no other turn held it then (`held`), it is in no
  copy and not in the store, and only an asking turn, which it has been, brings one in.
  `TurnsTakeEffectWhole` speaks of the session until turns first overlap (`alone`):
  until then at most one turn is under way and its copy is what is stored. The
  refinement's invariant relates `settled` and the store by the phase of that turn;
  every save then maps to a stutter, and the end of the turn to `Turn`, `Break` or
  `Forget` of `Conversation`.
* `RefusalsComeFirst`, `WritesAreSure`, `FreshAnswers`, `SelectionsAreOwn`,
  `CallsAreBounded`. Per request the invariant says, by phase, how many calls it can
  have made, which plans and metadata it can hold, and that one past the guards has a
  question no guard hits. What other requests write to the shared attributes matters
  only between two actions of a request, and there the invariant says nothing of them.
  That refusals come before any guard that asks the model is a fact about the
  order of `GuardOrder`, and is the longest lemma.
* `LoneIngestsAreExact`. A clean ingest that is past its delete knows that its
  employee has no chunks, or its own: every other step on that employee would have made
  it unclean. `AnswersAreDated`: an answer, and an entry of the cache, has a day
  between the one in its key and today. `AnswersAreScoped` says of an entry what it says
  of an answer: it is of one of the questions with its key, which is the asker's own
  scope wherever the key holds that (`KeyTells`).
* `CountdownsHold`, `AgesHold`. From the calendar up: the ordinal of a date tells it from
  any other and grows by one a day, over leap years and centuries; hence the next
  anniversary of a birthday stays the next one until it is there (`OccurrenceStays`),
  and the difference counts down with the days.
* `CohortsHold`, `GapsHold`, `FacetsHold`. The facts of an answer are one reading of the
  resumes: among the chunks of a person that tell, one has the least index, since
  indexes are numbers, and an answer names and counts only from there. What a question
  is told is fixed when it is answered, whatever day it is by then.
* `SalariesAreSafe`. Every entry has rows that are visible to the permissions in its
  key, and every call's permissions are its asker's; a statement's columns alone do not
  do it, since the column policy is asked with the manager's own department.
  `DraftsAreSafe` counts drafts per phase, and says of a statement that runs what the
  validator has seen of it. `AnswersStayRecent` adds times: an answer that is read, kept
  or given fits a state the table was in at a time that the call's start, the entry's
  end of life and the time-out bound. `ListsAgreeWithCounts`: with nothing changed since
  the two calls began, both answers are of one state, and `TwinsAssumption` makes them
  answers about the same people.

Only model-checked: liveness (`Returns`, `EveryTurnEnds`, `EveryRequestReturns`), since
the prover does not handle fairness; and `TiersAgree` beyond `TiersAreOfOneMind`. For
arbitrary sets of patterns it is false, and not only for sets that no sentence has: the
planners disagree about questions with two conditions or two claims (section 8). It is a
property of the forty-two questions of `MCFollowUps`.

The prover's induction theorems cannot be instantiated; the induction over the nodes of
a plan is proved from the existence of a least number in a set of numbers
(`LeastNumber`).

## 7. Not modelled

Text: regular expressions over English, prompts, wording, layout. Which patterns a
question matches and what a resume says are inputs; `MCFollowUps` and `MCResumeFacts`
have them for the sentences they quote. Outside services: the LLM, the embedding model,
the ranking of the vector index and PostgreSQL's planner are arbitrary answers.
Authentication, HTTP, wiring, the schema catalog (read once, never changed), operator
scripts, the response formatter (layout of a decided answer) and the routers (scores
over text) keep no state that another part depends on. Of the session, named sets and
the token budget of context packets are left out; of the operators, the order of ids.
`PROJECT.json` has the status of every component and, for each hazard without a
property, why.

## 8. Where the documentation differs from the code, beyond the runs

Some of these can be reproduced by changing a run, as said at each.

Sessions, execution and planning:

* `application/execution/node_runner.py:107` says of an empty binding "empty cohort
  (QueryBuilder AND 1=0), never org-wide". `tools/resume_search/tool.py:222` takes an
  empty list of ids for no scope, so the skilled people of a manager without reports
  are those of the whole organisation. `Team` of `MCTurnOutcome` and of `FollowUps` have
  it as it is; `NeverOrgWide` and `CohortIsAnswer` count the lost scope (`Lost`) as no
  condition, and fail if `Lost` is empty.
* A plan of `expand_selected_tools` (`intent_templates.py:655-659`) that ends in a generic
  search publishes that search as its cohort, and with it hits below `min_score`, which
  other plans drop by `extract_employee_ids`. The plan is not sound and is not among
  `MCPlans`.
* `understanding/plan_from_query_state.py:725-738` and `planning/location_plans.py:127-147`
  publish, for a count, the ids retrieved before the filters of the count: "how many
  engineers in Berlin know Python" says a number and remembers everybody in Berlin who
  knows it. `CohortIsAnswer` says that the filters of a count narrow the number only
  (`Asking`).
* `memory/cohort.py:45` does not count a status among the filters that make a query one
  about somebody: after "how many employees have status active", whose plan publishes their ids,
  "them" is whoever it was before (`KeepsIds`, `StatusCount`).
* `application/chat/chat_service.py:58-59` says of the tools it names that "Tools that
  errored are left out". The error of a time-out is the text of the exception, which is
  empty (`node_runner.py:160`), and an empty error does not count as one.
* `application/memory/context_manager.py:293` clears "them" when the active node has no
  ids, also if it failed, where some other node has an answer to show; its comment
  speaks of an "Empty intersect / empty location match" (`:298-299`), and
  `docs/WORKFLOW.md:681` has "Preserve" for `tool_error`.
* `application/memory/context_manager.py:273` says that a refused or failed turn keeps
  the cohort. `apply_universe_marker` empties it before the plan is executed
  (`AfterUniverse`); `OutageKeepsCohort` compares with what the question left.
* `application/response/refusal.py:83` says of a refused turn that "Cohort / list /
  bindings must survive these outcomes". `commit` updates the bindings and the list
  outside the branch that tests for a refusal: a clarification with one candidate, or
  a withheld salary, changes who "she" is (`PersonPart`).
* `application/planning/plan_compiler.py:301` tells the user "Cancelled — I won't
  update anyone's status." A turn that loaded the session before the cancellation was
  saved still has the pending write; it is performed if that turn is a yes, and comes
  back for a later yes if that turn saves (`application/memory/memory_service.py:61`).
  `CancelledStaysCancelled` excepts the questions held so (`held`), and fails if it does
  not.
* `application/planning/plan_compiler.py:446-447` says that "Novel paraphrases miss the
  extractor and use tool-select HITL instead". A paraphrased write is planned without
  asking when the model marks its own selection, under another intent, as confirmed
  (`tool_selecting_planner.py:226-231`; `SelectedAsConfirmed`), or when the selector
  fails and a planner behind it answers (`plan_compiler.py:1105-1172`; `PlannedBehind`).
  `EveryChangeWasAsked` excepts the turns of paraphrases, and fails if it does not. A
  question that is put to the user for lack of confidence is not remembered, so that a yes
  to it performs an older write (`AskSure`).
* `application/memory/context_view.py:301` allows resolved ids to ordinals and anaphora
  only. A plan for a fresh question may hold the name and the ids of an earlier person
  (`:325-334`: birthdays, `plan_from_query_state.py:410-418`, and the other facts of a
  resume) if the question looks up nobody else, and a profile by id if it looks up
  anybody at all (`:336-338`). In turn the lint takes a plan's bindings of its own for the
  session's cohort (`:320`): a place's people, a profile by name and a status write by
  name that the slots plan for a fresh question are asked back (`Poisoned`).
* `application/planning/tool_selecting_planner.py:254` infers the polarity of a
  paraphrased write "from common verbs", but tests for "activate" before
  "deactivate", which contains it: a request to deactivate somebody is put to the
  user, and remembered, as setting the status to true (`Polarity`).
* `src/backend/README.md:76` says that responses include the planner's `meta`. What it
  says of the selector is the selection of whichever request wrote last, if the answer
  came from the slots or the free-form planner; `SelectionIsMine` leaves those modes
  out, and fails if it does not.
* `docs/WORKFLOW.md:267-272` says that tiers 1 to 4 cost no tokens and that regex turns
  "never pay for an extra LLM call". In the default mode, `primary`, the legacy tiers
  come after the tool selector (`LegacyFirst`).
* `docs/WORKFLOW.md:290` sends a slot plan that fails the lint to the free-form planner;
  the code asks the user back (`llm_slots_lint_clarify`).
* `application/planning/plan_compiler.py:414` puts the salary rule "before any SQL / LLM
  path"; the guard for a person's profile, which uses the database, comes before it.
* `docs/WORKFLOW.md:617` clears referents on a greeting or a topic shift; the code
  clears them only on an explicit topic shift.
* `docs/WORKFLOW.md:653` says the role employee is denied sql and resume_search;
  `domain/policies/rbac.py` denies it sql only.
* The execution diagram of `docs/WORKFLOW.md` asks the breaker before it looks at
  the kind of the node; the code asks it for tools only.

"Them" and follow-ups:

* `application/planning/heuristic_planner.py:636-637` says that "Org/cohort asks must
  never bind to the focused person". The guard of `:680-788`, called at
  `plan_compiler.py:970-972`, does so where its patterns do not see that an ask is one.
* `application/planning/plan_compiler.py:839-840` and `context_manager.py:298-299` say
  that after an empty refinement "them" is nobody, and names are not listed. If the
  place alone had people, `extract_listed_employees` (`context_updates.py:232`) takes
  them for the list, and "names please" lists them. For the same reason
  `docs/WORKFLOW.md:629`, by which ordinals index "the last answer that actually showed
  name bullets", does not hold (`Listed`).
* `application/planning/heuristic_planner.py:1011` says that count refinements follow
  the filtered cohort, and `:1110` that a filtered count "also materializes the matching
  cohort". A skill or place count with a department publishes the ids retrieved before
  the filter, and a count of those who joined in a window is not kept at all
  (`Published`, `Saved`).
* `heuristic_planner.py:861` describes an answer about a team as "Compose manager →
  reports ∩ skill RAG ∩ optional place": the answer lists the skilled reports, the
  list remembered is all reports.
* "How many of them?" is narrowed by a city or department remembered from earlier
  (`extract_query_state.py:337`), though "them" is a list of people by then; "start over
  — who knows Python?" is limited to a remembered city (`OrgWide`); "which of them joined
  this year", "which of them report to X" and "which of them is the most senior" are
  asked of the whole company (`SetGuard`, `Structured`); `FollowUpsStayInside` leaves
  them out, and fails if it does not.
* The planners of `plan_compiler.py:1058-1069`, and the guards before them, do not
  always mean the same people. "How many of them joined this year" counts the company's
  new people to the guards, and all of "them" to `heuristic_planner.py:1763`, which does
  not see the window; "which of them in Engineering are in Berlin" loses the department
  at `:1743`; "how many of them have Python" is a count of all of "them" to the query
  state, which asks for a verb like "know". `TiersAgree` does not hold of such questions.
* `heuristic_planner.py:696` says that "Named or pronoun subjects are handled on dedicated
  paths". A name that `_match_entity_name` (`:941-993`) does not find in the session's
  memory is handled by none: with Cid Low in focus, "where does Ann Fox live?" is answered
  about Cid Low (`Elliptical`).
* A name that it does find beats the rest of the question in the heuristics only
  (`Familiar`): once Ann Fox was talked about, "who is on ann fox's team?" is her profile to
  `heuristic_planner.py:1621-1636`, since "team" is a word for a person's attributes, and
  her reports to the guards. In "Ann Fox's" the capital letters make the possessive part of
  the name, which is then nobody's in memory.
* "Which of them know X?" is asked back, or answered about the only person known
  (`plan_compiler.py:629-660`); the heuristics behind that guard plan a search among them
  (`src/backend/tests/unit/application/test_heuristic_planner.py:389`).
* "Who is the manager of X" makes X and the managers above the cohort, and binds "he" or
  "she" to X (`Published`).
* To the heuristics "how many people" mentions the department People ("how many people know
  Python and joined after 2020?" counts that department, the guards the hire window), and "list
  software engineers" the department Engineering. Most of their middle branches are unreachable
  behind the guards.
* `application/planning/intent_templates.py:87` drops a cohort of more than fifty and
  plans a question about it for the whole organisation; `memory/cohort.py:64` keeps
  such cohorts when they come from resumes.

Searches and caches:

* `tools/resume_search/tool.py:407` says "An explicit empty employee_ids list must
  never fall through to the whole corpus." The key of the cache does not tell an empty
  list from none (`Key` of `Retrieval`): if the same question was asked of everybody,
  nobody's answer is everybody's. `AnswersFitScope` says that it is one of the two, and
  fails if `KeyTells` claims empty scopes.
* `tools/resume_search/tool.py:166-168` says that "two questions about the same person
  or cohort must not share a cache entry"; of a scope only the first 80 ids are in the
  key (`Keyed`). In `MCRetrieval` the key holds two ids, a team of three shares it with the
  half of it, and `AnswersFitScope` fails if `KeyTells` claims that scope.
* `adapters/vectorstore/pgvector_store.py:270` promises "Every chunk in the given
  sections"; its caller takes at most 2000, and people beyond are counted as having no
  date of birth recorded (`Missing`).
* `domain/policies/column_policy.py` compares the manager's department with that of the
  rows; `tools/sql/tool.py:58-60` passes the manager's own for both, so that only the
  row policies limit salaries (`SalariesStayHome`).
* The row policies bind the roles that are subject to them. The default configuration
  connects as the user that `src/backend/docker-compose.yml:5` makes the superuser of the
  database (`config/settings.py:24`), which is not: there `Visible` is every row, and salaries
  are limited by the role's columns only. `SalariesStayHome` is about a deployment whose
  policies are enforced.
* `adapters/sql/validator.py:13-15` says "Generated SQL reads employees and nothing else."
  Only tables and columns that the parser sees as such are looked at (`:34-49`), so a
  function that runs a text it is given reads whatever the text says. And the limit
  is appended to the text (`:53`), where a comment at its end takes it in. `DraftsAreChecked`
  and `SalariesStayHome` except statements that call functions, and the bound those whose
  limit a comment hides (`Bounded`); they fail if they do not.
* A generated statement may count only by naming a column: `COUNT(*)` is refused as a
  star. One whose limit is an expression is given a second limit, which PostgreSQL does
  not parse.
* `MemoryCache` ignores `ttl_seconds`.

Facts of resumes:

* `tools/resume_search/birthday.py:161` says "Age at the next anniversary." For those
  born on 29 February, on 1 March of a year without one, `turning` is a year ahead
  (`:160`); `AgesCome` leaves them out, and fails if it does not.
* `birthday.py:209` says that `select_cohort` gives "Facts the cohort answer actually
  talks about"; for a month it has whoever has a birthday today as well (`Celebrates`).
  "Next month" is the next thirty days, and "when is X's next birthday" is answered
  about whose birthday is closest (`BirthdayScope`).
* `tools/resume_search/location.py` says that the labelled section comes first; the
  first chunk by employee and index wins, and the index starts anew in every section
  (`FactsFrom`). "A country-only question includes every city in it" holds of resumes
  that name the country.
* `tools/resume_search/certifications.py` matches names that contain each other: asked
  for CKAD, it names whoever holds a CKA (`Like`).
* The answer on whether an experience is complete says that it is everything written
  in the resume; it is the first chunk, up to eight entries, without lines that have a
  dash (`Items`, `Shown`).
* Of two namesakes of whom one has the fact asked for, the answer is about that one,
  without asking which is meant (`Say`).
