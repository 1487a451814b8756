----------------------------- MODULE PlanCompiler -----------------------------
(***************************************************************************)
(* PlanCompiler.compile for requests in flight together: the cascade of    *)
(* deterministic guards, the tool selector with its repairs, the legacy    *)
(* planners, the slot extractor and the free-form planner with its one     *)
(* stripped retry.  One compiler serves every request: _force_repair and   *)
(* _select_meta are its attributes, and a request is interrupted wherever  *)
(* it awaits the model.                                                    *)
(*                                                                         *)
(* A question is what the recognisers make of it; the model may answer     *)
(* anything of the right shape, something unreadable, or not at all.       *)
(***************************************************************************)
EXTENDS Naturals, Sequences

CONSTANTS Requests,
          Questions,    \* what may be asked
          Selections,   \* what the model may select
          Bundles,      \* the slots it may fill
          Drafts,       \* the plans it may write of its own
          Settings,     \* the configurations of the service
          MaxRepairs    \* tool_selecting_max_repairs (2)

(* The guards of _compile_pair, in its order: GuardOrder. *)
Escapes == <<"meta_count", "org_headcount", "about_person">>
PendingReplies ==
    <<"cancel_mutation", "confirm_status", "cancel_value", "bare_name">>
Refusals == <<"salary_acl", "unsupported">>
StatusGuards == <<"list_referent", "status_write", "status_read">>
ResumeTopics == <<"birthday", "languages", "certifications">>
PersonTopics == <<"skills", "experience", "projects">>
Pronouns == <<"pronoun">>
ListGuards == <<"facet", "list_followup", "hire_window", "tenure">>
PlaceGuards == <<"unknown_place", "place_refine", "empty_anaphora">>
SureGuards == <<"sure_query", "elliptical", "birthday_pronoun">>

(* Mutant of GuardOrder: the refusals come after the status guards. *)
LateRefusals ==
    Escapes \o PendingReplies \o StatusGuards \o Refusals \o ResumeTopics
    \o PersonTopics \o Pronouns \o ListGuards \o PlaceGuards \o SureGuards

GuardOrder ==
    (Escapes \o PendingReplies \o Refusals)
    \o (StatusGuards \o ResumeTopics \o PersonTopics \o Pronouns \o ListGuards
        \o PlaceGuards \o SureGuards)

Elements(s) == {s[i] : i \in 1..Len(s)}
Guards == Elements(GuardOrder)

Needs == {"fresh", "prior"}     \* classify_context_need, fresh or any other
Legacy == {"miss", "query_state", "heuristic"}

(* hits: the patterns that match; known: the person or the list referred   *)
(* to is in memory; write: a status change; salary: asks for pay; lookup:  *)
(* whom it looks up by name, nobody, the earlier person that a plan may be *)
(* about, or somebody else; force: the repair probe.                       *)
Question == [hits: SUBSET Guards, known: BOOLEAN, write: BOOLEAN,
             salary: BOOLEAN, role: {"recruiter", "manager", "employee"},
             need: Needs, lookup: {"none", "same", "other"}, legacy: Legacy,
             force: BOOLEAN]

Setting == [mode: {"off", "residual", "primary"}, hitl: BOOLEAN, fallback: BOOLEAN]

(* What a plan does: read, write a status, write it with the node marked   *)
(* as confirmed, ask back, ask to confirm a write, or refuse.              *)
Shapes == {"none", "read", "write", "sure_write", "clarify", "confirm", "refuse"}

(* How a plan of the residual planners names people; nothing looks at that *)
(* of the others.  chained: ids that another of its nodes finds; cohort:   *)
(* ids of earlier turns; named: an earlier person's id and name, in a      *)
(* resume search; by_id: an earlier person's profile; target: the single   *)
(* employee_id of a write.                                                 *)
Scopes == {"fresh", "chained", "cohort", "named", "by_id", "target"}
Plan == [shape: Shapes, scope: Scopes]
Empty(p) == p.shape \in {"clarify", "confirm", "refuse"}
Fresh(shape) == [shape |-> shape, scope |-> "fresh"]
NoPlan == Fresh("none")

-----------------------------------------------------------------------------
(* Guards *)

(* Employees may not ask for pay; managers meet the column policy later.   *)
SalaryAcl(q) == q.salary /\ q.role = "employee"

Hit(q, g) == IF g = "salary_acl" THEN SalaryAcl(q) ELSE g \in q.hits

(* The place of the first guard that answers, if one does. *)
First(q) ==
    {i \in DOMAIN GuardOrder :
        Hit(q, GuardOrder[i]) /\ \A j \in 1..(i - 1) : ~Hit(q, GuardOrder[j])}

Guard(q) ==
    IF First(q) = {} THEN "none" ELSE GuardOrder[CHOOSE i \in First(q) : TRUE]

Asks == {"cancel_mutation", "cancel_value", "unknown_place", "empty_anaphora"}

(* These ask back when they cannot tell who or what is meant. *)
MayAsk == {"list_referent", "status_write", "languages", "certifications", "skills",
           "experience", "projects", "pronoun", "list_followup", "birthday_pronoun"}

(* A person in focus, or picked from the list, may be one to update. *)
BoundPerson == {"list_referent", "pronoun"}

GuardPlan(q) ==
    LET g == Guard(q)
    IN  CASE g \in Elements(Refusals) -> Fresh("refuse")
          [] g \in Asks \/ (g \in MayAsk /\ ~q.known) -> Fresh("clarify")
          [] \/ g \in {"confirm_status", "bare_name", "status_write"}
             \/ g \in BoundPerson /\ q.write -> Fresh("write")
          [] OTHER -> Fresh("read")

(* plan_from_query_state, else try_heuristic_plan.  Their status branches  *)
(* use the extractor of the guard, and have nothing left to match.         *)
LegacyPlan(q) ==
    CASE q.legacy = "miss" -> NoPlan
      [] q.known           -> Fresh("read")
      [] OTHER             -> Fresh("clarify")
LegacyMode(q, cfg) ==
    CASE cfg.mode # "primary"    -> q.legacy
      [] q.legacy = "heuristic"  -> "heuristic_fallback"
      [] OTHER                   -> "query_state_fallback"

-----------------------------------------------------------------------------
(* The tool selector *)

(* Confidence below 0.55, below 0.75, or enough for a write; tools: those  *)
(* selected by name; complete: the places it names are known, and the      *)
(* person and value its intent takes are given; valid: PlanValidator       *)
(* accepts the expansion.                                                  *)
Selection == [intent: {"read", "set_status", "clarify", "unknown"},
              conf: {"low", "medium", "high"},
              tools: {"none", "read", "write", "sure_write", "clarify"},
              complete: BOOLEAN, valid: BOOLEAN]

SelectsWrite(s) == s.tools \in {"write", "sure_write"}

(* expand_selected_tools: parameters are the model's, `confirmed` among    *)
(* them; an empty selection expands to nothing.                            *)
ExpandTools(s) == IF s.tools = "none" THEN NoPlan ELSE Fresh(s.tools)

(* expand_intent: what is missing or unknown is asked for; an intent that  *)
(* is not listed leaves the selected tools.                                *)
ExpandIntent(s) ==
    CASE ~s.complete             -> Fresh("clarify")
      [] s.intent = "set_status" -> Fresh("write")
      [] s.intent = "read"       -> Fresh("read")
      [] OTHER                   -> ExpandTools(s)

(* Mutant of CompileSelection: confidence is looked at for the intent only. *)
CompileByIntent(s) ==
    IF \/ s.conf = "low" \/ s.intent = "clarify"
       \/ s.intent = "set_status" /\ s.conf # "high"
    THEN Fresh("clarify") ELSE ExpandIntent(s)

(* _compile_selection: the thresholds, then the expansion. *)
CompileSelection(s) ==
    IF \/ s.conf = "low" \/ s.intent = "clarify"
       \/ s.intent = "set_status" /\ s.conf # "high"
       \/ SelectsWrite(s) /\ s.conf = "medium"
    THEN Fresh("clarify") ELSE ExpandIntent(s)

(* _needs_hitl: a write that is not marked as confirmed asks first. *)
NeedsHitl(cfg, s) ==
    cfg.hitl /\ (s.intent = "set_status" \/ CompileSelection(s).shape = "write")

(* Neither a plan without nodes nor an expansion the validator refuses.    *)
Compiles(s) ==
    LET p == CompileSelection(s)
    IN  p.shape # "none" /\ (Empty(p) \/ s.valid)

NoMeta == [repairs |-> 0, hitl |-> FALSE, intent |-> "none", conf |-> "none"]
Meta == [repairs: 0..MaxRepairs, hitl: BOOLEAN,
         intent: {"none", "read", "set_status", "clarify", "unknown"},
         conf: {"none", "low", "medium", "high"}]

-----------------------------------------------------------------------------
(* The slot extractor *)

(* sure: confidence of 0.75; known: a name in memory; listed: somebody in  *)
(* the list or in memory; lost: a reference that resolves to nobody; attr: *)
(* what is asked of the person, fact from a resume; wants: what is asked   *)
(* without a person; prior: of the people of earlier turns, if any.        *)
Bundle == [sure: BOOLEAN, intent: {"unsupported", "clarify", "unknown", "ask"},
           place: {"none", "known", "unknown"},
           person: {"none", "named", "known", "listed", "lost"},
           attr: {"none", "status", "fact", "manager", "profile"}, value: BOOLEAN,
           wants: {"facet", "skill", "people"}, prior: BOOLEAN]

(* The free-form planner may plan anything.                                *)
Draft ==
    [shape: {"read", "write", "sure_write"}, scope: Scopes] \cup {Fresh("clarify")}

ASSUME CompilerAssumption ==
    /\ Questions \subseteq Question
    /\ Selections \subseteq Selection
    /\ Bundles \subseteq Bundle
    /\ Drafts \subseteq Draft
    /\ Settings \subseteq Setting
    /\ MaxRepairs \in Nat

(* _person_attribute_plan, with bound_person_attribute_plan for one who is *)
(* listed.  A profile binds the place to whoever its first node finds.     *)
PersonPlan(b) ==
    LET read(scope) == [shape |-> "read", scope |-> scope]
        name == b.person \in {"named", "known"}
        listed == b.person = "listed"
    IN  CASE b.person = "lost" \/ (b.person = "none" /\ b.attr = "fact")
               \/ (listed /\ b.attr = "none") -> Fresh("clarify")
          [] b.person = "none" -> NoPlan
          [] b.attr = "status" ->
                IF ~b.value THEN Fresh("clarify")
                ELSE [shape |-> "write",
                      scope |-> IF b.person = "named" THEN "chained" ELSE "target"]
          [] name /\ b.attr \in {"fact", "manager"} -> read("fresh")
          [] name                                   -> read("chained")
          [] listed /\ b.attr = "fact"              -> read("named")
          [] OTHER                                  -> read("by_id")

(* The people of a place are found first, and their names by their ids;    *)
(* so are those with a skill.                                              *)
PeopleScope(b) ==
    LET placed == b.place = "known"
    IN  CASE b.wants = "facet"                         -> "fresh"
          [] b.prior /\ ~(placed /\ b.wants = "people") -> "cohort"
          [] placed \/ b.wants = "skill"               -> "chained"
          [] OTHER                                     -> "fresh"

(* plan_from_slots; NoPlan stands for a bundle that is not handled.        *)
SlotPlan(b) ==
    CASE ~b.sure \/ b.intent = "unknown" -> NoPlan
      [] b.intent = "unsupported" -> Fresh("refuse")
      [] b.intent = "clarify" \/ b.place = "unknown" -> Fresh("clarify")
      [] PersonPlan(b) # NoPlan -> PersonPlan(b)
      [] b.attr = "status" -> NoPlan
      [] OTHER -> [shape |-> "read", scope |-> PeopleScope(b)]

(* Mutant of Poisoned: ids under a name pass, whoever is looked up.        *)
PoisonedUnnamed(need, q, p) ==
    need = "fresh" /\ \/ p.scope \in {"chained", "cohort"}
                      \/ p.scope = "by_id" /\ q.lookup = "none"

(* lint_fresh_scope: a fresh question must not be answered about the       *)
(* people of an earlier one.  Any binding of employee_ids counts, even to  *)
(* what the plan finds itself; ids under a name do not, unless another     *)
(* name is looked up, nor a profile by id, if any name is looked up, nor   *)
(* the single employee_id of a status write.                               *)
Poisoned(need, q, p) ==
    need = "fresh" /\ \/ p.scope \in {"chained", "cohort"}
                      \/ p.scope = "named" /\ q.lookup = "other"
                      \/ p.scope = "by_id" /\ q.lookup = "none"

-----------------------------------------------------------------------------
VARIABLES cfg,          \* the configuration of this service
          asked,        \* the question of each request
          phase,        \* what the request awaits
          attempt,      \* selections rejected so far
          probe,        \* force_repair, as the selector was called with it
          calls,        \* completions requested of the model
          plan, mode,   \* the answer of compile
          meta,         \* and what it says of the selection
          own,          \* what the request's own selection was
          forceRepair,  \* PlanCompiler._force_repair
          selectMeta    \* PlanCompiler._select_meta

vars == <<cfg, asked, phase, attempt, probe, calls, plan, mode, meta, own,
          forceRepair, selectMeta>>
setup == <<cfg, asked>>
answer == <<plan, mode, meta>>

Init ==
    /\ cfg \in Settings
    /\ asked \in [Requests -> Questions]
    /\ phase = [r \in Requests |-> "new"]
    /\ attempt = [r \in Requests |-> 0]
    /\ probe = [r \in Requests |-> FALSE]
    /\ calls = [r \in Requests |-> 0]
    /\ plan = [r \in Requests |-> NoPlan]
    /\ mode = [r \in Requests |-> "none"]
    /\ meta = [r \in Requests |-> NoMeta]
    /\ own = [r \in Requests |-> NoMeta]
    /\ forceRepair = FALSE /\ selectMeta = NoMeta

(* compile returns p, with the metadata it finds in the compiler. *)
Deliver(r, p, m) ==
    /\ phase' = [phase EXCEPT ![r] = "done"]
    /\ plan' = [plan EXCEPT ![r] = p]
    /\ mode' = [mode EXCEPT ![r] = m]
    /\ meta' = [meta EXCEPT ![r] = selectMeta']
    /\ UNCHANGED <<setup, attempt, probe, calls>>

(* The request awaits another completion. *)
Awaits(r, p) ==
    /\ phase' = [phase EXCEPT ![r] = p]
    /\ calls' = [calls EXCEPT ![r] = @ + 1]
    /\ UNCHANGED <<setup, answer>>

(* compile begins. *)
Starts(r) ==
    /\ phase[r] = "new"
    /\ forceRepair' = asked[r].force
    /\ selectMeta' = NoMeta
    /\ UNCHANGED own

GuardAnswers(r) ==
    /\ Starts(r)
    /\ Guard(asked[r]) # "none"
    /\ Deliver(r, GuardPlan(asked[r]), Guard(asked[r]))

Unguarded(r) == Starts(r) /\ Guard(asked[r]) = "none"

(* Without the selector in front, the legacy planners come next. *)
LegacyFirst(r) == cfg.mode # "primary" /\ asked[r].legacy # "miss"

LegacyAnswers(r) ==
    /\ Unguarded(r)
    /\ LegacyFirst(r)
    /\ Deliver(r, LegacyPlan(asked[r]), LegacyMode(asked[r], cfg))

AskSelector(r) ==
    /\ Unguarded(r)
    /\ ~LegacyFirst(r) /\ cfg.mode # "off"
    /\ Awaits(r, "selecting")
    /\ probe' = [probe EXCEPT ![r] = forceRepair']
    /\ UNCHANGED attempt

SkipSelector(r) ==
    /\ Unguarded(r)
    /\ ~LegacyFirst(r) /\ cfg.mode = "off"
    /\ Awaits(r, "slots")
    /\ UNCHANGED <<attempt, probe>>

-----------------------------------------------------------------------------
(* ToolSelectingPlanner.plan, one completion after another.                *)
Unreadable == [intent |-> "none", conf |-> "none"]

(* Mutant of Suits: the probe is read from the compiler at each answer. *)
SuitsLate(r, s) ==
    s # Unreadable /\ Compiles(s) /\ ~(forceRepair /\ attempt[r] = 0)

(* Invalid JSON, an expansion that fails or is not valid, and the first    *)
(* good one under the probe, are sent back.                                *)
Suits(r, s) ==
    s # Unreadable /\ Compiles(s) /\ ~(probe[r] /\ attempt[r] = 0)

Reselect(r, s) ==
    /\ phase[r] = "selecting"
    /\ ~Suits(r, s) /\ attempt[r] < MaxRepairs
    /\ Awaits(r, "selecting")
    /\ attempt' = [attempt EXCEPT ![r] = @ + 1]
    /\ UNCHANGED <<probe, own, forceRepair, selectMeta>>

(* _run_tool_selector with its result, and what comes after it: a failed   *)
(* or weak selection, and one that only asks back, lose to the legacy      *)
(* planners; what they miss goes to the residual planners, or is asked.    *)
Selected(r, p, m, own_, weak) ==
    /\ own' = [own EXCEPT ![r] = own_]
    /\ selectMeta' = own_
    /\ UNCHANGED forceRepair
    /\ LET defers == cfg.fallback /\ (weak \/ m = "tool_select_failed")
           soft == cfg.fallback /\ p.shape = "clarify" /\ cfg.mode = "primary"
       IN  \/ (defers \/ soft) /\ asked[r].legacy # "miss"
              /\ Deliver(r, LegacyPlan(asked[r]), LegacyMode(asked[r], cfg))
           \/ ~defers /\ ~(soft /\ asked[r].legacy # "miss") /\ Deliver(r, p, m)
           \/ defers /\ asked[r].legacy = "miss"
              /\ Awaits(r, "slots") /\ UNCHANGED <<attempt, probe>>

GiveUp(r, s) ==
    /\ phase[r] = "selecting"
    /\ ~Suits(r, s) /\ attempt[r] = MaxRepairs
    /\ Selected(r, Fresh("clarify"), "tool_select_failed",
                [repairs |-> MaxRepairs, hitl |-> FALSE, intent |-> s.intent,
                 conf |-> s.conf],
                FALSE)

Accept(r, s) ==
    /\ phase[r] = "selecting"
    /\ Suits(r, s)
    /\ LET hitl == NeedsHitl(cfg, s)
           found == [repairs |-> attempt[r], hitl |-> hitl, intent |-> s.intent,
                     conf |-> s.conf]
           weak == s.intent = "unknown" /\ s.conf = "low"
       IN  IF hitl THEN Selected(r, Fresh("confirm"), "tool_select_hitl", found, weak)
           ELSE Selected(r, CompileSelection(s),
                         IF attempt[r] = 0 THEN "tool_select" ELSE "tool_select_repair",
                         found, weak)

-----------------------------------------------------------------------------
(* The residual planners. *)
Shared == <<own, forceRepair, selectMeta>>

SlotsAnswer(r, b) ==
    /\ phase[r] = "slots"
    /\ SlotPlan(b) # NoPlan
    /\ UNCHANGED Shared
    /\ IF Poisoned(asked[r].need, asked[r], SlotPlan(b))
       THEN Deliver(r, Fresh("clarify"), "llm_slots_lint_clarify")
       ELSE Deliver(r, SlotPlan(b), "llm_slots")

(* Nothing usable, or any error at all. *)
SlotsMiss(r) ==
    /\ phase[r] = "slots"
    /\ Awaits(r, "planning")
    /\ UNCHANGED <<attempt, probe, Shared>>

(* What is not a plan, or is poisoned, is asked for once more without any  *)
(* context.                                                                *)
PlannerAnswers(r, p) ==
    /\ phase[r] = "planning"
    /\ ~Poisoned(asked[r].need, asked[r], p)
    /\ UNCHANGED Shared
    /\ Deliver(r, p, "llm")

Strip(r) ==
    /\ phase[r] = "planning"
    /\ Awaits(r, "stripped")
    /\ UNCHANGED <<attempt, probe, Shared>>

StrippedAnswers(r, p) ==
    /\ phase[r] = "stripped"
    /\ ~Poisoned("fresh", asked[r], p)
    /\ UNCHANGED Shared
    /\ Deliver(r, p, "llm_retry_stripped")

AskBack(r) ==
    /\ phase[r] = "stripped"
    /\ UNCHANGED Shared
    /\ Deliver(r, Fresh("clarify"), "llm")

(* Mutant of Breaks: the request is put back and nobody told. *)
BreaksQuietly(r) ==
    /\ phase[r] \in {"selecting", "planning", "stripped"}
    /\ phase' = [phase EXCEPT ![r] = "new"]
    /\ attempt' = [attempt EXCEPT ![r] = 0]
    /\ calls' = [calls EXCEPT ![r] = 0]
    /\ own' = [own EXCEPT ![r] = NoMeta]
    /\ UNCHANGED <<setup, probe, answer, forceRepair, selectMeta>>

(* The call to the model raises something else: the request fails. *)
Breaks(r) ==
    /\ phase[r] \in {"selecting", "planning", "stripped"}
    /\ phase' = [phase EXCEPT ![r] = "failed"]
    /\ UNCHANGED <<setup, attempt, probe, calls, answer, Shared>>

-----------------------------------------------------------------------------
Begin(r) == GuardAnswers(r) \/ LegacyAnswers(r) \/ AskSelector(r) \/ SkipSelector(r)

ModelReturns(r) ==
    \/ \E s \in Selections \cup {Unreadable} : Reselect(r, s) \/ GiveUp(r, s)
    \/ \E s \in Selections : Accept(r, s)
    \/ \E b \in Bundles : SlotsAnswer(r, b)
    \/ \E p \in Drafts : PlannerAnswers(r, p) \/ StrippedAnswers(r, p)
    \/ SlotsMiss(r) \/ Strip(r) \/ AskBack(r) \/ Breaks(r)

Next == \E r \in Requests : Begin(r) \/ ModelReturns(r)

Spec == Init /\ [][Next]_vars

(* Every call to the model returns or raises: its client has a time-out.   *)
FairSpec == Spec /\ \A r \in Requests : WF_vars(ModelReturns(r))

-----------------------------------------------------------------------------
Phases == {"new", "selecting", "slots", "planning", "stripped", "done", "failed"}
Selects ==
    {"tool_select", "tool_select_repair", "tool_select_hitl", "tool_select_failed"}
Residual == {"llm_slots", "llm_slots_lint_clarify", "llm", "llm_retry_stripped"}
Modes == Guards \cup Legacy \cup Selects \cup Residual
         \cup {"none", "query_state_fallback", "heuristic_fallback"}

(* Every variable has its type. *)
TypeOK ==
    /\ cfg \in Settings /\ asked \in [Requests -> Questions]
    /\ phase \in [Requests -> Phases]
    /\ attempt \in [Requests -> 0..MaxRepairs]
    /\ probe \in [Requests -> BOOLEAN]
    /\ calls \in [Requests -> Nat]
    /\ plan \in [Requests -> Plan] /\ mode \in [Requests -> Modes]
    /\ meta \in [Requests -> Meta] /\ own \in [Requests -> Meta]
    /\ forceRepair \in BOOLEAN /\ selectMeta \in Meta

Done(r) == phase[r] = "done"

(* "Salary/comp ACL before any SQL / LLM path": what an employee asks      *)
(* about pay, and every topic out of scope, is neither sent to the model   *)
(* nor planned as a write, and is refused unless an escape or a reply came *)
(* first.                                                                  *)
RefusedNeverSent ==
    \A r \in Requests :
        SalaryAcl(asked[r]) \/ "unsupported" \in asked[r].hits =>
            /\ calls[r] = 0
            /\ Done(r) => \/ plan[r].shape = "refuse"
                          \/ mode[r] \in Elements(Escapes \o PendingReplies)

(* A write that the selector lets through was selected with the confidence *)
(* of a write, and marked as confirmed if confirmations are on.            *)
SelectedWritesAreSure ==
    \A r \in Requests :
        mode[r] \in Selects /\ plan[r].shape \in {"write", "sure_write"} =>
            own[r].conf = "high" /\ (cfg.hitl => plan[r].shape = "sure_write")

(* "On fresh turns the packet/digest omit cohort ids ... so prior focus    *)
(* cannot poison a new name lookup": the residual planners never answer a  *)
(* fresh question, nor the stripped retry any, from the people of earlier  *)
(* ones.  One of them may be answered about: by name where the question    *)
(* looks up nobody else, and by id where it looks up anybody.              *)
FreshStaysFresh ==
    \A r \in Requests :
        /\ Done(r) /\ mode[r] \in Residual
        /\ asked[r].need = "fresh" \/ mode[r] = "llm_retry_stripped"
        => /\ plan[r].scope # "cohort"
           /\ plan[r].scope = "named" => asked[r].lookup # "other"
           /\ plan[r].scope = "by_id" => asked[r].lookup # "none"

(* A request in flight with others is repaired for its own probe only, and *)
(* an answer not given after further awaits reports its own selection.     *)
SelectionIsMine ==
    \A r \in Requests : Done(r) =>
        /\ mode[r] \in Selects \ {"tool_select_failed"} =>
               (asked[r].force => own[r].repairs > 0)
        /\ mode[r] \notin Residual => meta[r] = own[r]

(* "Select tools, apply confidence policy, optionally repair up to         *)
(* max_repairs", then slots, a plan and one retry: no question costs more. *)
CallsBounded == \A r \in Requests : calls[r] <= MaxRepairs + 1 + 3

(* Every question that was begun gets a plan or an error. *)
EveryRequestReturns ==
    \A r \in Requests : phase[r] # "new" ~> phase[r] \in {"done", "failed"}

===============================================================================
