---------------------------- MODULE MCPlanCompiler ----------------------------
(* PlanCompiler for two requests and a handful of questions. *)
EXTENDS PlanCompiler

CONSTANTS r1, r2

Ask(hits, known, write, salary, need, lookup, legacy, force) ==
    [hits |-> hits, known |-> known, write |-> write, salary |-> salary,
     role |-> "employee", need |-> need, lookup |-> lookup, legacy |-> legacy, force |-> force]

(* A fresh question that only a model understands, one about a previous    *)
(* list that the heuristics plan, the probe of a developer; a fresh one    *)
(* that looks somebody up.                                                 *)
Novel == Ask({}, TRUE, TRUE, FALSE, "fresh", "none", "miss", FALSE)
Followup == Ask({}, TRUE, FALSE, FALSE, "prior", "none", "heuristic", FALSE)
Vague == Ask({}, TRUE, FALSE, FALSE, "prior", "none", "miss", TRUE)

Lookup == Ask({}, TRUE, FALSE, FALSE, "fresh", "other", "miss", FALSE)

(* Several guards match: pay and a list; an unsupported topic of a person  *)
(* in the list whose status is to change; a person nobody knows.           *)
Pay == Ask({"sure_query"}, TRUE, FALSE, TRUE, "fresh", "none", "query_state", FALSE)
Bonus ==
    Ask({"unsupported", "list_referent"}, TRUE, TRUE, FALSE, "prior", "none", "miss", FALSE)
Whose ==
    Ask({"languages", "list_followup"}, FALSE, FALSE, FALSE, "prior", "none", "miss", FALSE)
Seeded ==
    Ask({"status_write", "pronoun"}, TRUE, TRUE, FALSE, "fresh", "none", "query_state", TRUE)

MCQuestions == {Novel, Lookup, Followup, Vague, Pay, Bonus, Whose, Seeded}

Pick(intent, conf, tools, complete) ==
    [intent |-> intent, conf |-> conf, tools |-> tools, complete |-> complete,
     valid |-> TRUE]

MCSelections ==
    {Pick("unknown", "low", "none", TRUE), Pick("read", "high", "none", TRUE),
     Pick("unknown", "medium", "sure_write", TRUE),
     Pick("unknown", "high", "sure_write", TRUE),
     Pick("unknown", "high", "write", TRUE), Pick("unknown", "high", "none", TRUE),
     Pick("set_status", "medium", "none", TRUE),
     Pick("set_status", "high", "none", FALSE),
     [Pick("read", "high", "none", TRUE) EXCEPT !.valid = FALSE]}

Slots(person, attr, wants, prior) ==
    [sure |-> TRUE, intent |-> "ask", place |-> "none", person |-> person,
     attr |-> attr, value |-> TRUE, wants |-> wants, prior |-> prior]

MCBundles ==
    {Slots("named", "status", "people", FALSE), Slots("listed", "fact", "people", FALSE),
     Slots("listed", "profile", "people", FALSE), Slots("none", "none", "skill", TRUE),
     [Slots("none", "none", "people", FALSE) EXCEPT !.place = "unknown"],
     [Slots("lost", "none", "people", FALSE) EXCEPT !.intent = "unknown"]}

MCDrafts ==
    {Fresh("read"), [shape |-> "read", scope |-> "cohort"],
     [shape |-> "read", scope |-> "named"], [shape |-> "sure_write", scope |-> "target"]}

Default == [mode |-> "primary", hitl |-> TRUE, fallback |-> TRUE]
MCSettings == {Default, [Default EXCEPT !.mode = "residual", !.fallback = FALSE],
               [Default EXCEPT !.mode = "off"]}
MCRequests == {r1, r2}
===============================================================================
