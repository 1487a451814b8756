-------------------------- MODULE StatusConfirmation --------------------------
(***************************************************************************)
(* Writes of the agent status flag in one conversation: who is asked to    *)
(* confirm what, which pending facts of the session a reply picks up, and  *)
(* what EmployeeTool._set_status writes.  Turns come one after another; in *)
(* a turn the tool may fail, or commit and still be timed out by run_node. *)
(*                                                                         *)
(* Resume retrieval may return any subset of the people a name or a place  *)
(* fits, a different one each time it is asked.  Words are abstracted to   *)
(* what the extractors make of them.                                       *)
(***************************************************************************)
EXTENDS Naturals, FiniteSets

CONSTANTS People, Names,
          NameOf,       \* the name each employee goes by
          Utterances,   \* what the user may say
          TTL           \* ToolFact.ttl_seconds (180 s), in ticks

Status == {"on", "off"}
MaybeStatus == Status \cup {"unset"}
Verbs == {"activate", "deactivate", "disable", "flip"}

Kinds == {"by_name", "by_id", "by_place", "nobody", "valueless", "novel",
          "yes", "no", "bare", "query", "chat", "aside"}

(* `novel` is a paraphrase that a model takes for a write, with the slots  *)
(* it filled for the selector; `bare` just a name; `chat` a plan whose     *)
(* intent is unknown, `aside` an answer without a plan.                    *)
Utterance == [kind: Kinds, name: Names \cup {"none"}, ids: SUBSET People,
              status: MaybeStatus, verb: Verbs]

ASSUME ConfirmationAssumption ==
    /\ IsFiniteSet(People)
    /\ NameOf \in [People -> Names]
    /\ "none" \notin Names
    /\ Utterances \subseteq Utterance
    /\ TTL \in Nat

(* A question about a write, or the pending_status_mutation fact that      *)
(* remembers it; status "unset" stands for no question.                    *)
Age == 0..(TTL + 1)
Question == [name: Names \cup {"none"}, ids: SUBSET People, status: MaybeStatus,
             age: Age]
NoQuestion == [name |-> "none", ids |-> {}, status |-> "unset", age |-> 0]

(* pending_set_status: the value, while the person is missing.             *)
Value == [status: MaybeStatus, age: Age]
NoValue == [status |-> "unset", age |-> 0]

(* The planned set_status call. *)
Job == [via: {"name", "ids", "place", "nobody"}, name: Names \cup {"none"},
        ids: SUBSET People, status: MaybeStatus, confirmed: BOOLEAN]
NoJob == [via |-> "nobody", name |-> "none", ids |-> {}, status |-> "unset",
          confirmed |-> FALSE]

VARIABLES status,     \* employees.status
          mutation,   \* pending_status_mutation
          who,        \* pending_set_status
          phase,      \* "idle", "writing" or "written"
          said,       \* the utterance of the turn
          job,        \* its set_status call, if it has one
          answer,     \* how the last turn ended
          shown,      \* the last confirmation question put to the user
          under,      \* the one still open beneath it, if the last is vague
          missing     \* the value asked for without a person, likewise

vars == <<status, mutation, who, phase, said, job, answer, shown, under, missing>>
facts == <<mutation, who>>
dialogue == <<shown, under, missing>>

Init ==
    /\ status \in [People -> Status]
    /\ mutation = NoQuestion /\ who = NoValue
    /\ phase = "idle" /\ answer = "none"
    /\ said \in Utterances /\ job = NoJob
    /\ shown = NoQuestion /\ under = NoQuestion /\ missing = NoValue

(* _expire_tool_facts at the start of the turn. *)
Live(q, none) == IF q.age <= TTL THEN q ELSE none
Pending == Live(mutation, NoQuestion)
PendingWho == Live(who, NoValue)
Has(q) == q.status # "unset"

(* A question with a polarity and a subject is remembered; a vague one is  *)
(* not, and leaves the question before it open.                            *)
Definite(q) == Has(q) /\ (q.name # "none" \/ q.ids # {})
Open == IF Definite(shown) THEN shown ELSE under

-----------------------------------------------------------------------------
(* A turn begins, and what is planned for it.                              *)
Hears(u) == phase = "idle" /\ said' = u

(* A plan without nodes is answered at once. *)
Answers(a) == phase' = "idle" /\ answer' = a /\ job' = NoJob /\ UNCHANGED status

(* Facts and open questions stay, but for those that are too old; or the   *)
(* confirmation questions are done with; or another one is asked.          *)
KeepQuestions ==
    shown' = Live(shown, NoQuestion) /\ under' = Live(under, NoQuestion)
DropQuestions == shown' = NoQuestion /\ under' = NoQuestion
Asks(q) ==
    /\ shown' = q
    /\ under' = IF Definite(q) THEN NoQuestion ELSE Live(Open, NoQuestion)

(* A plan with a set_status node: the chat service drops pending_set_status *)
(* before it executes the plan, the mutation only after the write.          *)
Writes(via, name, ids, value, confirmed) ==
    /\ phase' = "writing" /\ answer' = "none"
    /\ job' = [via |-> via, name |-> name, ids |-> ids, status |-> value,
               confirmed |-> confirmed]
    /\ mutation' = Pending /\ who' = NoValue
    /\ KeepQuestions /\ missing' = Live(missing, NoValue)
    /\ UNCHANGED status

KeepFacts == mutation' = Pending /\ who' = PendingWho
KeepDialogue == KeepQuestions /\ missing' = Live(missing, NoValue)

(* "yes" to a pending mutation: a named one is resolved again by name.     *)
Confirm(u) ==
    /\ u.kind = "yes" /\ Has(Pending)
    /\ Hears(u)
    /\ IF Pending.name # "none"
       THEN Writes("name", Pending.name, {}, Pending.status, FALSE)
       ELSE Writes("ids", "none", Pending.ids, Pending.status, TRUE)

(* Mutant of Cancel: only pending_set_status is dropped. *)
CancelValueOnly(u) ==
    /\ u.kind = "no" /\ (Has(Pending) \/ Has(PendingWho))
    /\ Hears(u)
    /\ Answers("cancelled")
    /\ mutation' = Pending /\ who' = NoValue
    /\ DropQuestions /\ missing' = NoValue

(* "no" drops both facts, whichever of them was asked about. *)
Cancel(u) ==
    /\ u.kind = "no" /\ (Has(Pending) \/ Has(PendingWho))
    /\ Hears(u)
    /\ Answers("cancelled")
    /\ mutation' = NoQuestion /\ who' = NoValue
    /\ DropQuestions /\ missing' = NoValue

(* A bare name completes a write whose person was missing; so does "yes",  *)
(* which looks like a name that nobody has.                                *)
BareName(u) ==
    /\ Has(PendingWho)
    /\ \/ u.kind = "bare"
       \/ u.kind = "yes" /\ ~Has(Pending)
    /\ Hears(u)
    /\ IF u.kind = "bare"
       THEN Writes("name", u.name, {}, PendingWho.status, FALSE)
       ELSE Writes("nobody", "none", {}, PendingWho.status, FALSE)

(* guard_status: a write the extractor understands, person and value given *)
(* (an id, an e-mail address or the person in focus; a name; a place).     *)
Direct(u) ==
    /\ u.kind \in {"by_name", "by_id", "by_place"} /\ Has(u)
    /\ Hears(u)
    /\ \/ u.kind = "by_name" /\ Writes("name", u.name, {}, u.status, FALSE)
       \/ u.kind = "by_id" /\ Writes("ids", "none", u.ids, u.status, FALSE)
       \/ u.kind = "by_place" /\ Writes("place", "none", {}, u.status, FALSE)

(* "Which employee's status should I update?" *)
AskWho(u) ==
    /\ u.kind = "nobody"
    /\ Hears(u)
    /\ Answers("which")
    /\ mutation' = Pending
    /\ who' = IF Has(u) THEN [status |-> u.status, age |-> 0] ELSE PendingWho
    /\ KeepQuestions
    /\ missing' = IF Has(u) THEN [status |-> u.status, age |-> 0]
                  ELSE Live(missing, NoValue)

(* "Should I set the employee's status to true or false?" *)
AskValue(u) ==
    /\ u.kind = "valueless"
    /\ Hears(u)
    /\ Answers("which value")
    /\ KeepFacts /\ KeepDialogue

(* The polarity of a novel write: what the model filled in, else what the  *)
(* question's verb contains ("deactivate" contains "activate").            *)
Polarity(u) ==
    IF Has(u) THEN u.status
    ELSE CASE u.verb \in {"activate", "deactivate"} -> "on"
           [] u.verb = "disable"                    -> "off"
           [] OTHER                                 -> "unset"

(* _hitl_plan, what the selector makes of a paraphrase it is sure of: it   *)
(* asks first, and remembers the question if it is a definite one.         *)
AskConfirm(u) ==
    /\ u.kind = "novel"
    /\ Hears(u)
    /\ Answers("confirm?")
    /\ LET q == [name |-> u.name, ids |-> IF u.name # "none" THEN {} ELSE u.ids,
                 status |-> Polarity(u), age |-> 0]
       IN /\ mutation' = IF Definite(q) THEN q ELSE Pending
          /\ Asks(q)
    /\ who' = PendingWho
    /\ missing' = Live(missing, NoValue)

(* "I want to be sure before changing status": a selection in the middle   *)
(* band of confidence asks too, and remembers nothing.                     *)
AskSure(u) ==
    /\ u.kind = "novel"
    /\ Hears(u)
    /\ Answers("confirm?")
    /\ KeepFacts
    /\ Asks(NoQuestion) /\ missing' = Live(missing, NoValue)

(* _needs_hitl: a selection under another intent is not asked about if the *)
(* model has marked its set_status calls as confirmed.  Whom they name and *)
(* which value they carry is the model's word: Write finds any of People.  *)
SelectedAsConfirmed(u) ==
    /\ u.kind = "novel"
    /\ Hears(u)
    /\ \E v \in Status : Writes("ids", "none", People, v, TRUE)

(* The planners behind a selector that failed or deferred, the slots' and  *)
(* the free one, plan a write for the paraphrase without asking.           *)
PlannedBehind(u) ==
    /\ u.kind = "novel"
    /\ Hears(u)
    /\ \E v \in Status : \/ Writes("ids", "none", People, v, FALSE)
                         \/ Writes("place", "none", {}, v, FALSE)

(* Any other turn.  A reply that finds nothing pending is one of these;    *)
(* a plan with nodes and a known intent drops both facts.                  *)
Idle(u) ==
    \/ u.kind \in {"query", "chat", "aside"}
    \/ u.kind = "no" /\ ~Has(Pending) /\ ~Has(PendingWho)
    \/ u.kind = "yes" /\ ~Has(Pending) /\ ~Has(PendingWho)
    \/ u.kind = "bare" /\ ~Has(PendingWho)

Query(u) ==
    /\ Idle(u) /\ u.kind \notin {"chat", "aside"}
    /\ Hears(u)
    /\ Answers("answered")
    /\ mutation' = NoQuestion /\ who' = NoValue
    /\ DropQuestions /\ missing' = NoValue

Other(u) ==
    /\ Idle(u) /\ u.kind # "query"
    /\ Hears(u)
    /\ Answers("answered")
    /\ KeepFacts /\ KeepDialogue

-----------------------------------------------------------------------------
(* The employee tool. *)

(* The rows _set_status may settle on: retrieval finds some of them. *)
Fits ==
    CASE job.via = "name"   -> {p \in People : NameOf[p] = job.name}
      [] job.via = "ids"    -> job.ids
      [] job.via = "place"  -> People
      [] job.via = "nobody" -> {}

Ends(a) == phase' = "idle" /\ answer' = a /\ UNCHANGED <<said, job>>

(* Nobody is found: a clarification, and nothing is written. *)
FindsNobody ==
    /\ phase = "writing"
    /\ Ends("nobody")
    /\ UNCHANGED <<status, facts, dialogue>>

NeedsConfirm(rows) ==
    job.via = "place" /\ Cardinality(rows) > 1 /\ ~job.confirmed

(* A place with several people: propose, and remember the proposal. *)
Propose(rows) ==
    /\ phase = "writing"
    /\ rows \subseteq Fits /\ NeedsConfirm(rows)
    /\ Ends("confirm?")
    /\ mutation' = [name |-> "none", ids |-> rows, status |-> job.status, age |-> 0]
    /\ Asks([name |-> "none", ids |-> rows, status |-> job.status, age |-> 0])
    /\ UNCHANGED <<status, who, missing>>

(* update_status for every row, and commit. *)
Write(rows) ==
    /\ phase = "writing"
    /\ rows \subseteq Fits /\ rows # {} /\ ~NeedsConfirm(rows)
    /\ status' = [p \in People |-> IF p \in rows THEN job.status ELSE status[p]]
    /\ phase' = "written"
    /\ UNCHANGED <<said, job, answer, facts, dialogue>>

(* The result reaches the chat service: the mutation is done with. *)
Report ==
    /\ phase = "written"
    /\ Ends("updated")
    /\ mutation' = NoQuestion /\ DropQuestions /\ missing' = NoValue
    /\ UNCHANGED <<status, who>>

(* Mutant of Fail: the question is dropped with the failed write. *)
FailForgets ==
    /\ phase \in {"writing", "written"}
    /\ Ends("failed")
    /\ mutation' = NoQuestion
    /\ UNCHANGED <<status, who, dialogue>>

(* The tool raises, meets an open circuit, or is timed out: before the     *)
(* write, which is then rolled back, or after its commit.                  *)
Fail ==
    /\ phase \in {"writing", "written"}
    /\ Ends("failed")
    /\ UNCHANGED <<status, facts, dialogue>>

Older(q) == IF Has(q) /\ q.age <= TTL THEN [q EXCEPT !.age = @ + 1] ELSE q

(* Time passes. *)
Tick ==
    /\ mutation' = Older(mutation) /\ who' = Older(who)
    /\ shown' = Older(shown) /\ under' = Older(under) /\ missing' = Older(missing)
    /\ UNCHANGED <<status, phase, said, job, answer>>

Turn(u) ==
    \/ Confirm(u) \/ Cancel(u) \/ BareName(u) \/ Direct(u) \/ AskWho(u)
    \/ AskValue(u) \/ AskConfirm(u) \/ AskSure(u) \/ SelectedAsConfirmed(u)
    \/ PlannedBehind(u) \/ Query(u) \/ Other(u)

Next ==
    \/ \E u \in Utterances : Turn(u)
    \/ FindsNobody \/ Report \/ Fail \/ Tick
    \/ \E rows \in SUBSET People : Propose(rows) \/ Write(rows)

Spec == Init /\ [][Next]_vars

-----------------------------------------------------------------------------
(* Every variable has its type. *)
TypeOK ==
    /\ status \in [People -> Status]
    /\ mutation \in Question /\ who \in Value
    /\ phase \in {"idle", "writing", "written"}
    /\ said \in Utterances /\ job \in Job
    /\ shown \in Question /\ under \in Question /\ missing \in Value
    /\ answer \in {"none", "which", "which value", "confirm?", "answered",
                   "cancelled", "nobody", "updated", "failed"}

(* The conversation asks for the status of p to be v: the user names p in  *)
(* this turn, or says yes to the open question, or supplies the missing    *)
(* name.  A place asks for one person at most without a confirmation.      *)
AskedFor(p, v) ==
    \/ said.kind = "by_name" /\ said.name = NameOf[p] /\ said.status = v
    \/ said.kind = "by_id" /\ p \in said.ids /\ said.status = v
    \/ said.kind = "by_place" /\ said.status = v
    \/ said.kind = "yes" /\ Open.status = v
          /\ (p \in Open.ids \/ Open.name = NameOf[p])
    \/ said.kind = "bare" /\ said.name = NameOf[p] /\ missing.status = v

(* No status changes unless the conversation asks for it: a confirmation   *)
(* writes what the last definite question showed, and a question that was  *)
(* cancelled, answered, overtaken by a query or left for TTL is never      *)
(* picked up by a later yes.  A place changes several people only then.    *)
(* The exception is the turn of a paraphrase: what a model reads in it may *)
(* be written at once.                                                     *)
EveryChangeWasAsked ==
    [][/\ \A p \in People : status'[p] # status[p] =>
             AskedFor(p, status'[p]) \/ said.kind = "novel"
       /\ said.kind = "by_place" =>
             Cardinality({p \in People : status'[p] # status[p]}) <= 1]_status

(* "Location mutation facts clear after a successful write": one that      *)
(* failed, or whose answer was lost, can be confirmed again.               *)
FailureKeepsQuestion ==
    answer = "failed" /\ said.kind = "yes" /\ phase = "idle" /\ Has(Open) => Has(mutation)

(* "Confirm must re-resolve the name the user saw in the clarify copy      *)
(* (Carol # Alice)": the write of a yes is the one of the last question.   *)
YesMeansShown ==
    phase = "writing" /\ said.kind = "yes" /\ job.via = "name" /\ shown.name # "none"
        => job.name = shown.name
=============================================================================
