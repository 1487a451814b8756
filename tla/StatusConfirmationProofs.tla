----------------------- MODULE StatusConfirmationProofs -----------------------
(***************************************************************************)
(* Proofs about StatusConfirmation, for any employees, names, lifetime of  *)
(* facts and any set of utterances.                                        *)
(*                                                                         *)
(* EveryChangeWasAsked speaks of the dialogue and the code acts on its     *)
(* facts, so the inductive invariant says that the facts mirror the        *)
(* dialogue, and that the planned call is what the dialogue asks for.      *)
(***************************************************************************)
EXTENDS StatusConfirmation, TLAPS, FiniteSetTheorems

(* A remembered fact is what the user was asked: the last definite         *)
(* question that is still open.                                            *)
Mirror ==
    /\ mutation = Open
    /\ Definite(shown) => under = NoQuestion
    /\ Has(who) => who = missing
    /\ phase # "idle" => ~Has(who)

(* The planned call is what the turn asks for.                             *)
JobAsked ==
    /\ job.via = "name" =>
          \/ said.kind = "by_name" /\ said.name = job.name /\ said.status = job.status
          \/ said.kind = "yes" /\ Open.name = job.name /\ Open.status = job.status
          \/ said.kind = "bare" /\ said.name = job.name /\ missing.status = job.status
    /\ job.via = "ids" =>
          \/ said.kind = "by_id" /\ said.ids = job.ids /\ said.status = job.status
          \/ said.kind = "yes" /\ Open.ids = job.ids /\ Open.status = job.status
          \/ said.kind = "novel"
    /\ job.via = "place" =>
          /\ ~job.confirmed
          /\ \/ said.kind = "by_place" /\ said.status = job.status
             \/ said.kind = "novel"
    /\ said.kind = "by_place" => job.via = "place"
    /\ job.status \in Status

IInv == TypeOK /\ Mirror /\ (phase # "idle" => JobAsked)

-----------------------------------------------------------------------------
(* The types of what an action reads.                                      *)
LEMMA QuestionTypes ==
    /\ NoQuestion \in Question /\ NoValue \in Value
    /\ ~Has(NoQuestion) /\ ~Has(NoValue) /\ ~Definite(NoQuestion)
BY ConfirmationAssumption
   DEF NoQuestion, Question, NoValue, Value, Age, MaybeStatus, Has, Definite

LEMMA LiveTypes ==
    ASSUME TypeOK
    PROVE  /\ Pending \in Question /\ PendingWho \in Value
           /\ Live(shown, NoQuestion) \in Question
           /\ Live(under, NoQuestion) \in Question
           /\ Live(Open, NoQuestion) \in Question
           /\ Live(missing, NoValue) \in Value
BY QuestionTypes DEF TypeOK, Pending, PendingWho, Live, Open

LEMMA OlderTypes ==
    /\ \A q \in Question : Older(q) \in Question
    /\ \A q \in Value : Older(q) \in Value
<1>1. ASSUME NEW q \in Question PROVE Older(q) \in Question
  BY ConfirmationAssumption DEF Older, Question, Age
<1>2. ASSUME NEW q \in Value PROVE Older(q) \in Value
  BY ConfirmationAssumption DEF Older, Value, Age
<1>3. QED
  BY <1>1, <1>2

(* Growing older changes neither whether a question is open nor its words. *)
LEMMA OlderIsSame ==
    /\ \A q \in Question : /\ Older(q).status = q.status
                            /\ Older(q).name = q.name /\ Older(q).ids = q.ids
    /\ \A q \in Value : Older(q).status = q.status
BY DEF Older, Question, Value

LEMMA OlderIsOpen ==
    /\ \A q \in Question : Definite(Older(q)) = Definite(q)
    /\ Older(NoQuestion) = NoQuestion
<1>1. ASSUME NEW q \in Question PROVE Definite(Older(q)) = Definite(q)
  BY OlderIsSame DEF Definite, Has
<1>2. Older(NoQuestion) = NoQuestion
  BY QuestionTypes DEF Older
<1>3. QED
  BY <1>1, <1>2

(* What is planned for the turn of a question that is kept.                *)
LEMMA LiveMirror ==
    ASSUME Mirror
    PROVE  /\ Pending = Live(Open, NoQuestion)
           /\ Has(Pending) => Pending = Open
           /\ Has(PendingWho) => PendingWho = Live(missing, NoValue)
BY QuestionTypes DEF Mirror, Pending, PendingWho, Live

(* Keeping, dropping or asking a question leaves a definite one alone.     *)
LEMMA Keeping ==
    ASSUME TypeOK, Mirror, KeepQuestions
    PROVE  /\ shown' \in Question /\ under' \in Question
           /\ Pending = Open'
           /\ Definite(shown') => under' = NoQuestion
<1>1. shown' = Live(shown, NoQuestion) /\ under' = Live(under, NoQuestion)
  BY DEF KeepQuestions
<1>2. shown' \in Question /\ under' \in Question
  BY <1>1, LiveTypes
<1>3. CASE Definite(shown)
  <2>1. under = NoQuestion /\ Open = shown /\ under' = NoQuestion
    BY <1>1, <1>3 DEF Mirror, Open, Live
  <2>2. Open' = Live(shown, NoQuestion)
    BY <1>1, <1>3, <2>1, QuestionTypes DEF Open, Live
  <2>3. QED
    BY <1>2, <2>1, <2>2, LiveMirror
<1>4. CASE ~Definite(shown)
  <2>1. Open = under /\ ~Definite(shown')
    BY <1>1, <1>4, QuestionTypes DEF Open, Live
  <2>2. Open' = Live(under, NoQuestion)
    BY <1>1, <2>1 DEF Open
  <2>3. QED
    BY <1>2, <2>1, <2>2, LiveMirror
<1>5. QED
  BY <1>3, <1>4

LEMMA Dropping ==
    ASSUME DropQuestions
    PROVE  /\ shown' \in Question /\ under' \in Question
           /\ NoQuestion = Open'
           /\ Definite(shown') => under' = NoQuestion
BY QuestionTypes DEF DropQuestions, Open

LEMMA Asking ==
    ASSUME TypeOK, Mirror, NEW q \in Question, Asks(q)
    PROVE  /\ shown' \in Question /\ under' \in Question
           /\ Open' = IF Definite(q) THEN q ELSE Pending
           /\ Definite(shown') => under' = NoQuestion
<1>1. /\ shown' = q
      /\ under' = IF Definite(q) THEN NoQuestion ELSE Live(Open, NoQuestion)
  BY DEF Asks
<1>2. shown' \in Question /\ under' \in Question
  BY <1>1, LiveTypes, QuestionTypes
<1>3. QED
  BY <1>1, <1>2, LiveMirror DEF Open

LEMMA InitInv == Init => IInv
BY QuestionTypes, ConfirmationAssumption
   DEF Init, IInv, TypeOK, Mirror, Open, NoJob, Job, MaybeStatus

-----------------------------------------------------------------------------
(* A turn that plans a write.                                              *)
LEMMA WritesStep ==
    ASSUME IInv, NEW u \in Utterances, Hears(u),
           NEW via \in {"name", "ids", "place", "nobody"},
           NEW name \in Names \cup {"none"}, NEW ids \in SUBSET People,
           NEW value \in Status, NEW confirmed \in BOOLEAN,
           Writes(via, name, ids, value, confirmed),
           JobAsked'
    PROVE  IInv'
<1>1. TypeOK'
  BY LiveTypes, QuestionTypes, Keeping DEF IInv, TypeOK, Hears, Writes, Job, MaybeStatus
<1>2. Mirror'
  BY Keeping, QuestionTypes DEF IInv, Mirror, Writes, Has
<1>3. QED
  BY <1>1, <1>2 DEF IInv

(* A turn that is answered at once, its facts and questions in step.       *)
LEMMA AnswersStep ==
    ASSUME IInv, NEW u \in Utterances, Hears(u),
           NEW a \in {"which", "which value", "confirm?", "answered", "cancelled"},
           Answers(a),
           who' \in Value, missing' \in Value,
           shown' \in Question, under' \in Question,
           mutation' = Open', Definite(shown') => under' = NoQuestion,
           Has(who') => who' = missing'
    PROVE  IInv'
<1>1. NoJob \in Job
  BY ConfirmationAssumption DEF NoJob, Job, MaybeStatus
<1>2. TypeOK'
  BY <1>1 DEF IInv, TypeOK, Hears, Answers, Open
<1>3. Mirror' /\ phase' = "idle"
  BY DEF Mirror, Answers, Has
<1>4. QED
  BY <1>2, <1>3 DEF IInv

LEMMA ConfirmStep ==
    ASSUME IInv, NEW u \in Utterances, Confirm(u)
    PROVE  IInv'
<1>1. /\ Hears(u) /\ u.kind = "yes" /\ Has(Pending)
      /\ Pending \in Question /\ Pending = Open
  BY LiveTypes, LiveMirror DEF Confirm, IInv
<1>2. Pending.status \in Status
  BY <1>1 DEF Has, Question, MaybeStatus
<1>3. CASE Pending.name # "none"
  <2>1. Writes("name", Pending.name, {}, Pending.status, FALSE)
    BY <1>3 DEF Confirm
  <2>2. JobAsked'
    BY <1>1, <1>2, <2>1, Keeping DEF IInv, JobAsked, Writes, Hears
  <2>3. Pending.name \in Names \cup {"none"} /\ {} \in SUBSET People
    BY <1>1 DEF Question
  <2>4. QED
    BY <1>1, <1>2, <2>1, <2>2, <2>3, WritesStep
<1>4. CASE Pending.name = "none"
  <2>1. Writes("ids", "none", Pending.ids, Pending.status, TRUE)
    BY <1>4 DEF Confirm
  <2>2. JobAsked'
    BY <1>1, <1>2, <2>1, Keeping DEF IInv, JobAsked, Writes, Hears
  <2>3. Pending.ids \in SUBSET People
    BY <1>1 DEF Question
  <2>4. QED
    BY <1>1, <1>2, <2>1, <2>2, <2>3, WritesStep
<1>5. QED
  BY <1>3, <1>4

LEMMA BareNameStep ==
    ASSUME IInv, NEW u \in Utterances, BareName(u)
    PROVE  IInv'
<1>1. /\ Hears(u) /\ Has(PendingWho)
      /\ PendingWho \in Value /\ PendingWho = Live(missing, NoValue)
      /\ u \in Utterance
  BY LiveTypes, LiveMirror, ConfirmationAssumption DEF BareName, IInv
<1>2. PendingWho.status \in Status /\ u.name \in Names \cup {"none"}
  BY <1>1 DEF Has, Value, MaybeStatus, Utterance
<1>3. CASE u.kind = "bare"
  <2>1. Writes("name", u.name, {}, PendingWho.status, FALSE)
    BY <1>3 DEF BareName
  <2>2. JobAsked'
    BY <1>1, <1>2, <1>3, <2>1 DEF JobAsked, Writes, Hears
  <2>3. QED
    BY <1>1, <1>2, <2>1, <2>2, WritesStep
<1>4. CASE u.kind = "yes"
  <2>1. Writes("nobody", "none", {}, PendingWho.status, FALSE)
    BY <1>4 DEF BareName
  <2>2. JobAsked'
    BY <1>1, <1>2, <1>4, <2>1 DEF JobAsked, Writes, Hears
  <2>3. QED
    BY <1>1, <1>2, <2>1, <2>2, WritesStep
<1>5. QED
  BY <1>3, <1>4 DEF BareName

LEMMA DirectStep ==
    ASSUME IInv, NEW u \in Utterances, Direct(u)
    PROVE  IInv'
<1>1. Hears(u) /\ Has(u) /\ u \in Utterance
  BY ConfirmationAssumption DEF Direct
<1>2. u.status \in Status /\ u.name \in Names \cup {"none"} /\ u.ids \in SUBSET People
  BY <1>1 DEF Has, Utterance, MaybeStatus
<1>3. CASE u.kind = "by_name" /\ Writes("name", u.name, {}, u.status, FALSE)
  <2>1. JobAsked'
    BY <1>1, <1>2, <1>3 DEF JobAsked, Writes, Hears
  <2>2. QED
    BY <1>1, <1>2, <1>3, <2>1, WritesStep
<1>4. CASE u.kind = "by_id" /\ Writes("ids", "none", u.ids, u.status, FALSE)
  <2>1. JobAsked'
    BY <1>1, <1>2, <1>4 DEF JobAsked, Writes, Hears
  <2>2. QED
    BY <1>1, <1>2, <1>4, <2>1, WritesStep
<1>5. CASE u.kind = "by_place" /\ Writes("place", "none", {}, u.status, FALSE)
  <2>1. JobAsked'
    BY <1>1, <1>2, <1>5 DEF JobAsked, Writes, Hears
  <2>2. QED
    BY <1>1, <1>2, <1>5, <2>1, WritesStep
<1>6. QED
  BY <1>3, <1>4, <1>5 DEF Direct

LEMMA AskConfirmStep ==
    ASSUME IInv, NEW u \in Utterances, AskConfirm(u) \/ AskSure(u)
    PROVE  IInv'
<1> DEFINE q == [name |-> u.name, ids |-> IF u.name # "none" THEN {} ELSE u.ids,
                 status |-> Polarity(u), age |-> 0]
<1>1. TypeOK /\ Mirror /\ u \in Utterance
  BY ConfirmationAssumption DEF IInv
<1>2. Polarity(u) \in MaybeStatus
  BY <1>1 DEF Polarity, MaybeStatus, Status, Utterance, Has
<1>3. q \in Question
  BY <1>1, <1>2, ConfirmationAssumption DEF Question, Utterance, Age
<1>4. CASE AskConfirm(u)
  <2>1. /\ Hears(u) /\ Answers("confirm?")
        /\ who' = PendingWho /\ missing' = Live(missing, NoValue)
        /\ mutation' = IF Definite(q) THEN q ELSE Pending
        /\ Asks(q)
    BY <1>4 DEF AskConfirm
  <2> HIDE DEF q
  <2>2. QED
    BY <1>1, <1>3, <2>1, LiveTypes, LiveMirror, Asking, AnswersStep
<1>5. CASE AskSure(u)
  BY <1>1, <1>5, QuestionTypes, LiveTypes, LiveMirror, Asking, AnswersStep
     DEF AskSure, KeepFacts
<1>6. QED
  BY <1>4, <1>5

(* A write that a model plans for a paraphrase, unasked.                   *)
LEMMA UnaskedStep ==
    ASSUME IInv, NEW u \in Utterances, SelectedAsConfirmed(u) \/ PlannedBehind(u)
    PROVE  IInv'
<1>1. PICK v \in Status :
        \/ Writes("ids", "none", People, v, TRUE)
        \/ Writes("ids", "none", People, v, FALSE)
        \/ Writes("place", "none", {}, v, FALSE)
  BY DEF SelectedAsConfirmed, PlannedBehind
<1>2. Hears(u) /\ u.kind = "novel"
  BY DEF SelectedAsConfirmed, PlannedBehind
<1>3. JobAsked'
  BY <1>1, <1>2 DEF JobAsked, Writes, Hears
<1>4. QED
  BY <1>1, <1>2, <1>3, WritesStep

LEMMA AskStep ==
    ASSUME IInv, NEW u \in Utterances, AskWho(u) \/ AskValue(u)
    PROVE  IInv'
<1>1. u \in Utterance
  BY ConfirmationAssumption
<1>2. [status |-> u.status, age |-> 0] \in Value
  BY <1>1, ConfirmationAssumption DEF Utterance, Value, Age
<1>3. CASE AskWho(u)
  <2>1. /\ Hears(u) /\ Answers("which") /\ mutation' = Pending
        /\ KeepQuestions
    BY <1>3 DEF AskWho
  <2>2. who' \in Value /\ missing' \in Value /\ (Has(who') => who' = missing')
    BY <1>2, <1>3, LiveTypes, LiveMirror DEF AskWho, IInv
  <2>3. QED
    BY <2>1, <2>2, LiveTypes, Keeping, AnswersStep DEF IInv
<1>4. CASE AskValue(u)
  BY <1>4, LiveTypes, LiveMirror, Keeping, AnswersStep
     DEF IInv, AskValue, KeepFacts, KeepDialogue
<1>5. QED
  BY <1>3, <1>4

LEMMA OtherStep ==
    ASSUME IInv, NEW u \in Utterances, Cancel(u) \/ Query(u) \/ Other(u)
    PROVE  IInv'
<1>1. CASE Cancel(u)
  BY <1>1, QuestionTypes, Dropping, AnswersStep DEF Cancel
<1>2. CASE Query(u)
  BY <1>2, QuestionTypes, Dropping, AnswersStep DEF Query
<1>3. CASE Other(u)
  BY <1>3, LiveTypes, LiveMirror, Keeping, AnswersStep
     DEF IInv, Other, KeepFacts, KeepDialogue
<1>4. QED
  BY <1>1, <1>2, <1>3

-----------------------------------------------------------------------------
(* The employee tool.                                                      *)
LEMMA EndsStep ==
    ASSUME IInv, FindsNobody \/ Fail \/ Report
    PROVE  IInv'
<1>1. CASE FindsNobody \/ Fail
  BY <1>1 DEF IInv, TypeOK, Mirror, Open, FindsNobody, Fail, Ends, facts, dialogue
<1>2. CASE Report
  <2>1. TypeOK'
    BY <1>2, QuestionTypes, Dropping DEF IInv, TypeOK, Report, Ends
  <2>2. Mirror' /\ phase' = "idle"
    BY <1>2, QuestionTypes, Dropping DEF IInv, Mirror, Report, Ends, Has
  <2>3. QED
    BY <2>1, <2>2 DEF IInv
<1>3. QED
  BY <1>1, <1>2

LEMMA ProposeStep ==
    ASSUME IInv, NEW rows \in SUBSET People, Propose(rows)
    PROVE  IInv'
<1> DEFINE q == [name |-> "none", ids |-> rows, status |-> job.status, age |-> 0]
<1>1. job.status \in Status
  BY DEF IInv, JobAsked, Propose
<1>2. q \in Question
  BY <1>1, ConfirmationAssumption DEF Question, Age, MaybeStatus
<1>3. Cardinality(rows) > 1
  BY DEF Propose, NeedsConfirm
<1>4. rows # {}
  BY <1>3, FS_EmptySet
<1>5. Definite(q)
  BY <1>1, <1>4 DEF Definite, Has, Status
<1>6. mutation' = q /\ Asks(q) /\ Ends("confirm?") /\ UNCHANGED <<status, who, missing>>
  BY DEF Propose
<1> HIDE DEF q
<1>7. /\ shown' \in Question /\ under' \in Question /\ mutation' = Open'
      /\ Definite(shown') => under' = NoQuestion
  BY <1>2, <1>5, <1>6, Asking DEF IInv
<1>8. TypeOK'
  BY <1>2, <1>6, <1>7 DEF IInv, TypeOK, Ends
<1>9. Mirror' /\ phase' = "idle"
  BY <1>6, <1>7 DEF IInv, Mirror, Ends, Has
<1>10. QED
  BY <1>8, <1>9 DEF IInv

LEMMA WriteStep ==
    ASSUME IInv, NEW rows \in SUBSET People, Write(rows)
    PROVE  IInv'
<1>1. phase = "writing" /\ JobAsked /\ job.status \in Status
  BY DEF Write, IInv, JobAsked
<1>2. status' \in [People -> Status]
  BY <1>1 DEF Write, IInv, TypeOK
<1>3. JobAsked'
  BY <1>1 DEF Write, JobAsked, Open, dialogue
<1>4. QED
  BY <1>1, <1>2, <1>3 DEF IInv, TypeOK, Mirror, Open, Write, facts, dialogue

LEMMA TickStep ==
    ASSUME IInv, Tick
    PROVE  IInv'
<1>1. /\ mutation \in Question /\ shown \in Question /\ under \in Question
      /\ who \in Value /\ missing \in Value
  BY DEF IInv, TypeOK
<1>2. /\ mutation' = Older(mutation)
      /\ shown' = Older(shown) /\ under' = Older(under)
      /\ who' = Older(who) /\ missing' = Older(missing)
      /\ UNCHANGED <<status, phase, said, job, answer>>
  BY DEF Tick
<1>3. TypeOK'
  BY <1>1, <1>2, OlderTypes DEF IInv, TypeOK
<1>4. Definite(shown') = Definite(shown)
  BY <1>1, <1>2, OlderIsOpen
<1>5. Open \in Question /\ Open' = Older(Open)
  BY <1>1, <1>2, <1>4 DEF Open
<1>6. Mirror'
  <2>1. Has(who') <=> Has(who)
    BY <1>1, <1>2, OlderIsSame DEF Has
  <2>2. QED
    BY <1>2, <1>4, <1>5, <2>1, OlderIsOpen DEF IInv, Mirror
<1>7. JobAsked => JobAsked'
  <2>1. missing'.status = missing.status
    BY <1>1, <1>2, OlderIsSame
  <2>2. /\ Open'.status = Open.status /\ Open'.name = Open.name
        /\ Open'.ids = Open.ids
    BY <1>5, OlderIsSame
  <2>3. QED
    BY <1>2, <2>1, <2>2 DEF JobAsked
<1>8. QED
  BY <1>2, <1>3, <1>6, <1>7 DEF IInv

LEMMA StepInv ==
    ASSUME IInv, [Next]_vars
    PROVE  IInv'
<1>1. CASE \E u \in Utterances : Turn(u)
  BY <1>1, ConfirmStep, BareNameStep, DirectStep, AskConfirmStep, UnaskedStep,
     AskStep, OtherStep DEF Turn
<1>2. CASE FindsNobody \/ Report \/ Fail \/ Tick
  BY <1>2, EndsStep, TickStep
<1>3. CASE \E rows \in SUBSET People : Propose(rows) \/ Write(rows)
  BY <1>3, ProposeStep, WriteStep
<1>4. CASE UNCHANGED vars
  BY <1>4 DEF vars, IInv, TypeOK, Mirror, Open, JobAsked
<1>5. QED
  BY <1>1, <1>2, <1>3, <1>4 DEF Next

(* Every variable keeps its type.                                          *)
THEOREM TypeCorrect == Spec => []TypeOK
<1>1. IInv => TypeOK
  BY DEF IInv
<1>2. IInv /\ [Next]_vars => IInv'
  BY StepInv
<1>3. QED
  BY InitInv, <1>1, <1>2, PTL DEF Spec

-----------------------------------------------------------------------------
(* The people a write touches are people the conversation asks for, and a  *)
(* place without a confirmation is one person at most.                     *)
LEMMA WriteWasAsked ==
    ASSUME IInv, NEW rows \in SUBSET People, Write(rows)
    PROVE  /\ \A p \in People : status'[p] # status[p] =>
                 AskedFor(p, status'[p]) \/ said.kind = "novel"
           /\ said.kind = "by_place" =>
                 Cardinality({p \in People : status'[p] # status[p]}) <= 1
<1>1. /\ JobAsked /\ rows \subseteq Fits /\ ~NeedsConfirm(rows)
      /\ status \in [People -> Status]
      /\ status' = [p \in People |-> IF p \in rows THEN job.status ELSE status[p]]
  BY DEF Write, IInv, TypeOK
<1>2. ASSUME NEW p \in People, status'[p] # status[p]
      PROVE  AskedFor(p, status'[p]) \/ said.kind = "novel"
  <2>1. p \in rows /\ p \in Fits /\ status'[p] = job.status
    BY <1>1, <1>2
  <2>2. job.via \in {"name", "ids", "place", "nobody"}
    BY DEF IInv, TypeOK, Job
  <2>3. CASE job.via = "name"
    BY <1>1, <2>1, <2>3 DEF Fits, JobAsked, AskedFor
  <2>4. CASE job.via = "ids"
    BY <1>1, <2>1, <2>4 DEF Fits, JobAsked, AskedFor
  <2>5. CASE job.via = "place"
    BY <1>1, <2>1, <2>5 DEF Fits, JobAsked, AskedFor
  <2>6. CASE job.via = "nobody"
    BY <2>1, <2>6 DEF Fits
  <2>7. QED
    BY <2>2, <2>3, <2>4, <2>5, <2>6
<1>3. ASSUME said.kind = "by_place"
      PROVE  Cardinality({p \in People : status'[p] # status[p]}) <= 1
  <2> DEFINE changed == {p \in People : status'[p] # status[p]}
  <2>1. job.via = "place" /\ ~job.confirmed
    BY <1>1, <1>3 DEF JobAsked
  <2>2. ~(Cardinality(rows) > 1)
    BY <1>1, <2>1 DEF NeedsConfirm
  <2>3. IsFiniteSet(rows) /\ Cardinality(rows) \in Nat
    BY ConfirmationAssumption, FS_Subset, FS_CardinalityType
  <2>4. changed \in SUBSET rows
    BY <1>1
  <2>5. /\ Cardinality(changed) \in Nat
        /\ Cardinality(changed) <= Cardinality(rows)
    BY <2>3, <2>4, FS_Subset, FS_CardinalityType
  <2>6. QED
    BY <2>2, <2>3, <2>5
<1>4. QED
  BY <1>2, <1>3

(* No status changes unless the conversation asks for it, in any turn but  *)
(* that of a paraphrase which a model takes for a write.                   *)
THEOREM ChangesAreAsked == Spec => EveryChangeWasAsked
<1> DEFINE Asked ==
       /\ \A p \in People : status'[p] # status[p] =>
             AskedFor(p, status'[p]) \/ said.kind = "novel"
       /\ said.kind = "by_place" =>
             Cardinality({p \in People : status'[p] # status[p]}) <= 1
<1>1. IInv /\ [Next]_vars => IInv'
  BY StepInv
<1>2. IInv /\ [Next]_vars => [Asked]_status
  <2>1. SUFFICES ASSUME IInv, [Next]_vars, status' # status PROVE Asked
    OBVIOUS
  <2>2. ASSUME NEW u \in Utterances, Turn(u) PROVE status' = status
    BY <2>2 DEF Turn, Confirm, Cancel, BareName, Direct, AskWho, AskValue,
                AskConfirm, AskSure, SelectedAsConfirmed, PlannedBehind,
                Query, Other, Writes, Answers
  <2>3. PICK rows \in SUBSET People : Write(rows)
    BY <2>1, <2>2 DEF Next, vars, FindsNobody, Report, Fail, Tick, Propose, Ends
  <2>4. QED
    BY <2>1, <2>3, WriteWasAsked
<1>3. QED
  BY InitInv, <1>1, <1>2, PTL DEF Spec, EveryChangeWasAsked

-----------------------------------------------------------------------------
(* "Location mutation facts clear after a successful write", and only then *)
(* or when they are answered, overtaken or too old: the open question is   *)
(* the remembered one, so a write that fails, or whose answer is lost,     *)
(* leaves it to be confirmed again.                                        *)
THEOREM FailuresKeepQuestions == Spec => []FailureKeepsQuestion
<1>1. IInv => FailureKeepsQuestion
  BY DEF IInv, Mirror, FailureKeepsQuestion
<1>2. IInv /\ [Next]_vars => IInv'
  BY StepInv
<1>3. QED
  BY InitInv, <1>1, <1>2, PTL DEF Spec
=============================================================================
