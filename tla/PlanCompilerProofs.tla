--------------------------- MODULE PlanCompilerProofs ---------------------------
(* The cascade, for any requests in flight, questions, selections, slots   *)
(* and configurations.                                                     *)
EXTENDS PlanCompiler, TLAPS

(* The guards, part by part. *)
Names ==
    {"meta_count", "org_headcount", "about_person"}
    \cup {"cancel_mutation", "confirm_status", "cancel_value", "bare_name"}
    \cup {"salary_acl", "unsupported"}
    \cup {"list_referent", "status_write", "status_read"}
    \cup {"birthday", "languages", "certifications"}
    \cup {"skills", "experience", "projects"} \cup {"pronoun"}
    \cup {"facet", "list_followup", "hire_window", "tenure"}
    \cup {"unknown_place", "place_refine", "empty_anaphora"}
    \cup {"sure_query", "elliptical", "birthday_pronoun"}

LEMMA Joined ==
    ASSUME NEW S, NEW s \in Seq(S), NEW t \in Seq(S)
    PROVE  /\ s \o t \in Seq(S) /\ Elements(s \o t) = Elements(s) \cup Elements(t)
           /\ Len(s \o t) = Len(s) + Len(t) /\ Len(s) \in Nat /\ Len(t) \in Nat
           /\ \A i \in 1..Len(s) : (s \o t)[i] = s[i]
           /\ \A i \in 1..Len(t) : (s \o t)[Len(s) + i] = t[i]
<1>1. /\ s \o t \in Seq(S) /\ Len(s \o t) = Len(s) + Len(t)
      /\ Len(s) \in Nat /\ Len(t) \in Nat
  OBVIOUS
<1>2. \A i \in 1..Len(s) : (s \o t)[i] = s[i] /\ i \in 1..(Len(s) + Len(t))
  BY <1>1
<1>3. \A i \in 1..Len(t) : /\ (s \o t)[Len(s) + i] = t[i]
                           /\ Len(s) + i \in 1..(Len(s) + Len(t))
  BY <1>1
<1>4. \A i \in 1..(Len(s) + Len(t)) :
         i \in 1..Len(s) \/ (i - Len(s) \in 1..Len(t) /\ (s \o t)[i] = t[i - Len(s)])
  BY <1>1
<1>5. QED
  BY <1>1, <1>2, <1>3, <1>4 DEF Elements

LEMMA GuardsAre ==
    /\ GuardOrder \in Seq(Names) /\ Guards = Names
    /\ Len(GuardOrder) >= 9 /\ GuardOrder[8] = "salary_acl" /\ GuardOrder[9] = "unsupported"
    /\ \A i \in 1..7 : GuardOrder[i] \in Elements(Escapes \o PendingReplies)
    /\ Elements(Refusals) = {"salary_acl", "unsupported"}
    /\ Elements(Escapes \o PendingReplies) \subseteq Names
<1>1. ASSUME NEW s \in Seq(Names), NEW t \in Seq(Names)
      PROVE  s \o t \in Seq(Names) /\ Elements(s \o t) = Elements(s) \cup Elements(t)
  BY Joined
<1>2. /\ Escapes \in Seq(Names) /\ PendingReplies \in Seq(Names)
      /\ Refusals \in Seq(Names) /\ StatusGuards \in Seq(Names)
      /\ ResumeTopics \in Seq(Names) /\ PersonTopics \in Seq(Names)
      /\ Pronouns \in Seq(Names) /\ ListGuards \in Seq(Names)
      /\ PlaceGuards \in Seq(Names) /\ SureGuards \in Seq(Names)
  <2>1. Escapes \in Seq(Names) /\ PendingReplies \in Seq(Names)
    BY DEF Names, Escapes, PendingReplies
  <2>2. Refusals \in Seq(Names) /\ StatusGuards \in Seq(Names)
    BY DEF Names, Refusals, StatusGuards
  <2>3. ResumeTopics \in Seq(Names) /\ PersonTopics \in Seq(Names)
    BY DEF Names, ResumeTopics, PersonTopics
  <2>4. Pronouns \in Seq(Names) /\ ListGuards \in Seq(Names)
    BY DEF Names, Pronouns, ListGuards
  <2>5. PlaceGuards \in Seq(Names) /\ SureGuards \in Seq(Names)
    BY DEF Names, PlaceGuards, SureGuards
  <2>6. QED
    BY <2>1, <2>2, <2>3, <2>4, <2>5
<1>3. /\ Elements(Escapes) = {"meta_count", "org_headcount", "about_person"}
      /\ Elements(Refusals) = {"salary_acl", "unsupported"}
      /\ Elements(StatusGuards) = {"list_referent", "status_write", "status_read"}
      /\ Elements(ResumeTopics) = {"birthday", "languages", "certifications"}
      /\ Elements(PersonTopics) = {"skills", "experience", "projects"}
      /\ Elements(Pronouns) = {"pronoun"}
  BY DEF Elements, Escapes, Refusals, StatusGuards, ResumeTopics, PersonTopics, Pronouns
<1>4. /\ Elements(PendingReplies) =
            {"cancel_mutation", "confirm_status", "cancel_value", "bare_name"}
      /\ Elements(ListGuards) = {"facet", "list_followup", "hire_window", "tenure"}
      /\ Elements(PlaceGuards) = {"unknown_place", "place_refine", "empty_anaphora"}
      /\ Elements(SureGuards) = {"sure_query", "elliptical", "birthday_pronoun"}
  BY DEF Elements, PendingReplies, ListGuards, PlaceGuards, SureGuards
<1> DEFINE replies == Escapes \o PendingReplies
           refused == replies \o Refusals
           topics == StatusGuards \o ResumeTopics
           persons == topics \o PersonTopics
           pronouns == persons \o Pronouns
           lists == pronouns \o ListGuards
           places == lists \o PlaceGuards
           rest == places \o SureGuards
<1>5. replies \in Seq(Names) /\ Elements(replies) = Elements(Escapes) \cup Elements(PendingReplies)
  BY <1>1, <1>2
<1>6. refused \in Seq(Names) /\ Elements(refused) = Elements(replies) \cup Elements(Refusals)
  BY <1>1, <1>2, <1>5
<1>7. topics \in Seq(Names) /\ Elements(topics) = Elements(StatusGuards) \cup Elements(ResumeTopics)
  BY <1>1, <1>2
<1> HIDE DEF topics
<1>8. persons \in Seq(Names) /\ Elements(persons) = Elements(topics) \cup Elements(PersonTopics)
  BY <1>1, <1>2, <1>7
<1> HIDE DEF persons
<1>9. pronouns \in Seq(Names) /\ Elements(pronouns) = Elements(persons) \cup Elements(Pronouns)
  BY <1>1, <1>2, <1>8
<1> HIDE DEF pronouns
<1>10. lists \in Seq(Names) /\ Elements(lists) = Elements(pronouns) \cup Elements(ListGuards)
  BY <1>1, <1>2, <1>9
<1> HIDE DEF lists
<1>11. places \in Seq(Names) /\ Elements(places) = Elements(lists) \cup Elements(PlaceGuards)
  BY <1>1, <1>2, <1>10
<1> HIDE DEF places
<1>12. rest \in Seq(Names) /\ Elements(rest) = Elements(places) \cup Elements(SureGuards)
  BY <1>1, <1>2, <1>11
<1> HIDE DEF rest
<1>13. GuardOrder = refused \o rest
  BY DEF GuardOrder, rest, places, lists, pronouns, persons, topics
<1>14. GuardOrder \in Seq(Names) /\ Guards = Elements(refused) \cup Elements(rest)
  BY <1>1, <1>6, <1>12, <1>13 DEF Guards
<1>15. Guards = Elements(Escapes) \cup Elements(PendingReplies) \cup Elements(Refusals)
                \cup Elements(StatusGuards) \cup Elements(ResumeTopics)
                \cup Elements(PersonTopics) \cup Elements(Pronouns) \cup Elements(ListGuards)
                \cup Elements(PlaceGuards) \cup Elements(SureGuards)
  BY <1>5, <1>6, <1>7, <1>8, <1>9, <1>10, <1>11, <1>12, <1>14, Zenon
<1>16. Guards = Names
  BY <1>3, <1>4, <1>15, Zenon DEF Names
<1>17. /\ Len(refused) = 9 /\ refused[8] = "salary_acl" /\ refused[9] = "unsupported"
       /\ \A i \in 1..7 : refused[i] \in Elements(replies)
  <2>1. Len(replies) = 7 /\ Len(Refusals) = 2
    BY DEF Escapes, PendingReplies, Refusals
  <2>2. refused[8] = "salary_acl" /\ refused[9] = "unsupported"
    BY DEF Escapes, PendingReplies, Refusals
  <2> HIDE DEF replies
  <2>3. \A i \in 1..Len(replies) : refused[i] = replies[i] /\ replies[i] \in Elements(replies)
    BY ONLY <1>2, <1>5, Joined DEF refused, Elements
  <2>4. Len(refused) = Len(replies) + Len(Refusals)
    BY ONLY <1>2, <1>5, Joined DEF refused
  <2> HIDE DEF refused
  <2>5. QED
    BY <2>1, <2>2, <2>3, <2>4
<1>18. Len(GuardOrder) >= 9 /\ \A i \in 1..9 : GuardOrder[i] = refused[i]
  <2> HIDE DEF refused
  <2>1. /\ \A i \in 1..Len(refused) : GuardOrder[i] = refused[i]
        /\ Len(GuardOrder) = Len(refused) + Len(rest) /\ Len(rest) \in Nat
    BY ONLY <1>6, <1>12, <1>13, Joined
  <2>2. QED
    BY <1>17, <2>1
<1>19. QED
  <2> HIDE DEF refused
  <2>1. GuardOrder[8] = refused[8] /\ GuardOrder[9] = refused[9]
    BY <1>18
  <2>2. \A i \in 1..7 : GuardOrder[i] \in Elements(replies)
    <3> HIDE DEF replies
    <3>1. QED
      BY <1>17, <1>18
  <2>3. Elements(replies) \subseteq Names
    BY <1>3, <1>4, <1>5 DEF Names
  <2>4. QED
    BY <1>3, <1>14, <1>16, <1>17, <1>18, <2>1, <2>2, <2>3, Zenon

(* A guard answers only if it matches, and the earlier ones go first. *)
LEMMA GuardFires ==
    ASSUME NEW q
    PROVE  /\ Guard(q) \in Names \cup {"none"}
           /\ Hit(q, "salary_acl") \/ Hit(q, "unsupported") =>
                 Guard(q) \in Elements(Escapes \o PendingReplies) \cup Elements(Refusals)
<1>1. DOMAIN GuardOrder = 1..Len(GuardOrder) /\ Len(GuardOrder) \in Nat
  BY GuardsAre
<1>2. ASSUME First(q) # {}
      PROVE  \E i \in First(q) : Guard(q) = GuardOrder[i]
  BY <1>2 DEF Guard
<1>3. \A i \in First(q) : GuardOrder[i] \in Names
  BY <1>1, GuardsAre DEF First
<1>4. Guard(q) \in Names \cup {"none"}
  BY <1>2, <1>3 DEF Guard
<1>5. ASSUME Hit(q, "salary_acl") \/ Hit(q, "unsupported")
      PROVE  Guard(q) \in Elements(Escapes \o PendingReplies) \cup Elements(Refusals)
  <2>1. PICK n \in 8..9 : Hit(q, GuardOrder[n])
    BY <1>5, GuardsAre
  <2>2. n \in DOMAIN GuardOrder
    BY <1>1, GuardsAre
  <2>3. First(q) # {}
    <3>1. SUFFICES ASSUME First(q) = {} PROVE FALSE
      OBVIOUS
    <3>2. \A i \in 1..9 : Hit(q, GuardOrder[i]) => \E j \in 1..(i - 1) : Hit(q, GuardOrder[j])
      <4>1. \A i \in 1..9 : i \in DOMAIN GuardOrder
        BY <1>1, GuardsAre
      <4>2. QED
        BY <3>1, <4>1 DEF First
    <3>3. ~Hit(q, GuardOrder[1])
      BY <3>2
    <3>4. ~Hit(q, GuardOrder[2])
      BY <3>2, <3>3
    <3>5. ~Hit(q, GuardOrder[3])
      BY <3>2, <3>3, <3>4
    <3>6. ~Hit(q, GuardOrder[4])
      BY <3>2, <3>3, <3>4, <3>5
    <3>7. ~Hit(q, GuardOrder[5])
      BY <3>2, <3>3, <3>4, <3>5, <3>6
    <3>8. ~Hit(q, GuardOrder[6])
      BY <3>2, <3>3, <3>4, <3>5, <3>6, <3>7
    <3>9. ~Hit(q, GuardOrder[7])
      BY <3>2, <3>3, <3>4, <3>5, <3>6, <3>7, <3>8
    <3>10. ~Hit(q, GuardOrder[8])
      BY <3>2, <3>3, <3>4, <3>5, <3>6, <3>7, <3>8, <3>9
    <3>11. ~Hit(q, GuardOrder[9])
      BY <3>2, <3>3, <3>4, <3>5, <3>6, <3>7, <3>8, <3>9, <3>10
    <3>12. QED
      BY <2>1, <3>10, <3>11
  <2>4. PICK i \in First(q) : Guard(q) = GuardOrder[i]
    BY <1>2, <2>3
  <2>5. i \in 1..9
    BY <1>1, <2>1 DEF First
  <2>6. CASE i \in 1..7
    BY <2>4, <2>6, GuardsAre
  <2>7. CASE i \in 8..9
    BY <2>4, <2>7, GuardsAre
  <2>8. QED
    BY <2>5, <2>6, <2>7
<1>6. QED
  BY <1>4, <1>5

-----------------------------------------------------------------------------
(* A plan of the selector that writes was selected with high confidence,   *)
(* and is marked as confirmed if confirmations are on.                     *)
LEMMA CompiledWrites ==
    ASSUME NEW s \in Selection, CompileSelection(s).shape \in {"write", "sure_write"}
    PROVE  s.conf = "high"
<1>1. s.conf \in {"low", "medium", "high"}
  BY DEF Selection
<1>2. ~(\/ s.conf = "low" \/ s.intent = "clarify"
        \/ s.intent = "set_status" /\ s.conf # "high"
        \/ SelectsWrite(s) /\ s.conf = "medium")
  BY DEF CompileSelection, Fresh
<1>3. ExpandIntent(s).shape \in {"write", "sure_write"}
  BY <1>2 DEF CompileSelection
<1>4. s.intent = "set_status" \/ SelectsWrite(s)
  BY <1>3 DEF ExpandIntent, ExpandTools, Fresh, NoPlan, SelectsWrite
<1>5. QED
  BY <1>1, <1>2, <1>4

(* p is not about the people of earlier turns, but where q may mean one.   *)
Apart(q, p) ==
    /\ p.scope # "cohort"
    /\ p.scope = "named" => q.lookup # "other"
    /\ p.scope = "by_id" => q.lookup # "none"

LEMMA UnpoisonedApart ==
    ASSUME NEW need, NEW q, NEW p, ~Poisoned(need, q, p), need = "fresh"
    PROVE  Apart(q, p)
BY DEF Poisoned, Apart

RequestInv(r) ==
    /\ phase[r] \in Phases /\ attempt[r] \in 0..MaxRepairs /\ calls[r] \in Nat
    /\ phase[r] \in {"new", "selecting"} => own[r] = NoMeta
    /\ phase[r] = "new" => attempt[r] = 0 /\ calls[r] = 0
    /\ phase[r] = "selecting" =>
          calls[r] = attempt[r] + 1 /\ probe[r] = asked[r].force
    /\ phase[r] = "slots" => calls[r] <= MaxRepairs + 2
    /\ phase[r] = "planning" => calls[r] <= MaxRepairs + 3
    /\ calls[r] <= MaxRepairs + 4

AnswerInv(r) ==
    /\ phase[r] # "done" => mode[r] = "none"
    /\ mode[r] \in Selects /\ plan[r].shape \in {"write", "sure_write"} =>
          own[r].conf = "high" /\ (cfg.hitl => plan[r].shape = "sure_write")
    /\ phase[r] = "done" /\ mode[r] \in Residual
          /\ (asked[r].need = "fresh" \/ mode[r] = "llm_retry_stripped") =>
          Apart(asked[r], plan[r])
    /\ phase[r] = "done" =>
          /\ mode[r] \in Selects \ {"tool_select_failed"} /\ asked[r].force =>
                own[r].repairs > 0
          /\ mode[r] \notin Residual => meta[r] = own[r]

(* A guard that matches answers before anything else. *)
GuardedInv(r) ==
    Guard(asked[r]) # "none" =>
        /\ phase[r] \in {"new", "done"} /\ calls[r] = 0
        /\ phase[r] = "done" => /\ plan[r] = GuardPlan(asked[r])
                                /\ mode[r] = Guard(asked[r])

IInv ==
    /\ asked \in [Requests -> Questions]
    /\ DOMAIN phase = Requests /\ DOMAIN attempt = Requests /\ DOMAIN probe = Requests
    /\ DOMAIN calls = Requests /\ DOMAIN plan = Requests /\ DOMAIN mode = Requests
    /\ DOMAIN meta = Requests /\ DOMAIN own = Requests
    /\ \A r \in Requests : RequestInv(r) /\ AnswerInv(r) /\ GuardedInv(r)

LEMMA InitInv == Init => IInv
<1> SUFFICES ASSUME Init PROVE IInv
  OBVIOUS
<1>1. \A r \in Requests :
         /\ phase[r] = "new" /\ attempt[r] = 0 /\ probe[r] = FALSE /\ calls[r] = 0
         /\ plan[r] = NoPlan /\ mode[r] = "none" /\ own[r] = NoMeta
  BY DEF Init
<1>2. \A r \in Requests : RequestInv(r)
  <2>1. 0 \in 0..MaxRepairs /\ 0 <= MaxRepairs + 4 /\ 0 \in Nat
    BY CompilerAssumption
  <2>2. QED
    BY <1>1, <2>1 DEF RequestInv, Phases
<1>3. \A r \in Requests : AnswerInv(r) /\ GuardedInv(r)
  BY <1>1 DEF AnswerInv, GuardedInv, Selects
<1>4. QED
  BY <1>2, <1>3 DEF Init, IInv

-----------------------------------------------------------------------------
(* What the others have is left alone. *)
Only(r) ==
    /\ UNCHANGED setup
    /\ DOMAIN phase' = Requests /\ DOMAIN attempt' = Requests /\ DOMAIN probe' = Requests
    /\ DOMAIN calls' = Requests /\ DOMAIN plan' = Requests /\ DOMAIN mode' = Requests
    /\ DOMAIN meta' = Requests /\ DOMAIN own' = Requests
    /\ \A x \in Requests \ {r} :
          /\ phase'[x] = phase[x] /\ attempt'[x] = attempt[x] /\ probe'[x] = probe[x]
          /\ calls'[x] = calls[x] /\ plan'[x] = plan[x] /\ mode'[x] = mode[x]
          /\ meta'[x] = meta[x] /\ own'[x] = own[x]

LEMMA OneRequest ==
    ASSUME IInv, NEW r \in Requests, Only(r),
           RequestInv(r)', AnswerInv(r)', GuardedInv(r)'
    PROVE  IInv'
<1>1. asked' = asked /\ cfg' = cfg
  BY DEF Only, setup
<1>2. ASSUME NEW x \in Requests PROVE (RequestInv(x) /\ AnswerInv(x) /\ GuardedInv(x))'
  <2>1. CASE x = r
    BY <2>1
  <2>2. CASE x # r
    <3>1. /\ phase'[x] = phase[x] /\ attempt'[x] = attempt[x] /\ probe'[x] = probe[x]
          /\ calls'[x] = calls[x] /\ plan'[x] = plan[x] /\ mode'[x] = mode[x]
          /\ meta'[x] = meta[x] /\ own'[x] = own[x]
      BY <2>2 DEF Only
    <3>2. RequestInv(x)'
      BY <1>1, <3>1 DEF IInv, RequestInv
    <3>3. AnswerInv(x)'
      BY <1>1, <3>1 DEF IInv, AnswerInv
    <3>4. GuardedInv(x)'
      BY <1>1, <3>1 DEF IInv, GuardedInv
    <3>5. QED
      BY <3>2, <3>3, <3>4
  <2>3. QED
    BY <2>1, <2>2
<1>3. QED
  BY <1>1, <1>2 DEF IInv, Only

(* compile returns: what an answer must be like. *)
Fits(r, p, m, o) ==
    /\ m \in Selects /\ p.shape \in {"write", "sure_write"} =>
          o.conf = "high" /\ (cfg.hitl => p.shape = "sure_write")
    /\ m \in Residual /\ (asked[r].need = "fresh" \/ m = "llm_retry_stripped") =>
          Apart(asked[r], p)
    /\ m \in Selects \ {"tool_select_failed"} /\ asked[r].force => o.repairs > 0
    /\ m \notin Residual => selectMeta' = o
    /\ Guard(asked[r]) # "none" =>
          calls[r] = 0 /\ p = GuardPlan(asked[r]) /\ m = Guard(asked[r])

LEMMA DeliverInv ==
    ASSUME IInv, NEW r \in Requests, NEW p, NEW m, NEW o, Deliver(r, p, m), Fits(r, p, m, o),
           own' = [own EXCEPT ![r] = o] \/ (own' = own /\ o = own[r])
    PROVE  IInv'
<1>1. Only(r)
  BY DEF Deliver, Only, IInv
<1>2. /\ phase'[r] = "done" /\ plan'[r] = p /\ mode'[r] = m /\ meta'[r] = selectMeta'
      /\ own'[r] = o /\ attempt'[r] = attempt[r] /\ calls'[r] = calls[r]
      /\ asked' = asked /\ cfg' = cfg
  BY DEF Deliver, IInv, setup
<1>3. RequestInv(r)'
  BY <1>2 DEF IInv, RequestInv, Phases
<1>4. AnswerInv(r)'
  BY <1>2 DEF AnswerInv, Fits
<1>5. GuardedInv(r)'
  BY <1>2 DEF GuardedInv, Fits
<1>6. QED
  BY <1>1, <1>3, <1>4, <1>5, OneRequest

(* Another completion is awaited. *)
LEMMA AwaitInv ==
    ASSUME IInv, NEW r \in Requests, NEW p \in {"selecting", "slots", "planning", "stripped"},
           Awaits(r, p), phase[r] # "done", Guard(asked[r]) = "none",
           DOMAIN attempt' = Requests, DOMAIN probe' = Requests, DOMAIN own' = Requests,
           \A x \in Requests \ {r} : /\ attempt'[x] = attempt[x] /\ probe'[x] = probe[x]
                                     /\ own'[x] = own[x],
           attempt'[r] \in 0..MaxRepairs,
           p = "selecting" => /\ own'[r] = NoMeta /\ calls[r] = attempt'[r]
                              /\ probe'[r] = asked[r].force,
           p = "slots" => calls[r] <= MaxRepairs + 1,
           p = "planning" => calls[r] <= MaxRepairs + 2,
           p = "stripped" => calls[r] <= MaxRepairs + 3
    PROVE  IInv'
<1>1. Only(r)
  BY DEF Awaits, Only, IInv, answer
<1>2. /\ phase'[r] = p /\ calls'[r] = calls[r] + 1 /\ mode'[r] = mode[r]
      /\ asked' = asked /\ cfg' = cfg
  BY DEF Awaits, IInv, setup, answer
<1>3. calls[r] \in Nat /\ MaxRepairs \in Nat /\ mode[r] = "none"
  BY CompilerAssumption DEF IInv, RequestInv, AnswerInv
<1>4. calls'[r] \in Nat /\ calls'[r] <= MaxRepairs + 4
  BY <1>2, <1>3
<1>5. RequestInv(r)'
  BY <1>2, <1>3, <1>4 DEF RequestInv, Phases
<1>6. AnswerInv(r)'
  BY <1>2, <1>3 DEF AnswerInv, Selects, Residual
<1>7. GuardedInv(r)'
  BY <1>2 DEF GuardedInv
<1>8. QED
  BY <1>1, <1>5, <1>6, <1>7, OneRequest

LEMMA ModesDiffer ==
    ASSUME IInv, NEW r \in Requests
    PROVE  /\ Guard(asked[r]) \notin Selects \cup Residual
           /\ asked[r].legacy # "miss" =>
                 LegacyMode(asked[r], cfg) \notin Selects \cup Residual
<1>1. Guard(asked[r]) \notin Selects \cup Residual
  BY GuardFires DEF Names, Selects, Residual
<1>2. asked[r].legacy \in Legacy
  BY CompilerAssumption DEF IInv, Question
<1>3. QED
  BY <1>1, <1>2 DEF LegacyMode, Legacy, Selects, Residual

LEMMA BeginInv ==
    ASSUME IInv, NEW r \in Requests, Begin(r)
    PROVE  IInv'
<1>1. /\ phase[r] = "new" /\ attempt[r] = 0 /\ calls[r] = 0 /\ own[r] = NoMeta
      /\ own' = own /\ selectMeta' = NoMeta /\ forceRepair' = asked[r].force
  BY DEF IInv, RequestInv, Begin, GuardAnswers, LegacyAnswers, AskSelector, SkipSelector,
         Unguarded, Starts
<1>2. CASE GuardAnswers(r)
  <2>1. Fits(r, GuardPlan(asked[r]), Guard(asked[r]), NoMeta)
    BY <1>1, ModesDiffer DEF Fits
  <2>2. QED
    BY <1>1, <1>2, <2>1, DeliverInv DEF GuardAnswers
<1>3. CASE LegacyAnswers(r)
  <2>1. Guard(asked[r]) = "none" /\ asked[r].legacy # "miss"
    BY <1>3 DEF LegacyAnswers, Unguarded, LegacyFirst
  <2>2. Fits(r, LegacyPlan(asked[r]), LegacyMode(asked[r], cfg), NoMeta)
    BY <1>1, <2>1, ModesDiffer DEF Fits
  <2>3. QED
    BY <1>1, <1>3, <2>2, DeliverInv DEF LegacyAnswers
<1>4. CASE AskSelector(r)
  <2>1. /\ Awaits(r, "selecting") /\ Guard(asked[r]) = "none" /\ attempt' = attempt
        /\ probe' = [probe EXCEPT ![r] = asked[r].force]
    BY <1>1, <1>4 DEF AskSelector, Unguarded
  <2>2. 0 \in 0..MaxRepairs
    BY CompilerAssumption
  <2>3. /\ DOMAIN attempt' = Requests /\ DOMAIN probe' = Requests /\ DOMAIN own' = Requests
        /\ \A x \in Requests \ {r} : /\ attempt'[x] = attempt[x] /\ probe'[x] = probe[x]
                                     /\ own'[x] = own[x]
        /\ probe'[r] = asked[r].force
    BY <1>1, <2>1 DEF IInv
  <2>4. QED
    BY <1>1, <2>1, <2>2, <2>3, AwaitInv
<1>5. CASE SkipSelector(r)
  <2>1. Awaits(r, "slots") /\ Guard(asked[r]) = "none" /\ attempt' = attempt /\ probe' = probe
    BY <1>5 DEF SkipSelector, Unguarded
  <2>2. 0 \in 0..MaxRepairs /\ 0 <= MaxRepairs + 1
    BY CompilerAssumption
  <2>3. /\ DOMAIN attempt' = Requests /\ DOMAIN probe' = Requests /\ DOMAIN own' = Requests
        /\ \A x \in Requests \ {r} : /\ attempt'[x] = attempt[x] /\ probe'[x] = probe[x]
                                     /\ own'[x] = own[x]
    BY <1>1, <2>1 DEF IInv
  <2>4. QED
    BY <1>1, <2>1, <2>2, <2>3, AwaitInv
<1>6. QED
  BY <1>2, <1>3, <1>4, <1>5 DEF Begin

-----------------------------------------------------------------------------
(* A request that the model was asked for met no guard. *)
LEMMA Unmet ==
    ASSUME IInv, NEW r \in Requests, phase[r] \notin {"new", "done"}
    PROVE  Guard(asked[r]) = "none"
  BY DEF IInv, GuardedInv

LEMMA SelectedInv ==
    ASSUME IInv, NEW r \in Requests, phase[r] = "selecting", NEW p, NEW m, NEW o, NEW weak,
           Selected(r, p, m, o, weak), m \in Selects,
           p.shape \in {"write", "sure_write"} =>
               o.conf = "high" /\ (cfg.hitl => p.shape = "sure_write"),
           m # "tool_select_failed" /\ asked[r].force => o.repairs > 0
    PROVE  IInv'
<1>1. Guard(asked[r]) = "none"
  BY Unmet
<1>2. own' = [own EXCEPT ![r] = o] /\ selectMeta' = o
  BY DEF Selected
<1>3. CASE asked[r].legacy # "miss" /\ Deliver(r, LegacyPlan(asked[r]), LegacyMode(asked[r], cfg))
  <2>1. Fits(r, LegacyPlan(asked[r]), LegacyMode(asked[r], cfg), o)
    BY <1>1, <1>2, <1>3, ModesDiffer DEF Fits
  <2>2. QED
    BY <1>2, <1>3, <2>1, DeliverInv
<1>4. CASE Deliver(r, p, m)
  <2>1. Fits(r, p, m, o)
    BY <1>1, <1>2 DEF Fits, Selects, Residual
  <2>2. QED
    BY <1>2, <1>4, <2>1, DeliverInv
<1>5. CASE Awaits(r, "slots") /\ UNCHANGED <<attempt, probe>>
  <2>1. calls[r] = attempt[r] + 1 /\ attempt[r] \in 0..MaxRepairs /\ attempt'[r] = attempt[r]
    BY <1>5 DEF IInv, RequestInv
  <2>2. calls[r] <= MaxRepairs + 1
    BY <2>1, CompilerAssumption
  <2>3. /\ DOMAIN attempt' = Requests /\ DOMAIN probe' = Requests /\ DOMAIN own' = Requests
        /\ \A x \in Requests \ {r} : /\ attempt'[x] = attempt[x] /\ probe'[x] = probe[x]
                                     /\ own'[x] = own[x]
    BY <1>2, <1>5 DEF IInv
  <2>4. QED
    BY <1>1, <1>5, <2>1, <2>2, <2>3, AwaitInv
<1>6. QED
  BY <1>3, <1>4, <1>5 DEF Selected

LEMMA ReselectInv ==
    ASSUME IInv, NEW r \in Requests, NEW s, Reselect(r, s)
    PROVE  IInv'
<1>1. /\ phase[r] = "selecting" /\ attempt[r] < MaxRepairs /\ Awaits(r, "selecting")
      /\ attempt' = [attempt EXCEPT ![r] = @ + 1] /\ probe' = probe /\ own' = own
  BY DEF Reselect
<1>2. /\ attempt[r] \in 0..MaxRepairs /\ calls[r] = attempt[r] + 1
      /\ probe[r] = asked[r].force /\ own[r] = NoMeta
  BY <1>1 DEF IInv, RequestInv
<1>3. attempt'[r] = attempt[r] + 1
  BY <1>1 DEF IInv
<1>4. attempt'[r] \in 0..MaxRepairs
  BY <1>1, <1>2, <1>3, CompilerAssumption
<1>5. /\ DOMAIN attempt' = Requests /\ DOMAIN probe' = Requests /\ DOMAIN own' = Requests
      /\ \A x \in Requests \ {r} : /\ attempt'[x] = attempt[x] /\ probe'[x] = probe[x]
                                   /\ own'[x] = own[x]
  BY <1>1 DEF IInv
<1>6. QED
  BY <1>1, <1>2, <1>3, <1>4, <1>5, Unmet, AwaitInv

LEMMA GiveUpInv ==
    ASSUME IInv, NEW r \in Requests, NEW s, GiveUp(r, s)
    PROVE  IInv'
<1> DEFINE o == [repairs |-> MaxRepairs, hitl |-> FALSE, intent |-> s.intent, conf |-> s.conf]
<1>1. phase[r] = "selecting" /\ Selected(r, Fresh("clarify"), "tool_select_failed", o, FALSE)
  BY DEF GiveUp
<1>2. Fresh("clarify").shape = "clarify" /\ "tool_select_failed" \in Selects
  BY DEF Fresh, Selects
<1> HIDE DEF o
<1>3. QED
  BY <1>1, <1>2, SelectedInv

LEMMA AcceptInv ==
    ASSUME IInv, NEW r \in Requests, NEW s \in Selections, Accept(r, s)
    PROVE  IInv'
<1> DEFINE hitl == NeedsHitl(cfg, s)
           o == [repairs |-> attempt[r], hitl |-> hitl, intent |-> s.intent, conf |-> s.conf]
           weak == s.intent = "unknown" /\ s.conf = "low"
           m == IF attempt[r] = 0 THEN "tool_select" ELSE "tool_select_repair"
<1>1. phase[r] = "selecting" /\ Suits(r, s) /\ s \in Selection
  BY CompilerAssumption DEF Accept
<1>2. o.repairs = attempt[r] /\ o.conf = s.conf
  OBVIOUS
<1>3. asked[r].force => attempt[r] > 0
  <2>1. probe[r] = asked[r].force /\ attempt[r] \in 0..MaxRepairs
    BY <1>1 DEF IInv, RequestInv
  <2>2. ~(probe[r] /\ attempt[r] = 0)
    BY <1>1 DEF Suits
  <2>3. QED
    BY <2>1, <2>2, CompilerAssumption
<1>4. CASE hitl
  <2>1. Selected(r, Fresh("confirm"), "tool_select_hitl", o, weak)
    BY <1>4 DEF Accept
  <2>2. Fresh("confirm").shape = "confirm" /\ "tool_select_hitl" \in Selects
    BY DEF Fresh, Selects
  <2> HIDE DEF o, weak, hitl
  <2>3. QED
    BY <1>1, <1>2, <1>3, <2>1, <2>2, SelectedInv
<1>5. CASE ~hitl
  <2>1. Selected(r, CompileSelection(s), m, o, weak)
    BY <1>5 DEF Accept
  <2>2. m \in Selects
    BY DEF Selects
  <2>3. CompileSelection(s).shape \in {"write", "sure_write"} =>
           s.conf = "high" /\ (cfg.hitl => CompileSelection(s).shape = "sure_write")
    BY <1>1, <1>5, CompiledWrites DEF NeedsHitl
  <2> HIDE DEF o, weak, hitl, m
  <2>4. QED
    BY <1>1, <1>2, <1>3, <2>1, <2>2, <2>3, SelectedInv
<1>6. QED
  BY <1>4, <1>5

(* The residual planners: no answer of theirs is a selection's, and a      *)
(* fresh question has no poisoned one.                                     *)
LEMMA ResidualInv ==
    ASSUME IInv, NEW r \in Requests, phase[r] \notin {"new", "done"},
           NEW p, NEW m \in Residual, Deliver(r, p, m), UNCHANGED Shared,
           asked[r].need = "fresh" \/ m = "llm_retry_stripped" => Apart(asked[r], p)
    PROVE  IInv'
<1>1. Guard(asked[r]) = "none" /\ own' = own
  BY Unmet DEF Shared
<1>2. Fits(r, p, m, own[r])
  BY <1>1 DEF Fits, Selects, Residual
<1>3. QED
  BY <1>1, <1>2, DeliverInv

LEMMA SlotsAnswerInv ==
    ASSUME IInv, NEW r \in Requests, NEW b \in Bundles, SlotsAnswer(r, b)
    PROVE  IInv'
<1>1. phase[r] = "slots" /\ UNCHANGED Shared
  BY DEF SlotsAnswer
<1>2. CASE Poisoned(asked[r].need, asked[r], SlotPlan(b))
  BY <1>1, <1>2, ResidualInv DEF SlotsAnswer, Residual, Fresh, Apart
<1>3. CASE ~Poisoned(asked[r].need, asked[r], SlotPlan(b))
  <2>1. Deliver(r, SlotPlan(b), "llm_slots")
    BY <1>3 DEF SlotsAnswer
  <2>2. asked[r].need = "fresh" => Apart(asked[r], SlotPlan(b))
    BY <1>3, UnpoisonedApart
  <2>3. QED
    BY <1>1, <2>1, <2>2, ResidualInv DEF Residual
<1>4. QED
  BY <1>2, <1>3

LEMMA PlannerInv ==
    ASSUME IInv, NEW r \in Requests, NEW p \in Drafts,
           PlannerAnswers(r, p) \/ StrippedAnswers(r, p)
    PROVE  IInv'
<1>1. CASE PlannerAnswers(r, p)
  <2>1. asked[r].need = "fresh" => Apart(asked[r], p)
    BY <1>1, UnpoisonedApart DEF PlannerAnswers
  <2>2. QED
    BY <1>1, <2>1, ResidualInv DEF PlannerAnswers, Residual
<1>2. CASE StrippedAnswers(r, p)
  <2>1. Apart(asked[r], p)
    BY <1>2, UnpoisonedApart DEF StrippedAnswers
  <2>2. QED
    BY <1>2, <2>1, ResidualInv DEF StrippedAnswers, Residual
<1>3. QED
  BY <1>1, <1>2

LEMMA OnwardInv ==
    ASSUME IInv, NEW r \in Requests, SlotsMiss(r) \/ Strip(r)
    PROVE  IInv'
<1>1. PICK p \in {"planning", "stripped"} :
         /\ Awaits(r, p) /\ UNCHANGED <<attempt, probe, Shared>>
         /\ phase[r] = IF p = "planning" THEN "slots" ELSE "planning"
  BY DEF SlotsMiss, Strip
<1>2. /\ attempt' = attempt /\ probe' = probe /\ own' = own
      /\ attempt[r] \in 0..MaxRepairs
      /\ p = "planning" => calls[r] <= MaxRepairs + 2
      /\ p = "stripped" => calls[r] <= MaxRepairs + 3
  BY <1>1 DEF IInv, RequestInv, Shared
<1>3. Guard(asked[r]) = "none"
  BY <1>1, Unmet
<1>4. /\ DOMAIN attempt' = Requests /\ DOMAIN probe' = Requests /\ DOMAIN own' = Requests
      /\ \A x \in Requests \ {r} : /\ attempt'[x] = attempt[x] /\ probe'[x] = probe[x]
                                   /\ own'[x] = own[x]
  BY <1>2 DEF IInv
<1>5. QED
  BY <1>1, <1>2, <1>3, <1>4, AwaitInv

LEMMA BreaksInv ==
    ASSUME IInv, NEW r \in Requests, Breaks(r)
    PROVE  IInv'
<1>1. Only(r)
  BY DEF Breaks, Only, IInv, answer, Shared
<1>2. /\ phase[r] \in {"selecting", "planning", "stripped"} /\ phase'[r] = "failed"
      /\ attempt' = attempt /\ calls' = calls /\ mode' = mode /\ asked' = asked
  BY DEF Breaks, IInv, answer, setup, Shared
<1>3. RequestInv(r)'
  BY <1>2 DEF IInv, RequestInv, Phases
<1>4. mode[r] = "none"
  BY <1>2 DEF IInv, AnswerInv
<1>5. AnswerInv(r)'
  BY <1>2, <1>4 DEF AnswerInv, Selects, Residual
<1>6. Guard(asked[r]) = "none"
  BY <1>2, Unmet
<1>7. GuardedInv(r)'
  BY <1>2, <1>6 DEF GuardedInv
<1>8. QED
  BY <1>1, <1>3, <1>5, <1>7, OneRequest

-----------------------------------------------------------------------------
LEMMA StepInv == IInv /\ [Next]_vars => IInv'
<1> SUFFICES ASSUME IInv, [Next]_vars PROVE IInv'
  OBVIOUS
<1>1. ASSUME NEW r \in Requests, Begin(r) PROVE IInv'
  BY <1>1, BeginInv
<1>2. ASSUME NEW r \in Requests, ModelReturns(r) PROVE IInv'
  <2>1. CASE \E s \in Selections \cup {Unreadable} : Reselect(r, s) \/ GiveUp(r, s)
    BY <2>1, ReselectInv, GiveUpInv
  <2>2. CASE \E s \in Selections : Accept(r, s)
    BY <2>2, AcceptInv
  <2>3. CASE \E b \in Bundles : SlotsAnswer(r, b)
    BY <2>3, SlotsAnswerInv
  <2>4. CASE \E p \in Drafts : PlannerAnswers(r, p) \/ StrippedAnswers(r, p)
    BY <2>4, PlannerInv
  <2>5. CASE SlotsMiss(r) \/ Strip(r)
    BY <2>5, OnwardInv
  <2>6. CASE AskBack(r)
    BY <2>6, ResidualInv DEF AskBack, Residual, Fresh, Apart
  <2>7. CASE Breaks(r)
    BY <2>7, BreaksInv
  <2>8. QED
    BY <1>2, <2>1, <2>2, <2>3, <2>4, <2>5, <2>6, <2>7 DEF ModelReturns
<1>3. CASE UNCHANGED vars
  <2>1. /\ cfg' = cfg /\ asked' = asked /\ phase' = phase /\ attempt' = attempt
        /\ probe' = probe /\ calls' = calls /\ plan' = plan /\ mode' = mode
        /\ meta' = meta /\ own' = own
    BY <1>3 DEF vars
  <2>2. QED
    BY <2>1 DEF IInv, RequestInv, AnswerInv, GuardedInv
<1>4. QED
  BY <1>1, <1>2, <1>3 DEF Next

(* What an employee asks about pay, and what is out of scope, is neither   *)
(* sent to the model nor answered by anything but a refusal, an escape or  *)
(* a reply: the order of the guards is enough for that.                    *)
THEOREM RefusalsComeFirst == Spec => []RefusedNeverSent
<1>1. IInv => RefusedNeverSent
  <2> SUFFICES ASSUME IInv, NEW r \in Requests,
                      SalaryAcl(asked[r]) \/ "unsupported" \in asked[r].hits
               PROVE  /\ calls[r] = 0
                      /\ Done(r) => \/ plan[r].shape = "refuse"
                                    \/ mode[r] \in Elements(Escapes \o PendingReplies)
    BY DEF RefusedNeverSent
  <2>1. Hit(asked[r], "salary_acl") \/ Hit(asked[r], "unsupported")
    BY DEF Hit
  <2>2. Guard(asked[r]) \in Elements(Escapes \o PendingReplies) \cup Elements(Refusals)
    BY <2>1, GuardFires
  <2>3. Guard(asked[r]) # "none"
    <3>1. "none" \notin Names /\ Elements(Refusals) \subseteq Names
      BY GuardsAre DEF Names
    <3>2. QED
      BY <2>2, <3>1, GuardsAre
  <2>4. calls[r] = 0 /\ (Done(r) => plan[r] = GuardPlan(asked[r]) /\ mode[r] = Guard(asked[r]))
    BY <2>3 DEF IInv, GuardedInv, Done
  <2>5. Guard(asked[r]) \in Elements(Refusals) => GuardPlan(asked[r]).shape = "refuse"
    <3>1. Guard(asked[r]) \in Elements(Refusals) => GuardPlan(asked[r]) = Fresh("refuse")
      BY GuardsAre DEF GuardPlan, Asks, MayAsk, BoundPerson
    <3>2. QED
      BY <3>1 DEF Fresh
  <2>6. QED
    BY <2>2, <2>4, <2>5
<1>2. QED
  BY InitInv, StepInv, <1>1, PTL DEF Spec

(* Whatever the model selects, and however often it is asked to repair it, *)
(* a write is let through only with the confidence of a write, and marked  *)
(* as confirmed where confirmations are on.                                *)
THEOREM WritesAreSure == Spec => []SelectedWritesAreSure
<1>1. IInv => SelectedWritesAreSure
  BY DEF IInv, AnswerInv, SelectedWritesAreSure
<1>2. QED
  BY InitInv, StepInv, <1>1, PTL DEF Spec

(* No residual planner answers a fresh question from the people of earlier *)
(* ones; what of one of them passes the lint is a name that the question   *)
(* does not contradict, or an id where it looks up a name.                 *)
THEOREM FreshAnswers == Spec => []FreshStaysFresh
<1>1. IInv => FreshStaysFresh
  BY DEF IInv, AnswerInv, FreshStaysFresh, Done, Apart
<1>2. QED
  BY InitInv, StepInv, <1>1, PTL DEF Spec

(* Requests share the compiler's attributes and do not mix their           *)
(* selections up, however they interleave.                                 *)
THEOREM SelectionsAreOwn == Spec => []SelectionIsMine
<1>1. IInv => SelectionIsMine
  BY DEF IInv, AnswerInv, SelectionIsMine, Done
<1>2. QED
  BY InitInv, StepInv, <1>1, PTL DEF Spec

(* No question costs more completions than the selections, the slots, a    *)
(* plan and its retry.                                                     *)
THEOREM CallsAreBounded == Spec => []CallsBounded
<1>1. IInv => CallsBounded
  <2> SUFFICES ASSUME IInv, NEW r \in Requests PROVE calls[r] <= MaxRepairs + 1 + 3
    BY DEF CallsBounded
  <2>1. calls[r] \in Nat /\ calls[r] <= MaxRepairs + 4
    BY DEF IInv, RequestInv
  <2>2. QED
    BY <2>1, CompilerAssumption
<1>2. QED
  BY InitInv, StepInv, <1>1, PTL DEF Spec

-----------------------------------------------------------------------------
(* Types *)
LEMMA ShapesArePlans ==
    /\ \A p \in {"none", "read", "write", "sure_write", "clarify", "confirm", "refuse"} :
          Fresh(p) \in Plan
    /\ Drafts \subseteq Plan
    /\ \A b : SlotPlan(b) \in Plan
    /\ \A q : GuardPlan(q) \in Plan /\ LegacyPlan(q) \in Plan
<1>1. \A p \in {"none", "read", "write", "sure_write", "clarify", "confirm", "refuse"} :
         Fresh(p) \in Plan
  BY DEF Fresh, Plan, Shapes, Scopes
<1>2. Drafts \subseteq Plan
  BY <1>1, CompilerAssumption DEF Draft, Plan, Shapes
<1>3. ASSUME NEW b PROVE PersonPlan(b) \in Plan
  <2>1. \A shape \in {"read", "write"}, scope \in Scopes : [shape |-> shape, scope |-> scope] \in Plan
    BY DEF Plan, Shapes
  <2>2. {"fresh", "chained", "named", "by_id", "target"} \subseteq Scopes
    BY DEF Scopes
  <2>3. QED
    BY <1>1, <2>1, <2>2 DEF PersonPlan, NoPlan
<1>4. ASSUME NEW b PROVE SlotPlan(b) \in Plan
  <2>1. PeopleScope(b) \in Scopes
    BY DEF PeopleScope, Scopes
  <2>2. [shape |-> "read", scope |-> PeopleScope(b)] \in Plan
    BY <2>1 DEF Plan, Shapes
  <2>3. QED
    BY <1>1, <1>3, <2>2 DEF SlotPlan, NoPlan
<1>5. ASSUME NEW q PROVE GuardPlan(q) \in Plan /\ LegacyPlan(q) \in Plan
  BY <1>1 DEF GuardPlan, LegacyPlan, NoPlan
<1>6. QED
  BY <1>1, <1>2, <1>4, <1>5

LEMMA DeliverType ==
    ASSUME TypeOK, NEW r \in Requests, NEW p \in Plan, NEW m \in Modes, Deliver(r, p, m),
           selectMeta' \in Meta, forceRepair' \in BOOLEAN, own' \in [Requests -> Meta]
    PROVE  TypeOK'
<1>1. "done" \in Phases
  BY DEF Phases
<1>2. QED
  BY <1>1 DEF Deliver, TypeOK, setup

LEMMA AwaitType ==
    ASSUME TypeOK, NEW r \in Requests, NEW p \in Phases, Awaits(r, p),
           selectMeta' \in Meta, forceRepair' \in BOOLEAN, own' \in [Requests -> Meta],
           attempt' \in [Requests -> 0..MaxRepairs], probe' \in [Requests -> BOOLEAN]
    PROVE  TypeOK'
<1>1. calls' \in [Requests -> Nat] /\ phase' \in [Requests -> Phases]
  BY DEF Awaits, TypeOK
<1>2. UNCHANGED <<cfg, asked, plan, mode, meta>>
  BY DEF Awaits, setup, answer
<1>3. QED
  BY <1>1, <1>2 DEF TypeOK

LEMMA LegacyModeType ==
    ASSUME TypeOK, NEW r \in Requests
    PROVE  LegacyMode(asked[r], cfg) \in Modes
<1>1. asked[r].legacy \in Legacy
  BY CompilerAssumption DEF TypeOK, Question
<1>2. QED
  BY <1>1 DEF LegacyMode, Legacy, Modes

LEMMA SelectedType ==
    ASSUME TypeOK, NEW r \in Requests, NEW p \in Plan, NEW m \in Selects,
           NEW o \in Meta, NEW weak, Selected(r, p, m, o, weak)
    PROVE  TypeOK'
<1>1. /\ own' \in [Requests -> Meta] /\ selectMeta' \in Meta /\ forceRepair' \in BOOLEAN
      /\ m \in Modes /\ "slots" \in Phases
  BY DEF Selected, TypeOK, Modes, Phases
<1>2. CASE Deliver(r, LegacyPlan(asked[r]), LegacyMode(asked[r], cfg))
  BY <1>1, <1>2, ShapesArePlans, LegacyModeType, DeliverType
<1>3. CASE Deliver(r, p, m)
  BY <1>1, <1>3, DeliverType
<1>4. CASE Awaits(r, "slots") /\ UNCHANGED <<attempt, probe>>
  BY <1>1, <1>4, AwaitType DEF TypeOK
<1>5. QED
  BY <1>2, <1>3, <1>4 DEF Selected

LEMMA BeginType ==
    ASSUME TypeOK, NEW r \in Requests, Begin(r)
    PROVE  TypeOK'
<1>1. asked[r] \in Question /\ asked[r].force \in BOOLEAN
  BY CompilerAssumption DEF TypeOK, Question
<1>2. NoMeta \in Meta
  BY CompilerAssumption DEF NoMeta, Meta
<1>3. own' \in [Requests -> Meta] /\ selectMeta' \in Meta /\ forceRepair' \in BOOLEAN
  BY <1>1, <1>2 DEF TypeOK, Begin, GuardAnswers, LegacyAnswers, AskSelector, SkipSelector,
                    Unguarded, Starts
<1>4. CASE GuardAnswers(r)
  <2>1. Guard(asked[r]) \in Modes
    BY <1>4, GuardFires, GuardsAre DEF GuardAnswers, Modes
  <2>2. QED
    BY <1>3, <1>4, <2>1, ShapesArePlans, DeliverType DEF GuardAnswers
<1>5. CASE LegacyAnswers(r)
  BY <1>3, <1>5, ShapesArePlans, LegacyModeType, DeliverType DEF LegacyAnswers
<1>6. CASE AskSelector(r)
  BY <1>3, <1>6, AwaitType DEF AskSelector, TypeOK, Phases
<1>7. CASE SkipSelector(r)
  BY <1>3, <1>7, AwaitType DEF SkipSelector, TypeOK, Phases
<1>8. QED
  BY <1>4, <1>5, <1>6, <1>7 DEF Begin

LEMMA SelectorType ==
    ASSUME TypeOK, NEW r \in Requests, NEW s \in Selections \cup {Unreadable},
           \/ Reselect(r, s) \/ GiveUp(r, s)
           \/ s \in Selections /\ Accept(r, s)
    PROVE  TypeOK'
<1>1. /\ s.intent \in {"none", "read", "set_status", "clarify", "unknown"}
      /\ s.conf \in {"none", "low", "medium", "high"}
      /\ s \in Selections => CompileSelection(s) \in Plan /\ NeedsHitl(cfg, s) \in BOOLEAN
  <2>1. s.intent \in {"none", "read", "set_status", "clarify", "unknown"}
        /\ s.conf \in {"none", "low", "medium", "high"}
    BY CompilerAssumption DEF Selection, Unreadable
  <2>2. ASSUME s \in Selections PROVE CompileSelection(s) \in Plan
    <3>1. s.tools \in {"none", "read", "write", "sure_write", "clarify"}
      BY <2>2, CompilerAssumption DEF Selection
    <3>2. ExpandTools(s) \in Plan
      BY <3>1, ShapesArePlans DEF ExpandTools, NoPlan
    <3>3. ExpandIntent(s) \in Plan
      BY <3>2, ShapesArePlans DEF ExpandIntent
    <3>4. QED
      BY <3>3, ShapesArePlans DEF CompileSelection
  <2>3. cfg.hitl \in BOOLEAN
    BY CompilerAssumption DEF TypeOK, Setting
  <2>4. NeedsHitl(cfg, s) \in BOOLEAN
    BY <2>3 DEF NeedsHitl
  <2>5. QED
    BY <2>1, <2>2, <2>4
<1>2. CASE Reselect(r, s)
  <2>1. attempt' \in [Requests -> 0..MaxRepairs]
    BY <1>2, CompilerAssumption DEF Reselect, TypeOK
  <2>2. QED
    BY <1>2, <2>1, AwaitType DEF Reselect, TypeOK, Phases
<1>3. CASE GiveUp(r, s)
  <2> DEFINE o == [repairs |-> MaxRepairs, hitl |-> FALSE, intent |-> s.intent, conf |-> s.conf]
  <2>1. Selected(r, Fresh("clarify"), "tool_select_failed", o, FALSE)
    BY <1>3 DEF GiveUp
  <2>2. o \in Meta /\ "tool_select_failed" \in Selects /\ Fresh("clarify") \in Plan
    BY <1>1, ShapesArePlans, CompilerAssumption DEF Meta, Selects
  <2> HIDE DEF o
  <2>3. QED
    BY <2>1, <2>2, SelectedType
<1>4. CASE s \in Selections /\ Accept(r, s)
  <2> DEFINE hitl == NeedsHitl(cfg, s)
             o == [repairs |-> attempt[r], hitl |-> hitl, intent |-> s.intent, conf |-> s.conf]
             weak == s.intent = "unknown" /\ s.conf = "low"
             m == IF attempt[r] = 0 THEN "tool_select" ELSE "tool_select_repair"
  <2>1. o \in Meta
    BY <1>1, <1>4 DEF Meta, TypeOK
  <2>2. m \in Selects /\ "tool_select_hitl" \in Selects
    BY DEF Selects
  <2>3. \/ Selected(r, Fresh("confirm"), "tool_select_hitl", o, weak)
        \/ Selected(r, CompileSelection(s), m, o, weak)
    BY <1>4 DEF Accept
  <2> HIDE DEF o, m, weak, hitl
  <2>4. QED
    BY <1>1, <1>4, <2>1, <2>2, <2>3, ShapesArePlans, SelectedType
<1>5. QED
  BY <1>2, <1>3, <1>4

LEMMA ResidualType ==
    ASSUME TypeOK, NEW r \in Requests,
           \/ \E b \in Bundles : SlotsAnswer(r, b)
           \/ \E p \in Drafts : PlannerAnswers(r, p) \/ StrippedAnswers(r, p)
           \/ SlotsMiss(r) \/ Strip(r) \/ AskBack(r)
    PROVE  TypeOK'
<1>1. own' \in [Requests -> Meta] /\ selectMeta' \in Meta /\ forceRepair' \in BOOLEAN
  BY DEF SlotsAnswer, PlannerAnswers, StrippedAnswers, SlotsMiss, Strip, AskBack, Shared,
         TypeOK
<1>2. Residual \subseteq Modes
  BY DEF Modes
<1>3. ASSUME NEW b \in Bundles, SlotsAnswer(r, b) PROVE TypeOK'
  BY <1>1, <1>2, <1>3, ShapesArePlans, DeliverType DEF SlotsAnswer, Residual
<1>4. ASSUME NEW p \in Drafts, PlannerAnswers(r, p) \/ StrippedAnswers(r, p) PROVE TypeOK'
  BY <1>1, <1>2, <1>4, ShapesArePlans, DeliverType
     DEF PlannerAnswers, StrippedAnswers, Residual
<1>5. CASE SlotsMiss(r) \/ Strip(r)
  BY <1>1, <1>5, AwaitType DEF SlotsMiss, Strip, TypeOK, Phases
<1>6. CASE AskBack(r)
  BY <1>1, <1>2, <1>6, ShapesArePlans, DeliverType DEF AskBack, Residual
<1>7. QED
  BY <1>3, <1>4, <1>5, <1>6

LEMMA TypeStep == TypeOK /\ [Next]_vars => TypeOK'
<1> SUFFICES ASSUME TypeOK, [Next]_vars PROVE TypeOK'
  OBVIOUS
<1>1. ASSUME NEW r \in Requests, Begin(r) PROVE TypeOK'
  BY <1>1, BeginType
<1>2. ASSUME NEW r \in Requests, ModelReturns(r) PROVE TypeOK'
  <2>1. CASE Breaks(r)
    BY <2>1 DEF Breaks, TypeOK, Phases, setup, answer, Shared
  <2>2. CASE \E s \in Selections \cup {Unreadable} : Reselect(r, s) \/ GiveUp(r, s)
    BY <2>2, SelectorType
  <2>3. CASE \E s \in Selections : Accept(r, s)
    BY <2>3, SelectorType
  <2>4. QED
    BY <1>2, <2>1, <2>2, <2>3, ResidualType DEF ModelReturns
<1>3. CASE UNCHANGED vars
  BY <1>3 DEF vars, TypeOK
<1>4. QED
  BY <1>1, <1>2, <1>3 DEF Next

(* Every variable has its type. *)
THEOREM TypeCorrect == Spec => []TypeOK
<1>1. Init => TypeOK
  <2>1. NoMeta \in Meta /\ NoPlan \in Plan /\ 0 \in 0..MaxRepairs
    BY ShapesArePlans, CompilerAssumption DEF NoMeta, Meta, NoPlan
  <2>2. "new" \in Phases /\ "none" \in Modes
    BY DEF Phases, Modes
  <2>3. ASSUME Init
        PROVE  /\ phase \in [Requests -> Phases] /\ attempt \in [Requests -> 0..MaxRepairs]
               /\ probe \in [Requests -> BOOLEAN] /\ calls \in [Requests -> Nat]
    BY <2>1, <2>2, <2>3 DEF Init
  <2>4. ASSUME Init
        PROVE  /\ plan \in [Requests -> Plan] /\ mode \in [Requests -> Modes]
               /\ meta \in [Requests -> Meta] /\ own \in [Requests -> Meta]
    BY <2>1, <2>2, <2>4 DEF Init
  <2>5. ASSUME Init
        PROVE  cfg \in Settings /\ asked \in [Requests -> Questions]
               /\ forceRepair \in BOOLEAN /\ selectMeta \in Meta
    BY <2>1, <2>5 DEF Init
  <2>6. QED
    BY <2>3, <2>4, <2>5 DEF TypeOK
<1>2. QED
  BY <1>1, TypeStep, PTL DEF Spec
=============================================================================
