--------------------------- MODULE QueryCacheProofs ---------------------------
(* Salaries and drafts, for any employees, callers, cached answers and     *)
(* statements of the model.                                                *)
EXTENDS QueryCache, FiniteSetTheorems, TLAPS

Fields == {"pc", "who", "asked", "statement", "drafts", "answer", "ended"}

(* What the database lets somebody see. *)
Home(a, who) == a.rows \subseteq Visible(who)

Permissions(who) == <<who.tenant, who.role, who.dept, who.self>>

(* How often the model has been asked. *)
DraftInv(r) ==
    /\ r.pc \in {"idle", "ready", "missed", "read", "asking", "failed"} => r.drafts = 0
    /\ r.pc = "drafted" => r.drafts \in {1, 2}
    /\ r.pc = "repairing" => r.drafts = 1
    /\ r.pc = "done" => r.drafts \in {0, 1, 2}

(* A draft that was run for somebody, and what it showed. *)
Ran(s, who, shown) ==
    /\ s.verb = "select" /\ s.tables \subseteq {"employees"}
    /\ s.columns \subseteq Allowed(who)
    /\ ~s.functions => shown.columns \subseteq s.columns /\ Home(shown, who)
    /\ Bounded(s) => Cardinality(shown.rows) <= MaxRows

RanInv(r) ==
    r.pc = "done" /\ r.drafts > 0 => Ran(r.statement, r.who, r.answer)

RecordInv(r) ==
    /\ DOMAIN r = Fields
    /\ r.pc \in Busy \cup {"idle", "done", "failed"}
    /\ r.pc \in Busy \cup {"done"} => r.who \in Principals /\ CanUse(r.who)
    /\ r.pc \in {"read", "done"} => r.answer.rows \subseteq Employees
    /\ r.pc = "read" \/ (r.pc = "done" /\ r.drafts = 0) => Home(r.answer, r.who)
    /\ DraftInv(r) /\ RanInv(r)

(* An entry may be given to whoever has the permissions of its key. *)
CacheInv ==
    \A k \in DOMAIN cache, who \in Principals :
        k.permissions = Permissions(who) => Home(cache[k].data, who)

IInv ==
    /\ DOMAIN calls = Calls
    /\ \A c \in Calls : RecordInv(calls[c])
    /\ CacheInv

-----------------------------------------------------------------------------
(* The rows of every answer are visible, whatever the shape of the query.  *)
LEMMA AnswersAreVisible ==
    ASSUME NEW s, NEW who, NEW d, NEW a \in Answers(s, who, d)
    PROVE  Home(a, who)
<1> DEFINE found == {e \in Visible(who) : Meets(s, e, d)}
<1>1. found \subseteq Visible(who)
  OBVIOUS
<1>2. CASE s.shape = "list"
  <2>1. PICK R \in Cut(found, s.limit) : a = Table(R, s, d)
    BY <1>2 DEF Answers
  <2>2. a.rows = R
    BY <2>1 DEF Table, NoRows
  <2>3. QED
    BY <1>1, <2>2 DEF Home, Cut
<1>3. CASE s.shape \in {"count", "distinct", "count_distinct"}
  <2>1. a.rows = {}
    BY <1>3 DEF Answers, NoRows
  <2>2. QED
    BY <2>1 DEF Home
<1>4. CASE s.shape = "longest_tenured"
  <2>1. a.rows = Longest(found, s.limit)
    BY <1>4 DEF Answers, NoRows
  <2>2. QED
    BY <1>1, <2>1 DEF Home, Longest
<1>5. CASE s.shape \notin {"list", "count", "distinct", "count_distinct", "longest_tenured"}
  <2>1. a.rows = found
    BY <1>5 DEF Answers, NoRows
  <2>2. QED
    BY <1>1, <2>1 DEF Home
<1>6. QED
  BY <1>2, <1>3, <1>4, <1>5

(* So are those of a draft without functions; and they are no more than a  *)
(* list may have, if the limit is seen.                                    *)
LEMMA ReadsAreBounded ==
    ASSUME NEW s, NEW who, NEW a \in Reads(s, who)
    PROVE  /\ a.rows \subseteq Employees
           /\ ~s.functions => Home(a, who) /\ a.columns = s.columns
           /\ Bounded(s) => Cardinality(a.rows) <= MaxRows
<1> DEFINE n == IF s.limit = "one" THEN 1
                ELSE IF Bounded(s) THEN MaxRows ELSE Cardinality(Employees)
<1>1. n \in Nat /\ (Bounded(s) => n <= MaxRows)
  BY CacheAssumption, FS_CardinalityType
<1>2. PICK E \in SUBSET Employees, R \in SUBSET Employees :
         /\ R \in Cut(E, n) /\ a.rows = R
         /\ ~s.functions => E = Visible(who) /\ a.columns = s.columns
  <2>1. Visible(who) \in SUBSET Employees
    BY DEF Visible
  <2>2. PICK R \in RowsRead(s, who), C \in ColumnsRead(s) :
           a = [NoRows EXCEPT !.rows = R, !.columns = C]
    BY DEF Reads
  <2>3. a.rows = R /\ a.columns = C
    BY <2>2 DEF NoRows
  <2>4. PICK E \in SUBSET Employees : R \in Cut(E, n) /\ (~s.functions => E = Visible(who))
    BY <2>1, <2>2 DEF RowsRead
  <2>5. ~s.functions => C = s.columns
    BY <2>2 DEF ColumnsRead
  <2>6. R \in SUBSET E
    BY <2>4 DEF Cut
  <2>7. QED
    BY <2>3, <2>4, <2>5, <2>6
<1> HIDE DEF n
<1>3. R \subseteq E /\ Cardinality(R) = AtMost(Cardinality(E), n)
  BY <1>2 DEF Cut
<1>4. Cardinality(E) \in Nat
  BY CacheAssumption, FS_Subset, FS_CardinalityType
<1>5. Bounded(s) => AtMost(Cardinality(E), n) <= MaxRows
  BY <1>1, <1>4, CacheAssumption DEF AtMost
<1>6. QED
  BY <1>2, <1>3, <1>5 DEF Home

LEMMA HomeIsEmployed ==
    ASSUME NEW a, NEW who, Home(a, who)
    PROVE  a.rows \subseteq Employees
  BY DEF Home, Visible

(* Equal permissions, equal rows. *)
LEMMA PermissionsDecide ==
    ASSUME NEW v, NEW w, Permissions(v) = Permissions(w)
    PROVE  Visible(v) = Visible(w)
<1>1. v.tenant = w.tenant /\ v.role = w.role /\ v.dept = w.dept /\ v.self = w.self
  BY DEF Permissions
<1>2. QED
  BY <1>1 DEF Visible

-----------------------------------------------------------------------------
THEOREM InitInv == Init => IInv
  BY DEF Init, IInv, RecordInv, DraftInv, RanInv, CacheInv, Idle, Fields, Busy

(* One call changed, and the cache is as it was. *)
LEMMA OneCall ==
    ASSUME IInv, NEW c \in Calls, NEW r, RecordInv(r),
           calls' = [calls EXCEPT ![c] = r], UNCHANGED cache
    PROVE  IInv'
<1>1. DOMAIN calls' = Calls
  BY DEF IInv
<1>2. \A x \in Calls : calls'[x] = IF x = c THEN r ELSE calls[x]
  BY DEF IInv
<1>3. \A x \in Calls : RecordInv(calls'[x])
  BY <1>2 DEF IInv
<1>4. CacheInv'
  BY DEF IInv, CacheInv
<1>5. QED
  BY <1>1, <1>3, <1>4 DEF IInv

LEMMA AskInv ==
    ASSUME IInv, NEW who \in Principals, NEW turn \in Turns, Ask(who, turn)
    PROVE  IInv'
<1>1. RecordInv(Idle) /\ RecordInv(Failed)
  BY DEF RecordInv, DraftInv, RanInv, Idle, Failed, Fields, Busy
<1>2. ASSUME NEW p PROVE RecordInv(Begun(who, p))
  <2>1. CASE ~CanUse(who) \/ (p.mode = "constrained" /\ Raises(p.params, who))
    BY <1>1, <2>1 DEF Begun
  <2>2. CASE /\ ~(~CanUse(who) \/ (p.mode = "constrained" /\ Raises(p.params, who)))
             /\ p.mode = "constrained"
    <3> DEFINE s == Build(p.params, who)
    <3>1. Begun(who, p) = [Idle EXCEPT !.who = who, !.asked = now, !.pc = "ready",
                                       !.statement = s]
      BY <2>2 DEF Begun
    <3> HIDE DEF s
    <3>2. QED
      BY <2>2, <3>1 DEF RecordInv, DraftInv, RanInv, Idle, Fields, Busy
  <2>3. CASE /\ ~(~CanUse(who) \/ (p.mode = "constrained" /\ Raises(p.params, who)))
             /\ p.mode # "constrained"
    <3>1. Begun(who, p) = [Idle EXCEPT !.who = who, !.asked = now, !.pc = "asking"]
      BY <2>3 DEF Begun
    <3>2. QED
      BY <2>3, <3>1 DEF RecordInv, DraftInv, RanInv, Idle, Fields, Busy
  <2>4. QED
    BY <2>1, <2>2, <2>3
<1>3. \A c \in Calls : \/ calls'[c] = Idle
                       \/ \E p : calls'[c] = Begun(who, p)
  BY DEF Ask
<1>4. \A c \in Calls : RecordInv(calls'[c])
  BY <1>1, <1>2, <1>3
<1>5. DOMAIN calls' = Calls /\ UNCHANGED cache
  BY DEF Ask
<1>6. QED
  BY <1>4, <1>5 DEF IInv, CacheInv

LEMMA HitInv ==
    ASSUME IInv, NEW c \in Calls, Hit(c)
    PROVE  IInv'
<1> DEFINE a == cache[KeyOf(c)].data
           r == [calls[c] EXCEPT !.pc = "done", !.answer = a, !.ended = now]
<1>1. calls[c].pc = "ready" /\ KeyOf(c) \in DOMAIN cache /\ RecordInv(calls[c])
  BY DEF Hit, IInv
<1>2. calls[c].who \in Principals /\ CanUse(calls[c].who) /\ calls[c].drafts = 0
  BY <1>1 DEF RecordInv, Busy, DraftInv
<1>3. KeyOf(c).permissions = Permissions(calls[c].who)
  BY DEF KeyOf, Key, Permissions
<1>4. Home(a, calls[c].who)
  BY <1>1, <1>2, <1>3 DEF IInv, CacheInv
<1>5. calls' = [calls EXCEPT ![c] = r] /\ UNCHANGED cache
  BY DEF Hit, Finish
<1> HIDE DEF a
<1>6. RecordInv(r)
  BY <1>1, <1>2, <1>4, HomeIsEmployed DEF RecordInv, DraftInv, RanInv, Fields, Busy
<1>7. QED
  BY <1>5, <1>6, OneCall

LEMMA MissInv ==
    ASSUME IInv, NEW c \in Calls, Miss(c)
    PROVE  IInv'
<1> DEFINE r == [calls[c] EXCEPT !.pc = "missed"]
<1>1. calls[c].pc = "ready" /\ RecordInv(calls[c])
  BY DEF Miss, IInv
<1>2. calls' = [calls EXCEPT ![c] = r] /\ UNCHANGED cache
  BY DEF Miss, Becomes
<1>3. RecordInv(r)
  BY <1>1 DEF RecordInv, DraftInv, RanInv, Fields, Busy
<1>4. QED
  BY <1>2, <1>3, OneCall

LEMMA ExecuteInv ==
    ASSUME IInv, NEW c \in Calls, Execute(c)
    PROVE  IInv'
<1>1. calls[c].pc = "missed" /\ RecordInv(calls[c])
  BY DEF Execute, IInv
<1>2. PICK a \in Answers(calls[c].statement, calls[c].who, db) :
         calls' = [calls EXCEPT ![c].pc = "read", ![c].answer = a]
  BY DEF Execute
<1> DEFINE r == [calls[c] EXCEPT !.pc = "read", !.answer = a]
<1>3. Home(a, calls[c].who)
  BY <1>2, AnswersAreVisible
<1>4. RecordInv(r)
  BY <1>1, <1>3, HomeIsEmployed DEF RecordInv, DraftInv, RanInv, Fields, Busy
<1>5. calls' = [calls EXCEPT ![c] = r] /\ UNCHANGED cache
  BY <1>2 DEF Execute
<1>6. QED
  BY <1>4, <1>5, OneCall

LEMMA StoreInv ==
    ASSUME IInv, NEW c \in Calls, Store(c)
    PROVE  IInv'
<1> DEFINE who == calls[c].who
           r == [calls[c] EXCEPT !.pc = "done", !.answer = calls[c].answer, !.ended = now]
<1>1. calls[c].pc = "read" /\ RecordInv(calls[c])
  BY DEF Store, IInv
<1>2. Home(calls[c].answer, who) /\ who \in Principals
  BY <1>1 DEF RecordInv, Busy
<1>3. RecordInv(r)
  BY <1>1, <1>2, HomeIsEmployed DEF RecordInv, DraftInv, RanInv, Fields, Busy
<1>4. /\ DOMAIN calls' = Calls
      /\ \A x \in Calls : RecordInv(calls'[x])
  <2>1. calls' = [calls EXCEPT ![c] = r]
    BY DEF Store, Finish
  <2> HIDE DEF r
  <2>2. QED
    BY <1>3, <2>1 DEF IInv
<1>5. KeyOf(c).permissions = Permissions(who)
  BY DEF KeyOf, Key, Permissions
<1>6. /\ DOMAIN cache' = DOMAIN cache \cup {KeyOf(c)}
      /\ cache'[KeyOf(c)].data = calls[c].answer
      /\ \A k \in DOMAIN cache \ {KeyOf(c)} : cache'[k] = cache[k]
  BY DEF Store
<1>7. ASSUME NEW k \in DOMAIN cache', NEW w \in Principals, k.permissions = Permissions(w)
      PROVE  Home(cache'[k].data, w)
  <2>1. CASE k = KeyOf(c)
    <3>1. Visible(w) = Visible(who)
      BY <1>5, <1>7, <2>1, PermissionsDecide
    <3>2. QED
      BY <1>2, <1>6, <2>1, <3>1 DEF Home
  <2>2. CASE k # KeyOf(c)
    BY <1>6, <1>7, <2>2 DEF IInv, CacheInv
  <2>3. QED
    BY <2>1, <2>2
<1>8. CacheInv'
  BY <1>7 DEF CacheInv
<1>9. QED
  BY <1>4, <1>8 DEF IInv

LEMMA DraftKeeps ==
    ASSUME IInv, NEW c \in Calls, NEW s, Draft(c, s)
    PROVE  IInv'
<1> DEFINE r == [calls[c] EXCEPT !.pc = "drafted", !.statement = s,
                                 !.drafts = calls[c].drafts + 1]
<1>1. calls[c].pc \in {"asking", "repairing"} /\ RecordInv(calls[c])
  BY DEF Draft, IInv
<1>2. calls[c].drafts \in {0, 1}
  BY <1>1 DEF RecordInv, DraftInv
<1>3. RecordInv(r)
  <2>1. DOMAIN r = Fields /\ r.pc = "drafted" /\ r.who = calls[c].who
    BY <1>1 DEF RecordInv, Fields
  <2>2. r.drafts \in {1, 2}
    BY <1>1, <1>2 DEF RecordInv, Fields
  <2>3. r.who \in Principals /\ CanUse(r.who)
    BY <1>1, <2>1 DEF RecordInv, Busy
  <2> HIDE DEF r
  <2>4. QED
    BY <2>1, <2>2, <2>3 DEF RecordInv, DraftInv, RanInv, Busy
<1>4. calls' = [calls EXCEPT ![c] = r] /\ UNCHANGED cache
  BY DEF Draft
<1>5. QED
  BY <1>3, <1>4, OneCall

LEMMA RunDraftInv ==
    ASSUME IInv, NEW c \in Calls, RunDraft(c)
    PROVE  IInv'
<1>1. /\ calls[c].pc = "drafted" /\ RecordInv(calls[c])
      /\ Valid(calls[c].statement, calls[c].who) /\ Executable(calls[c].statement)
  BY DEF RunDraft, IInv
<1>2. PICK a \in Reads(calls[c].statement, calls[c].who) : Finish(c, a)
  BY DEF RunDraft
<1> DEFINE r == [calls[c] EXCEPT !.pc = "done", !.answer = a, !.ended = now]
<1>3. /\ a.rows \subseteq Employees
      /\ ~calls[c].statement.functions =>
            Home(a, calls[c].who) /\ a.columns = calls[c].statement.columns
      /\ Bounded(calls[c].statement) => Cardinality(a.rows) <= MaxRows
  BY <1>2, ReadsAreBounded
<1>4. CanUse(calls[c].who) /\ calls[c].who \in Principals /\ calls[c].drafts \in {1, 2}
  BY <1>1 DEF RecordInv, Busy, DraftInv
<1>5. calls[c].statement.columns \subseteq Allowed(calls[c].who)
  <2>1. calls[c].statement.columns \subseteq Allowed(calls[c].who) \cup {"id", "count"}
    BY <1>1 DEF Valid
  <2>2. calls[c].statement.columns \subseteq BaseColumns \cup Sensitive
    BY <1>1 DEF Executable
  <2>3. "count" \notin BaseColumns \cup Sensitive /\ "id" \in Allowed(calls[c].who)
    BY DEF BaseColumns, Sensitive, Allowed
  <2>4. QED
    BY <2>1, <2>2, <2>3
<1>6. RecordInv(r)
  <2>1. /\ DOMAIN r = Fields /\ r.pc = "done" /\ r.who = calls[c].who
        /\ r.drafts = calls[c].drafts /\ r.answer = a /\ r.statement = calls[c].statement
    BY <1>1 DEF RecordInv, Fields
  <2> HIDE DEF r
  <2>2. RanInv(r)
    BY <1>1, <1>3, <1>5, <2>1 DEF RanInv, Ran, Valid
  <2>3. QED
    BY <1>3, <1>4, <2>1, <2>2 DEF RecordInv, DraftInv, Busy
<1>7. calls' = [calls EXCEPT ![c] = r] /\ UNCHANGED cache
  BY <1>2 DEF RunDraft, Finish
<1>8. QED
  BY <1>6, <1>7, OneCall

LEMMA BounceInv ==
    ASSUME IInv, NEW c \in Calls, Bounce(c)
    PROVE  IInv'
<1> DEFINE r == IF calls[c].drafts > 1 THEN Failed
                ELSE [calls[c] EXCEPT !.pc = "repairing", !.statement = None]
<1>1. calls[c].pc = "drafted" /\ RecordInv(calls[c])
  BY DEF Bounce, IInv
<1>2. RecordInv(r)
  <2>1. CASE calls[c].drafts > 1
    BY <2>1 DEF RecordInv, DraftInv, RanInv, Idle, Failed, Fields, Busy
  <2>2. CASE ~(calls[c].drafts > 1)
    <3>1. calls[c].drafts = 1 /\ calls[c].who \in Principals /\ CanUse(calls[c].who)
      BY <1>1, <2>2 DEF RecordInv, DraftInv, Busy
    <3>2. /\ DOMAIN r = Fields /\ r.pc = "repairing" /\ r.drafts = 1
          /\ r.who = calls[c].who
      BY <1>1, <2>2, <3>1 DEF RecordInv, Fields
    <3> HIDE DEF r
    <3>3. QED
      BY <3>1, <3>2 DEF RecordInv, DraftInv, RanInv, Busy
  <2>3. QED
    BY <2>1, <2>2
<1>3. calls' = [calls EXCEPT ![c] = r] /\ UNCHANGED cache
  BY DEF Bounce
<1>4. QED
  BY <1>2, <1>3, OneCall

LEMMA FailInv ==
    ASSUME IInv, NEW c \in Calls, Fail(c)
    PROVE  IInv'
<1>1. RecordInv(Failed)
  BY DEF RecordInv, DraftInv, RanInv, Idle, Failed, Fields, Busy
<1>2. QED
  BY <1>1, OneCall DEF Fail

(* Entries are only forgotten. *)
LEMMA TickInv ==
    ASSUME IInv, Tick
    PROVE  IInv'
<1>1. /\ DOMAIN cache' \subseteq DOMAIN cache
      /\ \A k \in DOMAIN cache' : cache'[k] = cache[k]
  BY DEF Tick
<1>2. CacheInv'
  BY <1>1 DEF IInv, CacheInv
<1>3. QED
  BY <1>2 DEF Tick, IInv

-----------------------------------------------------------------------------
THEOREM StepInv == IInv /\ [Next]_vars => IInv'
<1> SUFFICES ASSUME IInv, [Next]_vars PROVE IInv'
  OBVIOUS
<1>1. CASE \E who \in Principals, turn \in Turns : Ask(who, turn)
  BY <1>1, AskInv
<1>2. CASE \E c \in Calls :
             Hit(c) \/ Miss(c) \/ Execute(c) \/ Store(c) \/ RunDraft(c) \/ Bounce(c) \/ Fail(c)
  BY <1>2, HitInv, MissInv, ExecuteInv, StoreInv, RunDraftInv, BounceInv, FailInv
<1>3. CASE \E c \in Calls, s \in Drafts : Draft(c, s)
  BY <1>3, DraftKeeps
<1>4. CASE \E e \in Employees : SetStatus(e)
  BY <1>4 DEF SetStatus, IInv, CacheInv
<1>5. CASE Tick
  BY <1>5, TickInv
<1>6. CASE UNCHANGED vars
  BY <1>6 DEF vars, IInv, CacheInv
<1>7. QED
  BY <1>1, <1>2, <1>3, <1>4, <1>5, <1>6 DEF Next

(* A salary in an answer, cached or not, built or drafted without          *)
(* functions, is of the rows that the asker may see: of a recruiter's      *)
(* tenant, or of a manager's department in it.                             *)
THEOREM SalariesAreSafe == Spec => []SalariesStayHome
<1>1. IInv => SalariesStayHome
  <2> SUFFICES ASSUME IInv, NEW c \in Calls, calls[c].pc = "done",
                      calls[c].drafts > 0 => ~calls[c].statement.functions,
                      NEW e \in calls[c].answer.rows
               PROVE  /\ Record[e].tenant = calls[c].who.tenant
                      /\ \/ calls[c].who.role = "recruiter"
                         \/ /\ calls[c].who.role = "manager"
                            /\ Record[e].dept = calls[c].who.dept
    BY DEF SalariesStayHome
  <2>1. e \in Visible(calls[c].who) /\ CanUse(calls[c].who)
    BY DEF IInv, RecordInv, DraftInv, RanInv, Ran, Home
  <2>2. QED
    BY <2>1 DEF Visible, CanUse
<1>2. QED
  BY InitInv, StepInv, <1>1, PTL DEF Spec

(* What a model wrote, in the first draft or in the repair, is run only as *)
(* a SELECT from the employees of columns that the asker may see; what it  *)
(* shows is these, of rows the asker may see, unless it calls functions,   *)
(* and bounded, unless a comment hides the limit.                          *)
THEOREM DraftsAreSafe == Spec => []DraftsAreChecked
<1>1. IInv => DraftsAreChecked
  <2> SUFFICES ASSUME IInv, NEW c \in Calls
               PROVE  /\ calls[c].drafts <= 2
                      /\ calls[c].drafts > 0 /\ calls[c].pc = "done" =>
                            Ran(calls[c].statement, calls[c].who, calls[c].answer)
    BY DEF DraftsAreChecked, Ran, Home
  <2>1. RecordInv(calls[c])
    BY DEF IInv
  <2>2. calls[c].drafts \in {0, 1, 2}
    BY <2>1 DEF RecordInv, DraftInv, Busy
  <2>3. QED
    BY <2>1, <2>2 DEF RecordInv, RanInv
<1>2. QED
  BY InitInv, StepInv, <1>1, PTL DEF Spec

-----------------------------------------------------------------------------
(* Recent answers: when the table was as an answer has it.  The time n and *)
(* the states h held until then are parameters, so that one lemma says     *)
(* what time does to an answer.                                            *)
Fits(h, t, a, s, who) == \E d \in h[t] : a \in Answers(s, who, d)

(* A call reads within its time-out.  What it was given from the cache may *)
(* be older by the life of an entry and the time-out of whoever stored it. *)
TimeInv(r, n, h) ==
    /\ r.answer.rows \subseteq Employees
    /\ r.pc \in Busy => r.asked \in 0..n /\ n <= r.asked + Timeout
    /\ r.pc = "read" => \E t \in r.asked..n : Fits(h, t, r.answer, r.statement, r.who)
    /\ r.pc = "done" /\ r.drafts = 0 =>
          \E t \in 0..n : /\ t + TTL + Timeout > r.asked /\ t <= r.ended
                          /\ Fits(h, t, r.answer, r.statement, r.who)

KeptInv(k, e, n, h) ==
    /\ e.expires \in (n + 1)..(n + TTL)
    /\ \E t \in 0..n :
          /\ t + TTL + Timeout >= e.expires
          /\ \A who \in Principals :
                k.permissions = Permissions(who) => Fits(h, t, e.data, k.query, who)

WorldInv ==
    /\ now \in 0..Horizon /\ turns \in 0..MaxTurns /\ writes \in 0..MaxWrites
    /\ db \in DB /\ DOMAIN held = 0..Horizon /\ db \in held[now]
    /\ \A t \in 0..Horizon : held[t] \subseteq DB /\ (t > now => held[t] = {})

RInv ==
    /\ IInv /\ WorldInv
    /\ \A c \in Calls : TimeInv(calls[c], now, held)
    /\ \A k \in DOMAIN cache : KeptInv(k, cache[k], now, held)

(* Time passes and states are added: an answer keeps its time. *)
LEMMA AnswersStay ==
    ASSUME NEW n \in Nat, NEW m \in Nat, n <= m, NEW h, NEW g,
           \A t \in 0..n : h[t] \subseteq g[t]
    PROVE  /\ \A r : TimeInv(r, n, h) /\ (r.pc \in Busy => m <= r.asked + Timeout)
                        => TimeInv(r, m, g)
           /\ \A k, e : KeptInv(k, e, n, h) /\ e.expires > m => KeptInv(k, e, m, g)
<1>1. \A t \in 0..n : t \in 0..m
  OBVIOUS
<1>2. \A t \in 0..n : \A a, s, who : Fits(h, t, a, s, who) => Fits(g, t, a, s, who)
  BY DEF Fits
<1>3. ASSUME NEW r, TimeInv(r, n, h), r.pc \in Busy => m <= r.asked + Timeout
      PROVE  TimeInv(r, m, g)
  <2>1. r.pc \in Busy => r.asked \in 0..m /\ m <= r.asked + Timeout
    BY <1>1, <1>3 DEF TimeInv
  <2>2. CASE r.pc = "read"
    <3>1. r.asked \in 0..n
      BY <1>3, <2>2 DEF TimeInv, Busy
    <3>2. PICK t \in r.asked..n : Fits(h, t, r.answer, r.statement, r.who)
      BY <1>3, <2>2 DEF TimeInv
    <3>3. t \in 0..n /\ t \in r.asked..m
      BY <3>1
    <3>4. Fits(g, t, r.answer, r.statement, r.who)
      BY <1>2, <3>2, <3>3
    <3>5. QED
      BY <1>3, <2>1, <2>2, <3>3, <3>4 DEF TimeInv
  <2>3. CASE r.pc = "done" /\ r.drafts = 0
    <3>1. PICK t \in 0..n : /\ t + TTL + Timeout > r.asked /\ t <= r.ended
                            /\ Fits(h, t, r.answer, r.statement, r.who)
      BY <1>3, <2>3 DEF TimeInv
    <3>2. Fits(g, t, r.answer, r.statement, r.who) /\ t \in 0..m
      BY <1>1, <1>2, <3>1
    <3>3. QED
      BY <1>3, <2>1, <2>3, <3>1, <3>2 DEF TimeInv
  <2>4. QED
    BY <1>3, <2>1, <2>2, <2>3 DEF TimeInv
<1>4. ASSUME NEW k, NEW e, KeptInv(k, e, n, h), e.expires > m
      PROVE  KeptInv(k, e, m, g)
  <2>1. e.expires \in (m + 1)..(m + TTL)
    BY <1>4, CacheAssumption DEF KeptInv
  <2>2. QED
    BY <1>1, <1>2, <1>4, <2>1 DEF KeptInv
<1>5. QED
  BY <1>3, <1>4

(* Equal permissions, equal answers. *)
LEMMA PermissionsFit ==
    ASSUME NEW v, NEW w, Permissions(v) = Permissions(w),
           NEW h, NEW t, NEW a, NEW s, Fits(h, t, a, s, v)
    PROVE  Fits(h, t, a, s, w)
<1>1. Visible(v) = Visible(w)
  BY PermissionsDecide
<1>2. ASSUME NEW d PROVE Answers(s, v, d) = Answers(s, w, d)
  BY <1>1 DEF Answers
<1>3. QED
  BY <1>2 DEF Fits

LEMMA RecentInit == Init => RInv
<1> SUFFICES ASSUME Init PROVE RInv
  OBVIOUS
<1> USE CacheAssumption
<1>1. db \in DB
  BY DEF Init, DB
<1>2. WorldInv
  BY <1>1 DEF Init, WorldInv
<1>3. \A c \in Calls : TimeInv(calls[c], now, held)
  BY DEF Init, TimeInv, Idle, NoRows, Busy
<1>4. DOMAIN cache = {}
  BY DEF Init
<1>5. QED
  BY <1>2, <1>3, <1>4, InitInv DEF RInv

(* One call changed, and neither the table nor the cache. *)
LEMMA OneCallTime ==
    ASSUME RInv, IInv', NEW c \in Calls, NEW r, TimeInv(r, now, held),
           calls' = [calls EXCEPT ![c] = r], UNCHANGED <<World, cache, turns>>
    PROVE  RInv'
<1>1. \A x \in Calls : calls'[x] = IF x = c THEN r ELSE calls[x]
  BY DEF RInv, IInv
<1>2. now' = now /\ held' = held
  BY DEF World
<1>3. \A x \in Calls : TimeInv(calls'[x], now', held')
  BY <1>1, <1>2 DEF RInv
<1>4. WorldInv'
  BY DEF RInv, WorldInv, World
<1>5. \A k \in DOMAIN cache' : KeptInv(k, cache'[k], now', held')
  BY <1>2 DEF RInv
<1>6. QED
  BY <1>3, <1>4, <1>5 DEF RInv

LEMMA RecentAsk ==
    ASSUME RInv, IInv', NEW who \in Principals, NEW turn \in Turns, Ask(who, turn)
    PROVE  RInv'
<1>1. TimeInv(Idle, now, held) /\ TimeInv(Failed, now, held)
  BY DEF TimeInv, Idle, Failed, NoRows, Busy
<1>2. now \in Nat /\ now <= now + Timeout
  BY CacheAssumption DEF RInv, WorldInv
<1>3. ASSUME NEW p PROVE TimeInv(Begun(who, p), now, held)
  <2> DEFINE s == Build(p.params, who)
  <2>1. \/ Begun(who, p) = Failed
        \/ Begun(who, p) = [Idle EXCEPT !.who = who, !.asked = now, !.pc = "ready",
                                        !.statement = s]
        \/ Begun(who, p) = [Idle EXCEPT !.who = who, !.asked = now, !.pc = "asking"]
    BY DEF Begun
  <2> HIDE DEF s
  <2>2. \/ Begun(who, p) = Failed
        \/ /\ Begun(who, p).pc \in {"ready", "asking"}
           /\ Begun(who, p).asked = now /\ Begun(who, p).answer.rows = {}
    <3>1. CASE Begun(who, p) = Failed
      BY <3>1
    <3>2. CASE Begun(who, p) = [Idle EXCEPT !.who = who, !.asked = now, !.pc = "ready",
                                            !.statement = s]
      BY <3>2 DEF Idle, NoRows
    <3>3. CASE Begun(who, p) = [Idle EXCEPT !.who = who, !.asked = now, !.pc = "asking"]
      BY <3>3 DEF Idle, NoRows
    <3>4. QED
      BY <2>1, <3>1, <3>2, <3>3
  <2>3. now \in 0..now
    BY <1>2
  <2>4. QED
    BY <1>1, <1>2, <2>2, <2>3 DEF TimeInv, Busy
<1>4. \A c \in Calls : \/ calls'[c] = Idle
                       \/ \E p : calls'[c] = Begun(who, p)
  BY DEF Ask
<1>5. now' = now /\ held' = held /\ cache' = cache
  BY DEF Ask, World
<1>6. \A c \in Calls : TimeInv(calls'[c], now', held')
  BY <1>1, <1>3, <1>4, <1>5
<1>7. WorldInv'
  BY CacheAssumption DEF Ask, RInv, WorldInv, World
<1>8. QED
  BY <1>5, <1>6, <1>7 DEF RInv

LEMMA RecentHit ==
    ASSUME RInv, IInv', NEW c \in Calls, Hit(c)
    PROVE  RInv'
<1> DEFINE k == KeyOf(c)
           a == cache[k].data
           r == [calls[c] EXCEPT !.pc = "done", !.answer = a, !.ended = now]
<1>1. /\ calls[c].pc = "ready" /\ k \in DOMAIN cache
      /\ RecordInv(calls[c]) /\ TimeInv(calls[c], now, held)
      /\ KeptInv(k, cache[k], now, held)
  BY DEF Hit, RInv, IInv
<1>2. calls[c].who \in Principals /\ DOMAIN calls[c] = Fields
  BY <1>1 DEF RecordInv, Busy
<1>3. k.permissions = Permissions(calls[c].who) /\ k.query = calls[c].statement
  BY DEF KeyOf, Key, Permissions
<1>4. calls[c].asked \in 0..now /\ now \in Nat
  BY <1>1, CacheAssumption DEF TimeInv, Busy, RInv, WorldInv
<1>5. PICK t \in 0..now :
        /\ t + TTL + Timeout >= cache[k].expires
        /\ \A who \in Principals :
              k.permissions = Permissions(who) => Fits(held, t, a, k.query, who)
  BY <1>1 DEF KeptInv
<1>6. t + TTL + Timeout > calls[c].asked /\ t <= now
  <2>1. cache[k].expires \in (now + 1)..(now + TTL)
    BY <1>1 DEF KeptInv
  <2>2. QED
    BY <1>4, <1>5, <2>1, CacheAssumption
<1>7. Fits(held, t, a, calls[c].statement, calls[c].who)
  BY <1>2, <1>3, <1>5
<1>8. a.rows \subseteq Employees
  <2>1. Home(a, calls[c].who)
    BY <1>1, <1>2, <1>3 DEF RInv, IInv, CacheInv
  <2>2. QED
    BY <2>1 DEF Home, Visible
<1>9. calls' = [calls EXCEPT ![c] = r] /\ UNCHANGED <<World, cache, turns>>
  BY DEF Hit, Finish
<1>10. /\ r.pc = "done" /\ r.answer = a /\ r.asked = calls[c].asked /\ r.ended = now
       /\ r.statement = calls[c].statement /\ r.who = calls[c].who
  BY <1>2 DEF Fields
<1> HIDE DEF a, r, k
<1>11. TimeInv(r, now, held)
  BY <1>6, <1>7, <1>8, <1>10 DEF TimeInv, Busy
<1>12. QED
  BY <1>9, <1>11, OneCallTime

LEMMA RecentMiss ==
    ASSUME RInv, IInv', NEW c \in Calls, Miss(c)
    PROVE  RInv'
<1> DEFINE r == [calls[c] EXCEPT !.pc = "missed"]
<1>1. calls[c].pc = "ready" /\ RecordInv(calls[c]) /\ TimeInv(calls[c], now, held)
  BY DEF Miss, RInv, IInv
<1>2. r.pc = "missed" /\ r.asked = calls[c].asked /\ r.answer = calls[c].answer
  BY <1>1 DEF RecordInv, Fields
<1>3. calls' = [calls EXCEPT ![c] = r] /\ UNCHANGED <<World, cache, turns>>
  BY DEF Miss, Becomes
<1> HIDE DEF r
<1>4. TimeInv(r, now, held)
  BY <1>1, <1>2 DEF TimeInv, Busy
<1>5. QED
  BY <1>3, <1>4, OneCallTime

(* The table is read as it is. *)
LEMMA RecentExecute ==
    ASSUME RInv, IInv', NEW c \in Calls, Execute(c)
    PROVE  RInv'
<1>1. /\ calls[c].pc = "missed" /\ RecordInv(calls[c])
      /\ TimeInv(calls[c], now, held)
  BY DEF Execute, RInv, IInv
<1>2. PICK a \in Answers(calls[c].statement, calls[c].who, db) :
         calls' = [calls EXCEPT ![c].pc = "read", ![c].answer = a]
  BY DEF Execute
<1> DEFINE r == [calls[c] EXCEPT !.pc = "read", !.answer = a]
<1>3. a.rows \subseteq Employees
  BY <1>2, AnswersAreVisible DEF Home, Visible
<1>4. Fits(held, now, a, calls[c].statement, calls[c].who)
  BY <1>2 DEF Fits, RInv, WorldInv
<1>5. /\ calls[c].asked \in 0..now /\ now \in Nat
      /\ now <= calls[c].asked + Timeout
  BY <1>1, CacheAssumption DEF TimeInv, Busy, RInv, WorldInv
<1>6. /\ r.pc = "read" /\ r.asked = calls[c].asked /\ r.answer = a
      /\ r.statement = calls[c].statement /\ r.who = calls[c].who
  BY <1>1 DEF RecordInv, Fields
<1>7. calls' = [calls EXCEPT ![c] = r] /\ UNCHANGED <<World, cache, turns>>
  BY <1>2 DEF Execute
<1> HIDE DEF r
<1>8. now \in r.asked..now
  BY <1>5, <1>6
<1>9. TimeInv(r, now, held)
  BY <1>3, <1>4, <1>5, <1>6, <1>8 DEF TimeInv
<1>10. QED
  BY <1>7, <1>9, OneCallTime

(* What is stored was read no longer ago than a call takes. *)
LEMMA RecentStore ==
    ASSUME RInv, IInv', NEW c \in Calls, Store(c)
    PROVE  RInv'
<1> DEFINE o == calls[c]
           key == KeyOf(c)
           r == [o EXCEPT !.pc = "done", !.answer = o.answer, !.ended = now]
<1>1. o.pc = "read" /\ RecordInv(o) /\ TimeInv(o, now, held)
  BY DEF Store, RInv, IInv
<1>2. /\ o.asked \in 0..now /\ now \in Nat /\ now <= o.asked + Timeout
      /\ o.answer.rows \subseteq Employees
  BY <1>1, CacheAssumption DEF TimeInv, Busy, RInv, WorldInv
<1>3. PICK t \in o.asked..now : Fits(held, t, o.answer, o.statement, o.who)
  BY <1>1 DEF TimeInv
<1>4. /\ t \in 0..now /\ t + TTL + Timeout > o.asked /\ t <= now
      /\ t + TTL + Timeout >= now + TTL
  BY <1>2, CacheAssumption
<1>5. key.permissions = Permissions(o.who) /\ key.query = o.statement
  BY DEF KeyOf, Key, Permissions
<1>6. /\ DOMAIN cache' = DOMAIN cache \cup {key}
      /\ cache'[key] = [data |-> o.answer, expires |-> now + TTL]
      /\ \A k \in DOMAIN cache \ {key} : cache'[k] = cache[k]
  BY DEF Store
<1>7. now' = now /\ held' = held /\ calls' = [calls EXCEPT ![c] = r]
  BY DEF Store, Finish, World
<1>8. /\ r.pc = "done" /\ r.answer = o.answer /\ r.asked = o.asked /\ r.ended = now
      /\ r.statement = o.statement /\ r.who = o.who
  BY <1>1 DEF RecordInv, Fields
<1>9. \A x \in Calls : calls'[x] = IF x = c THEN r ELSE calls[x]
  BY <1>7 DEF RInv, IInv
<1> HIDE DEF r, key
<1>10. TimeInv(r, now, held)
  BY <1>2, <1>3, <1>4, <1>8 DEF TimeInv, Busy
<1>11. \A x \in Calls : TimeInv(calls'[x], now', held')
  BY <1>7, <1>9, <1>10 DEF RInv
<1>12. KeptInv(key, cache'[key], now, held)
  <2>1. \A who \in Principals : key.permissions = Permissions(who)
                                   => Fits(held, t, o.answer, key.query, who)
    BY <1>3, <1>5, PermissionsFit
  <2>2. now + TTL \in (now + 1)..(now + TTL)
    BY <1>2, CacheAssumption
  <2>3. QED
    BY <1>4, <1>6, <2>1, <2>2 DEF KeptInv
<1>13. \A k \in DOMAIN cache' : KeptInv(k, cache'[k], now', held')
  BY <1>6, <1>7, <1>12 DEF RInv
<1>14. WorldInv'
  BY DEF Store, RInv, WorldInv, World
<1>15. QED
  BY <1>11, <1>13, <1>14 DEF RInv

LEMMA RecentDraft ==
    ASSUME RInv, IInv', NEW c \in Calls, NEW s, Draft(c, s)
    PROVE  RInv'
<1> DEFINE r == [calls[c] EXCEPT !.pc = "drafted", !.statement = s,
                                 !.drafts = calls[c].drafts + 1]
<1>1. /\ calls[c].pc \in {"asking", "repairing"} /\ RecordInv(calls[c])
      /\ TimeInv(calls[c], now, held)
  BY DEF Draft, RInv, IInv
<1>2. r.pc = "drafted" /\ r.asked = calls[c].asked /\ r.answer = calls[c].answer
  BY <1>1 DEF RecordInv, Fields
<1>3. calls' = [calls EXCEPT ![c] = r] /\ UNCHANGED <<World, cache, turns>>
  BY DEF Draft
<1> HIDE DEF r
<1>4. TimeInv(r, now, held)
  BY <1>1, <1>2 DEF TimeInv, Busy
<1>5. QED
  BY <1>3, <1>4, OneCallTime

LEMMA RecentRunDraft ==
    ASSUME RInv, IInv', NEW c \in Calls, RunDraft(c)
    PROVE  RInv'
<1>1. calls[c].pc = "drafted" /\ RecordInv(calls[c])
  BY DEF RunDraft, RInv, IInv
<1>2. PICK a \in Reads(calls[c].statement, calls[c].who) : Finish(c, a)
  BY DEF RunDraft
<1> DEFINE r == [calls[c] EXCEPT !.pc = "done", !.answer = a, !.ended = now]
<1>3. a.rows \subseteq Employees
  BY <1>2, ReadsAreBounded
<1>4. r.pc = "done" /\ r.drafts \in {1, 2} /\ r.answer = a
  BY <1>1 DEF RecordInv, DraftInv, Fields
<1>5. calls' = [calls EXCEPT ![c] = r] /\ UNCHANGED <<World, cache, turns>>
  BY <1>2 DEF RunDraft, Finish
<1> HIDE DEF r
<1>6. TimeInv(r, now, held)
  BY <1>3, <1>4 DEF TimeInv, Busy
<1>7. QED
  BY <1>5, <1>6, OneCallTime

LEMMA RecentBounce ==
    ASSUME RInv, IInv', NEW c \in Calls, Bounce(c)
    PROVE  RInv'
<1> DEFINE r == IF calls[c].drafts > 1 THEN Failed
                ELSE [calls[c] EXCEPT !.pc = "repairing", !.statement = None]
<1>1. /\ calls[c].pc = "drafted" /\ RecordInv(calls[c])
      /\ TimeInv(calls[c], now, held)
  BY DEF Bounce, RInv, IInv
<1>2. \/ r = Failed
      \/ r.pc = "repairing" /\ r.asked = calls[c].asked /\ r.answer = calls[c].answer
  BY <1>1 DEF RecordInv, Fields
<1>3. calls' = [calls EXCEPT ![c] = r] /\ UNCHANGED <<World, cache, turns>>
  BY DEF Bounce
<1>4. TimeInv(Failed, now, held)
  BY DEF TimeInv, Failed, Idle, NoRows, Busy
<1> HIDE DEF r
<1>5. TimeInv(r, now, held)
  BY <1>1, <1>2, <1>4 DEF TimeInv, Busy
<1>6. QED
  BY <1>3, <1>5, OneCallTime

LEMMA RecentFail ==
    ASSUME RInv, IInv', NEW c \in Calls, Fail(c)
    PROVE  RInv'
<1>1. TimeInv(Failed, now, held)
  BY DEF TimeInv, Failed, Idle, NoRows, Busy
<1>2. calls' = [calls EXCEPT ![c] = Failed] /\ UNCHANGED <<World, cache, turns>>
  BY DEF Fail
<1>3. QED
  BY <1>1, <1>2, OneCallTime

LEMMA RecentSetStatus ==
    ASSUME RInv, IInv', NEW e \in Employees, SetStatus(e)
    PROVE  RInv'
<1>1. now \in 0..Horizon /\ now \in Nat /\ DOMAIN held = 0..Horizon /\ db \in DB
  BY CacheAssumption DEF RInv, WorldInv
<1>2. db' \in DB
  BY <1>1 DEF SetStatus, DB
<1>3. /\ DOMAIN held' = 0..Horizon /\ held'[now] = held[now] \cup {db'}
      /\ \A t \in 0..Horizon : t # now => held'[t] = held[t]
  BY <1>1 DEF SetStatus
<1>4. UNCHANGED <<now, cache, calls, turns>> /\ writes < MaxWrites /\ writes' = writes + 1
  BY DEF SetStatus
<1>5. WorldInv'
  BY <1>1, <1>2, <1>3, <1>4, CacheAssumption DEF RInv, WorldInv
<1>6. \A t \in 0..now : held[t] \subseteq held'[t]
  <2>1. \A t \in 0..now : t \in 0..Horizon
    BY <1>1, CacheAssumption
  <2>2. QED
    BY <1>3, <2>1
<1>7. \A c \in Calls : calls[c].pc \in Busy => now <= calls[c].asked + Timeout
  BY DEF RInv, TimeInv
<1>8. \A k \in DOMAIN cache : cache[k].expires > now
  BY <1>1, CacheAssumption DEF RInv, KeptInv
<1>9. now <= now
  BY <1>1
<1>10. \A c \in Calls : TimeInv(calls[c], now, held')
  BY <1>1, <1>6, <1>7, <1>9, AnswersStay DEF RInv
<1>11. \A k \in DOMAIN cache : KeptInv(k, cache[k], now, held')
  BY <1>1, <1>6, <1>8, <1>9, AnswersStay DEF RInv
<1>12. QED
  BY <1>4, <1>5, <1>10, <1>11 DEF RInv

LEMMA RecentTick ==
    ASSUME RInv, IInv', Tick
    PROVE  RInv'
<1>1. /\ now \in 0..Horizon /\ now \in Nat /\ now + 1 \in 0..Horizon
      /\ DOMAIN held = 0..Horizon /\ db \in DB
  BY CacheAssumption DEF RInv, WorldInv, Tick
<1>2. db' \in DB
  BY <1>1 DEF Tick, DB
<1>3. /\ DOMAIN held' = 0..Horizon /\ held'[now + 1] = {db'}
      /\ \A t \in 0..Horizon : t # now + 1 => held'[t] = held[t]
  BY <1>1 DEF Tick
<1>4. UNCHANGED <<calls, turns, writes>> /\ now' = now + 1
  BY DEF Tick
<1>5. WorldInv'
  BY <1>1, <1>2, <1>3, <1>4 DEF RInv, WorldInv
<1>6. \A t \in 0..now : held[t] \subseteq held'[t]
  <2>1. \A t \in 0..now : t \in 0..Horizon
    BY <1>1, CacheAssumption
  <2>2. \A t \in 0..now : t # now + 1
    BY <1>1
  <2>3. QED
    BY <1>3, <2>1, <2>2
<1>7. \A c \in Calls : calls[c].pc \in Busy => now + 1 <= calls[c].asked + Timeout
  <2> SUFFICES ASSUME NEW c \in Calls, calls[c].pc \in Busy
               PROVE  now + 1 <= calls[c].asked + Timeout
    OBVIOUS
  <2>1. calls[c].asked \in 0..now
    BY DEF RInv, TimeInv
  <2>2. now - calls[c].asked < Timeout
    BY DEF Tick, Running
  <2>3. QED
    BY <1>1, <2>1, <2>2, CacheAssumption
<1>8. /\ DOMAIN cache' = {k \in DOMAIN cache : cache[k].expires > now + 1}
      /\ \A k \in DOMAIN cache' : cache'[k] = cache[k]
  BY DEF Tick
<1>9. now + 1 \in Nat /\ now <= now + 1
  BY <1>1
<1>10. \A c \in Calls : TimeInv(calls[c], now + 1, held')
  BY <1>1, <1>6, <1>7, <1>9, AnswersStay DEF RInv
<1>11. \A k \in DOMAIN cache' : KeptInv(k, cache'[k], now + 1, held')
  BY <1>1, <1>6, <1>8, <1>9, AnswersStay DEF RInv
<1>12. QED
  BY <1>4, <1>5, <1>10, <1>11 DEF RInv

LEMMA RecentStep == RInv /\ [Next]_vars => RInv'
<1> SUFFICES ASSUME RInv, [Next]_vars PROVE RInv'
  OBVIOUS
<1>1. IInv'
  BY StepInv DEF RInv
<1>2. CASE \E who \in Principals, turn \in Turns : Ask(who, turn)
  BY <1>1, <1>2, RecentAsk
<1>3. CASE \E c \in Calls :
             Hit(c) \/ Miss(c) \/ Execute(c) \/ Store(c) \/ RunDraft(c) \/ Bounce(c) \/ Fail(c)
  BY <1>1, <1>3, RecentHit, RecentMiss, RecentExecute, RecentStore, RecentRunDraft,
     RecentBounce, RecentFail
<1>4. CASE \E c \in Calls, s \in Drafts : Draft(c, s)
  BY <1>1, <1>4, RecentDraft
<1>5. CASE \E e \in Employees : SetStatus(e)
  BY <1>1, <1>5, RecentSetStatus
<1>6. CASE Tick
  BY <1>1, <1>6, RecentTick
<1>7. CASE UNCHANGED vars
  BY <1>1, <1>7 DEF vars, RInv, WorldInv
<1>8. QED
  BY <1>2, <1>3, <1>4, <1>5, <1>6, <1>7 DEF Next

(* Every variable has its type, and neither an entry nor a call outlives   *)
(* its time.                                                               *)
THEOREM TypeCorrect == Spec => []TypeOK
<1>1. RInv => TypeOK
  <2> SUFFICES ASSUME RInv PROVE TypeOK
    OBVIOUS
  <2>1. now \in Nat
    BY CacheAssumption DEF RInv, WorldInv
  <2>2. ASSUME NEW c \in Calls, Running(c) PROVE now - calls[c].asked \in 0..Timeout
    <3>1. calls[c].asked \in 0..now /\ now <= calls[c].asked + Timeout
      BY <2>2 DEF RInv, TimeInv, Running
    <3>2. QED
      BY <2>1, <3>1, CacheAssumption
  <2>3. \A c \in Calls : /\ calls[c].pc \in Busy \cup {"idle", "done", "failed"}
                         /\ calls[c].answer.rows \subseteq Employees
    BY DEF RInv, IInv, RecordInv, TimeInv
  <2>4. \A k \in DOMAIN cache : cache[k].expires \in (now + 1)..(now + TTL)
    BY DEF RInv, KeptInv
  <2>5. QED
    BY <2>2, <2>3, <2>4 DEF RInv, WorldInv, TypeOK
<1>2. QED
  BY RecentInit, RecentStep, <1>1, PTL DEF Spec

(* Whatever is written and whenever the day changes, an answer, cached or  *)
(* not, is of the table as it was at most the life of an entry and the     *)
(* time-out of a call before the question.                                 *)
THEOREM AnswersStayRecent == Spec => []AnswersAreRecent
<1>1. RInv => AnswersAreRecent
  <2> SUFFICES ASSUME RInv, NEW c \in Calls, Answered(c)
               PROVE  \E t \in Lately(c) : \E d \in held[t] :
                         calls[c].answer \in Answers(calls[c].statement, calls[c].who, d)
    BY DEF AnswersAreRecent
  <2>1. PICK t \in 0..now :
           /\ t + TTL + Timeout > calls[c].asked /\ t <= calls[c].ended
           /\ Fits(held, t, calls[c].answer, calls[c].statement, calls[c].who)
    BY DEF RInv, TimeInv, Answered
  <2>2. QED
    BY <2>1 DEF Lately, Fits
<1>2. QED
  BY RecentInit, RecentStep, <1>1, PTL DEF Spec

-----------------------------------------------------------------------------
(* A list and its count: two calls of one turn have the same asker and the *)
(* same conditions for as long as they are not failed, and a list is cut   *)
(* at MaxRows.                                                             *)
Live(r) == r.pc \notin {"idle", "failed"}

Alike(r, o) ==
    /\ r.who = o.who /\ r.statement.filters = o.statement.filters
    /\ r.statement.ids = o.statement.ids /\ r.statement.scoped = o.statement.scoped

PairInv ==
    twins => \A b, c \in Calls :
        Live(calls[b]) /\ Live(calls[c]) =>
            /\ Alike(calls[b], calls[c])
            /\ calls[b].pc \in {"ready", "missed", "read", "done"}
            /\ calls[b].statement.shape = "list" => calls[b].statement.limit = MaxRows

(* The table has had finitely many states at every time.                   *)
StatesInv == \A t \in 0..Horizon : IsFiniteSet(held[t])

PInv == RInv /\ PairInv /\ StatesInv

(* What a query finds depends on who asks and on its conditions only.      *)
Found(s, who, d) == {e \in Visible(who) : Meets(s, e, d)}

LEMMA AlikeFind ==
    ASSUME NEW r, NEW o, Alike(r, o), NEW d
    PROVE  Found(r.statement, r.who, d) = Found(o.statement, o.who, d)
<1>1. r.who = o.who
  BY DEF Alike
<1>2. ASSUME NEW e PROVE Meets(r.statement, e, d) <=> Meets(o.statement, e, d)
  BY DEF Alike, Meets
<1>3. QED
  BY <1>1, <1>2 DEF Found

(* Of one table, the list has as many rows as the count says, up to its    *)
(* limit.                                                                  *)
LEMMA AlikeAgree ==
    ASSUME NEW r, NEW o, Alike(r, o), NEW d,
           r.statement.shape = "list", r.statement.limit = MaxRows,
           o.statement.shape = "count",
           r.answer \in Answers(r.statement, r.who, d),
           o.answer \in Answers(o.statement, o.who, d)
    PROVE  Cardinality(r.answer.rows) = AtMost(o.answer.count, MaxRows)
<1> DEFINE F == Found(r.statement, r.who, d)
<1>1. F = Found(o.statement, o.who, d)
  BY AlikeFind
<1>2. PICK R \in Cut(F, MaxRows) : r.answer = Table(R, r.statement, d)
  BY DEF Answers, Found
<1>3. Cardinality(R) = AtMost(Cardinality(F), MaxRows)
  BY <1>2 DEF Cut
<1>4. r.answer.rows = R
  BY <1>2 DEF Table, NoRows
<1>5. o.answer.count = Cardinality(Found(o.statement, o.who, d))
  BY DEF Answers, Found, NoRows
<1>6. QED
  BY <1>1, <1>3, <1>4, <1>5

(* Both are of the only state that the table had.                          *)
LEMMA OneState ==
    ASSUME NEW S, IsFiniteSet(S), Cardinality(S) = 1, NEW d \in S, NEW e \in S
    PROVE  d = e
<1>1. PICK x : S = {x}
  BY FS_Singleton
<1>2. QED
  BY <1>1

LEMMA FewStates ==
    ASSUME WorldInv, StatesInv, NEW T \in SUBSET (0..now)
    PROVE  IsFiniteSet(UNION {held[t] : t \in T})
<1>1. now \in 0..Horizon /\ now \in Nat /\ Horizon \in Nat
  BY CacheAssumption DEF WorldInv
<1>2. \A t \in T : t \in 0..Horizon
  BY <1>1
<1>3. IsFiniteSet(T)
  <2>1. IsFiniteSet(0..now)
    BY <1>1, FS_Interval
  <2>2. QED
    BY <2>1, FS_Subset
<1> DEFINE H == {held[t] : t \in T}
           f == [t \in T |-> held[t]]
<1>4. IsFiniteSet(H)
  <2>1. f \in Surjection(T, H)
    BY DEF Surjection
  <2>2. QED
    BY <1>3, <2>1, FS_Surjection
<1>5. \A h \in H : IsFiniteSet(h)
  BY <1>2 DEF StatesInv
<1>6. QED
  BY <1>4, <1>5, FS_UNION

LEMMA PairInit == Init => PInv
<1> SUFFICES ASSUME Init PROVE PInv
  OBVIOUS
<1>1. PairInv
  BY DEF Init, PairInv
<1>2. \A t \in 0..Horizon : IsFiniteSet(held[t])
  BY FS_Singleton, FS_EmptySet DEF Init
<1>3. QED
  BY <1>1, <1>2, RecentInit DEF PInv, StatesInv

(* A call that goes on has the asker and the statement it had.             *)
LEMMA OneCallPair ==
    ASSUME PInv, NEW c \in Calls, NEW r,
           calls' = [calls EXCEPT ![c] = r], twins' = twins,
           twins => \/ r = Failed
                    \/ /\ Live(calls[c])
                       /\ r.who = calls[c].who /\ r.statement = calls[c].statement
                       /\ r.pc \in {"ready", "missed", "read", "done"}
    PROVE  PairInv'
<1>1. \A x \in Calls : calls'[x] = IF x = c THEN r ELSE calls[x]
  BY DEF PInv, RInv, IInv
<1>2. ~Live(Failed)
  BY DEF Live, Failed, Idle
<1>3. ASSUME twins, NEW x \in Calls, Live(calls'[x])
      PROVE  /\ Live(calls[x])
             /\ calls'[x].who = calls[x].who /\ calls'[x].statement = calls[x].statement
             /\ calls[x].pc \in {"ready", "missed", "read", "done"}
                   => calls'[x].pc \in {"ready", "missed", "read", "done"}
  BY <1>1, <1>2, <1>3
<1>4. SUFFICES ASSUME twins, NEW x \in Calls, NEW y \in Calls,
                      Live(calls'[x]), Live(calls'[y])
               PROVE  /\ Alike(calls'[x], calls'[y])
                      /\ calls'[x].pc \in {"ready", "missed", "read", "done"}
                      /\ calls'[x].statement.shape = "list"
                            => calls'[x].statement.limit = MaxRows
  BY DEF PairInv
<1>5. /\ Alike(calls[x], calls[y])
      /\ calls[x].pc \in {"ready", "missed", "read", "done"}
      /\ calls[x].statement.shape = "list" => calls[x].statement.limit = MaxRows
  BY <1>3, <1>4 DEF PInv, PairInv
<1>6. QED
  BY <1>3, <1>4, <1>5 DEF Alike

(* The turn's nodes begin together.                                        *)
LEMMA PairAsk ==
    ASSUME PInv, NEW who \in Principals, NEW turn \in Turns, Ask(who, turn)
    PROVE  PairInv'
<1> SUFFICES ASSUME turn.twins, NEW b \in Calls, NEW c \in Calls,
                    Live(calls'[b]), Live(calls'[c])
             PROVE  /\ Alike(calls'[b], calls'[c])
                    /\ calls'[b].pc \in {"ready", "missed", "read", "done"}
                    /\ calls'[b].statement.shape = "list"
                          => calls'[b].statement.limit = MaxRows
  BY DEF PairInv, Ask
<1> DEFINE Start(p) == [Idle EXCEPT !.who = who, !.asked = now, !.pc = "ready",
                                    !.statement = Build(p.params, who)]
<1>1. ASSUME NEW x \in Calls, Live(calls'[x])
      PROVE  /\ x \in DOMAIN turn.nodes
             /\ calls'[x] = Start(turn.nodes[x])
  <2>1. x \in DOMAIN turn.nodes /\ calls'[x] = Begun(who, turn.nodes[x])
    BY <1>1 DEF Ask, Live, Idle
  <2>2. turn.nodes[x].mode = "constrained"
    BY <2>1, TwinsAssumption
  <2>3. Begun(who, turn.nodes[x]) # Failed
    BY <1>1, <2>1 DEF Live, Failed, Idle
  <2>4. QED
    BY <2>1, <2>2, <2>3 DEF Begun
<1>2. ASSUME NEW p
      PROVE  /\ Start(p).who = who /\ Start(p).pc = "ready"
             /\ Start(p).statement = Build(p.params, who)
  BY DEF Idle
<1>3. ASSUME NEW p
      PROVE  /\ Build(p, who).filters = p.filters /\ Build(p, who).ids = p.ids
             /\ Build(p, who).scoped = p.scoped
             /\ Build(p, who).shape = "list" => Build(p, who).limit = MaxRows
  BY DEF Build, Limit
<1> HIDE DEF Start
<1>4. /\ turn.nodes[b].params.filters = turn.nodes[c].params.filters
      /\ turn.nodes[b].params.ids = turn.nodes[c].params.ids
      /\ turn.nodes[b].params.scoped = turn.nodes[c].params.scoped
  BY <1>1, TwinsAssumption
<1>5. ASSUME NEW x \in Calls, Live(calls'[x])
      PROVE  LET p == turn.nodes[x].params
                 s == calls'[x].statement
             IN  /\ calls'[x].who = who /\ calls'[x].pc = "ready"
                 /\ s.filters = p.filters /\ s.ids = p.ids /\ s.scoped = p.scoped
                 /\ s.shape = "list" => s.limit = MaxRows
  <2>1. calls'[x] = Start(turn.nodes[x])
    BY <1>1, <1>5
  <2>2. calls'[x].statement = Build(turn.nodes[x].params, who)
    BY <1>2, <2>1
  <2>3. calls'[x].who = who /\ calls'[x].pc = "ready"
    BY <1>2, <2>1
  <2>4. QED
    BY <1>3, <2>2, <2>3
<1>6. QED
  BY <1>4, <1>5 DEF Alike

LEMMA PairStep == PInv /\ [Next]_vars => PInv'
<1> SUFFICES ASSUME PInv, [Next]_vars PROVE PInv'
  OBVIOUS
<1>1. RInv'
  BY RecentStep DEF PInv
<1>2. \A c \in Calls : DOMAIN calls[c] = Fields
  BY DEF PInv, RInv, IInv, RecordInv
<1>3. ASSUME held' = held PROVE StatesInv'
  BY <1>3 DEF PInv, StatesInv
<1>4. CASE \E who \in Principals, turn \in Turns : Ask(who, turn)
  <2>1. held' = held
    BY <1>4 DEF Ask, World
  <2>2. QED
    BY <1>1, <1>3, <1>4, <2>1, PairAsk DEF PInv
<1>5. ASSUME NEW c \in Calls, Hit(c) \/ Miss(c) \/ Execute(c) \/ Store(c) PROVE PInv'
  <2>1. Live(calls[c]) /\ held' = held /\ twins' = twins
    BY <1>5 DEF Hit, Miss, Execute, Store, Live, World
  <2>2. PICK r : /\ calls' = [calls EXCEPT ![c] = r]
                 /\ r.who = calls[c].who /\ r.statement = calls[c].statement
                 /\ r.pc \in {"missed", "read", "done"}
    <3>1. CASE Miss(c)
      <4> DEFINE r == [calls[c] EXCEPT !.pc = "missed"]
      <4>1. calls' = [calls EXCEPT ![c] = r]
        BY <3>1 DEF Miss, Becomes
      <4>2. r.who = calls[c].who /\ r.statement = calls[c].statement /\ r.pc = "missed"
        BY <1>2 DEF Fields
      <4>3. QED
        BY <4>1, <4>2
    <3>2. CASE Execute(c)
      <4>1. PICK a : calls' = [calls EXCEPT ![c].pc = "read", ![c].answer = a]
        BY <3>2 DEF Execute
      <4> DEFINE r == [calls[c] EXCEPT !.pc = "read", !.answer = a]
      <4>2. calls' = [calls EXCEPT ![c] = r]
        BY <4>1
      <4>3. r.who = calls[c].who /\ r.statement = calls[c].statement /\ r.pc = "read"
        BY <1>2 DEF Fields
      <4>4. QED
        BY <4>2, <4>3
    <3>3. CASE Hit(c) \/ Store(c)
      <4>1. PICK a : Finish(c, a)
        BY <3>3 DEF Hit, Store
      <4> DEFINE r == [calls[c] EXCEPT !.pc = "done", !.answer = a, !.ended = now]
      <4>2. calls' = [calls EXCEPT ![c] = r]
        BY <4>1 DEF Finish
      <4>3. r.who = calls[c].who /\ r.statement = calls[c].statement /\ r.pc = "done"
        BY <1>2 DEF Fields
      <4>4. QED
        BY <4>2, <4>3
    <3>4. QED
      BY <1>5, <3>1, <3>2, <3>3
  <2>3. PairInv'
    BY <2>1, <2>2, OneCallPair
  <2>4. QED
    BY <1>1, <1>3, <2>1, <2>3 DEF PInv
<1>6. ASSUME NEW c \in Calls, NEW s,
             RunDraft(c) \/ Bounce(c) \/ Draft(c, s) PROVE PInv'
  <2>1. ~twins /\ held' = held /\ twins' = twins
    BY <1>6 DEF RunDraft, Bounce, Draft, PInv, PairInv, Live, World
  <2>2. QED
    BY <1>1, <1>3, <2>1 DEF PInv, PairInv
<1>7. ASSUME NEW c \in Calls, Fail(c) PROVE PInv'
  <2>1. calls' = [calls EXCEPT ![c] = Failed] /\ held' = held /\ twins' = twins
    BY <1>7 DEF Fail, World
  <2>2. QED
    BY <1>1, <1>3, <2>1, OneCallPair DEF PInv
<1>8. CASE \E e \in Employees : SetStatus(e)
  <2>1. /\ calls' = calls /\ twins' = twins
        /\ held' = [held EXCEPT ![now] = @ \cup {db'}]
    BY <1>8 DEF SetStatus
  <2>2. DOMAIN held = 0..Horizon
    BY DEF PInv, RInv, WorldInv
  <2>3. \A t \in 0..Horizon : held'[t] = held[t] \/ held'[t] = held[t] \cup {db'}
    BY <2>1, <2>2
  <2>4. StatesInv'
    BY <2>3, FS_AddElement DEF PInv, StatesInv
  <2>5. QED
    BY <1>1, <2>1, <2>4 DEF PInv, PairInv
<1>9. CASE Tick
  <2>1. /\ calls' = calls /\ twins' = twins
        /\ held' = [held EXCEPT ![now + 1] = {db'}]
    BY <1>9 DEF Tick
  <2>2. DOMAIN held = 0..Horizon
    BY DEF PInv, RInv, WorldInv
  <2>3. \A t \in 0..Horizon : held'[t] = held[t] \/ held'[t] = {db'}
    BY <2>1, <2>2
  <2>4. IsFiniteSet({db'})
    BY FS_Singleton
  <2>5. StatesInv'
    BY <2>3, <2>4 DEF PInv, StatesInv
  <2>6. QED
    BY <1>1, <2>1, <2>5 DEF PInv, PairInv
<1>10. CASE UNCHANGED vars
  BY <1>1, <1>3, <1>10 DEF vars, PInv, PairInv
<1>11. QED
  BY <1>4, <1>5, <1>6, <1>7, <1>8, <1>9, <1>10 DEF Next

(* Where the table had one state for as long as the two answers may be     *)
(* old, the list that a turn remembers has as many people as the count it  *)
(* says, up to the limit of the list: whatever each of the two read, or    *)
(* found in the cache, and whenever.                                       *)
THEOREM ListsAgreeWithCounts == Spec => []PairsAgree
<1>1. PInv => PairsAgree
  <2> SUFFICES ASSUME PInv, twins, NEW b \in Calls, NEW c \in Calls,
                      Answered(b), calls[b].statement.shape = "list",
                      Answered(c), calls[c].statement.shape = "count",
                      Cardinality(UNION {held[t] : t \in Lately(b) \cup Lately(c)}) = 1
               PROVE  Cardinality(calls[b].answer.rows)
                         = AtMost(calls[c].answer.count, MaxRows)
    BY DEF PairsAgree
  <2> DEFINE T == Lately(b) \cup Lately(c)
             S == UNION {held[t] : t \in T}
  <2>1. Alike(calls[b], calls[c]) /\ calls[b].statement.limit = MaxRows
    BY DEF PInv, PairInv, Answered, Live
  <2>2. ASSUME NEW x \in {b, c}
        PROVE  \E d \in S : calls[x].answer \in Answers(calls[x].statement, calls[x].who, d)
    <3>1. PICK t \in 0..now :
             /\ t + TTL + Timeout > calls[x].asked /\ t <= calls[x].ended
             /\ Fits(held, t, calls[x].answer, calls[x].statement, calls[x].who)
      BY DEF PInv, RInv, TimeInv, Answered
    <3>2. t \in T
      BY <3>1 DEF Lately
    <3>3. held[t] \subseteq S
      BY <3>2
    <3>4. QED
      BY <3>1, <3>3 DEF Fits
  <2>3. IsFiniteSet(S)
    <3>1. T \in SUBSET (0..now)
      BY DEF Lately
    <3>2. QED
      BY <3>1, FewStates DEF PInv, RInv
  <2>4. PICK d \in S : calls[b].answer \in Answers(calls[b].statement, calls[b].who, d)
    BY <2>2
  <2>5. PICK e \in S : calls[c].answer \in Answers(calls[c].statement, calls[c].who, e)
    BY <2>2
  <2> HIDE DEF S
  <2>6. d = e
    <3>1. Cardinality(S) = 1
      BY DEF S
    <3>2. QED
      BY <2>3, <3>1, OneState
  <2>7. QED
    BY <2>1, <2>4, <2>5, <2>6, AlikeAgree
<1>2. QED
  BY PairInit, PairStep, <1>1, PTL DEF Spec
=============================================================================
