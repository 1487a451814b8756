------------------------------ MODULE QueryCache ------------------------------
(***************************************************************************)
(* SqlTool: queries built from parameters, answered from a cache beside    *)
(* writes of the table they read, and queries written by a model, checked  *)
(* and repaired once.                                                      *)
(*                                                                         *)
(* The cache is Redis.  A row is an employee, whose status changes; a      *)
(* statement is what QueryBuilder puts together, without its text.         *)
(***************************************************************************)
EXTENDS Naturals, FiniteSets

CONSTANTS Employees,   \* numbers, from the longest employed to the newest
          Record,      \* tenant and department of each
          Principals,  \* who asks: tenant, role, department, employee
          Turns,       \* what is asked: the parameters of one node or of two
          Drafts,      \* statements that the model may write
          Starts,      \* who is active at first
          Calls,       \* calls of the tool in flight
          MaxRows,     \* rows of an answer (200)
          TTL,         \* lifetime of an entry (60 seconds)
          Timeout,     \* when the runner cancels a call (15 seconds)
          Midnight,    \* when the day changes
          Horizon, MaxTurns, MaxWrites,   \* bounds of the model
          None

BaseColumns == {"id", "department", "status"}
Sensitive == {"salary"}
Facets == {"department", "position", "employment_status", "education"}
Templates == {"agg_tenure", "agg_tenure_by_dept", "longest_tenured"}
Filters == {"department", "status", "hire_date_gt", "position"}
Flags == {"count_only", "distinct", "count_distinct"}

(* The parameters of a node: a filter is a field and the value it must     *)
(* have, ids the scope, if there is one; `facet` is count_distinct's.      *)
Params == [columns: SUBSET STRING, flags: SUBSET Flags, facet: STRING,
           template: STRING, filters: SUBSET [field: STRING, value: STRING],
           ids: SUBSET Employees, scoped: BOOLEAN, limit: Nat]

ASSUME CacheAssumption ==
    /\ Employees \subseteq Nat /\ IsFiniteSet(Employees)
    /\ \A e \in Employees : {"tenant", "dept"} \subseteq DOMAIN Record[e]
    /\ \A turn \in Turns : \A c \in DOMAIN turn.nodes : turn.nodes[c].params \in Params
    /\ Starts \subseteq [Employees -> BOOLEAN]
    /\ MaxRows \in Nat \ {0} /\ TTL \in Nat \ {0} /\ Timeout \in Nat \ {0}
    /\ Midnight \in Nat \ {0} /\ Horizon \in Nat /\ MaxTurns \in Nat /\ MaxWrites \in Nat

(* The two queries of a list and its count have the same conditions.       *)
ASSUME TwinsAssumption ==
    \A turn \in Turns : turn.twins =>
        \A b, c \in DOMAIN turn.nodes :
            LET m == turn.nodes[b]
                n == turn.nodes[c]
            IN  /\ m.mode = "constrained"
                /\ m.params.filters = n.params.filters
                /\ m.params.ids = n.params.ids /\ m.params.scoped = n.params.scoped

VARIABLES db,       \* the status of everybody, and the day
          now,      \* the time
          held,     \* the states db was in, at each time
          cache,    \* the answers kept, by key
          calls,    \* the calls
          twins,    \* the last turn's two calls are its list and its count
          turns, writes

vars == <<db, now, held, cache, calls, twins, turns, writes>>

-----------------------------------------------------------------------------
(* Policies *)

CanUse(who) == who.role \in {"recruiter", "manager"}

(* allowed_columns, which the tool calls with the manager's department     *)
(* twice: it is the rows that are limited to that.                         *)
Allowed(who) ==
    IF who.role = "recruiter" \/ (who.role = "manager" /\ who.dept # None)
    THEN BaseColumns \cup Sensitive ELSE BaseColumns

(* employees_tenant_isolation, with the settings of apply_rls. *)
Visible(who) ==
    {e \in Employees :
        /\ Record[e].tenant = who.tenant
        /\ \/ who.role = "recruiter"
           \/ who.role = "manager" /\ Record[e].dept = who.dept
           \/ who.role = "employee" /\ e = who.self}

-----------------------------------------------------------------------------
(* QueryBuilder *)

Shape(p) ==
    IF p.template # "" THEN p.template
    ELSE IF "count_distinct" \in p.flags THEN "count_distinct"
    ELSE IF "count_only" \in p.flags THEN "count"
    ELSE IF "distinct" \in p.flags THEN "distinct" ELSE "list"

Columns(p, who) ==
    IF p.columns \cap Allowed(who) # {} THEN p.columns \cap Allowed(who) ELSE Allowed(who)

(* What build and build_template do not take. *)
Raises(p, who) ==
    \/ \E f \in p.filters : f.field \notin Filters
    \/ p.template # "" /\ p.template \notin Templates
    \/ /\ p.template = ""
       /\ \/ Cardinality(p.flags) > 1
          \/ "count_distinct" \in p.flags /\ p.facet \notin Facets
          \/ /\ "distinct" \in p.flags
             /\ ~\E c \in Facets : Columns(p, who) = {c}

AtMost(n, k) == IF n < k THEN n ELSE k

Limit(p) ==
    CASE Shape(p) = "longest_tenured" -> AtMost(IF p.limit = 0 THEN MaxRows ELSE p.limit, 50)
      [] Shape(p) \in {"list", "distinct"} -> MaxRows
      [] OTHER -> Cardinality(Employees)

(* Mutant of Build: a scope is taken for an order, which a count has not.  *)
BuildUnscoped(p, who) ==
    [shape |-> Shape(p), columns |-> IF Shape(p) \in {"list", "distinct"} THEN Columns(p, who)
                                     ELSE BaseColumns,
     facet |-> p.facet, filters |-> p.filters, ids |-> p.ids,
     scoped |-> p.scoped /\ Shape(p) # "count", limit |-> Limit(p)]

Build(p, who) ==
    [shape |-> Shape(p), columns |-> IF Shape(p) \in {"list", "distinct"} THEN Columns(p, who)
                                     ELSE BaseColumns,
     facet |-> p.facet, filters |-> p.filters, ids |-> p.ids, scoped |-> p.scoped,
     limit |-> Limit(p)]

-----------------------------------------------------------------------------
(* The database *)

(* _apply_filters: an empty scope is AND 1=0, no scope no condition.       *)
Meets(s, e, d) ==
    /\ s.scoped => e \in s.ids
    /\ \A f \in s.filters :
          CASE f.field = "status" -> d.status[e] = (f.value = "true")
            [] f.field = "department" -> Record[e].dept = f.value
            [] OTHER -> TRUE

NoRows == [rows |-> {}, columns |-> {}, active |-> {}, values |-> {}, count |-> None,
           day |-> None]

(* Any n of S, and the n longest employed. *)
Cut(S, n) == {R \in SUBSET S : Cardinality(R) = AtMost(Cardinality(S), n)}
Longest(S, n) == {e \in S : Cardinality({o \in S : o < e}) < n}

Table(R, s, d) ==
    [NoRows EXCEPT !.rows = R, !.columns = s.columns,
                   !.active = IF "status" \in s.columns THEN {e \in R : d.status[e]} ELSE {}]

(* What a statement may answer to somebody, the table being d.             *)
Answers(s, who, d) ==
    LET found == {e \in Visible(who) : Meets(s, e, d)}
        depts == {Record[e].dept : e \in found}
    IN  CASE s.shape = "list" -> {Table(R, s, d) : R \in Cut(found, s.limit)}
          [] s.shape = "count" -> {[NoRows EXCEPT !.count = Cardinality(found)]}
          [] s.shape = "distinct" -> {[NoRows EXCEPT !.values = V] : V \in Cut(depts, s.limit)}
          [] s.shape = "count_distinct" -> {[NoRows EXCEPT !.count = Cardinality(depts)]}
          [] s.shape = "longest_tenured" ->
                {[NoRows EXCEPT !.rows = Longest(found, s.limit), !.columns = BaseColumns,
                                !.day = d.day]}
          [] OTHER -> {[NoRows EXCEPT !.rows = found, !.day = d.day]}

-----------------------------------------------------------------------------
Idle == [pc |-> "idle", who |-> None, asked |-> 0, statement |-> None, drafts |-> 0,
         answer |-> NoRows, ended |-> 0]

Init ==
    /\ db \in [status: Starts, day: {0}]
    /\ now = 0 /\ held = [t \in 0..Horizon |-> IF t = 0 THEN {db} ELSE {}]
    /\ cache = <<>>
    /\ calls = [c \in Calls |-> Idle]
    /\ twins = FALSE /\ turns = 0 /\ writes = 0

Failed == [Idle EXCEPT !.pc = "failed"]

Busy == {"ready", "missed", "read", "asking", "drafted", "repairing"}
Running(c) == calls[c].pc \in Busy

Becomes(c, pc) == calls' = [calls EXCEPT ![c].pc = pc]

Finish(c, answer) ==
    calls' = [calls EXCEPT ![c].pc = "done", ![c].answer = answer, ![c].ended = now]

World == <<db, now, held, writes>>

(* run: the role is tested, and the statement built, before any wait.      *)
Begun(who, p) ==
    IF ~CanUse(who) \/ (p.mode = "constrained" /\ Raises(p.params, who)) THEN Failed
    ELSE IF p.mode = "constrained"
    THEN [Idle EXCEPT !.who = who, !.asked = now, !.pc = "ready",
                      !.statement = Build(p.params, who)]
    ELSE [Idle EXCEPT !.who = who, !.asked = now, !.pc = "asking"]

(* The nodes of a plan that run in one wave; _filtered_count_plan has a    *)
(* list and a count.                                                       *)
Ask(who, turn) ==
    /\ turns < MaxTurns
    /\ \A c \in Calls : ~Running(c)
    /\ calls' = [c \in Calls |-> IF c \in DOMAIN turn.nodes THEN Begun(who, turn.nodes[c])
                                 ELSE Idle]
    /\ twins' = turn.twins
    /\ turns' = turns + 1
    /\ UNCHANGED <<World, cache>>

(* Mutant of Key: the role stands for the permissions. *)
KeyOfRole(s, who) == [query |-> s, tenant |-> who.tenant, role |-> who.role]

(* keys.build, with permission_hash *)
Key(s, who) ==
    [query |-> s, tenant |-> who.tenant, role |-> who.role,
     permissions |-> <<who.tenant, who.role, who.dept, who.self>>]

KeyOf(c) == Key(calls[c].statement, calls[c].who)

Hit(c) ==
    /\ calls[c].pc = "ready" /\ KeyOf(c) \in DOMAIN cache
    /\ Finish(c, cache[KeyOf(c)].data)
    /\ UNCHANGED <<World, cache, twins, turns>>

Miss(c) ==
    /\ calls[c].pc = "ready" /\ KeyOf(c) \notin DOMAIN cache
    /\ Becomes(c, "missed")
    /\ UNCHANGED <<World, cache, twins, turns>>

(* SqlExecutor.execute: one statement, in a transaction of its own. *)
Execute(c) ==
    /\ calls[c].pc = "missed"
    /\ \E a \in Answers(calls[c].statement, calls[c].who, db) :
          calls' = [calls EXCEPT ![c].pc = "read", ![c].answer = a]
    /\ UNCHANGED <<World, cache, twins, turns>>

(* Mutant of Store: without ttl_seconds. *)
StoreForever(c) ==
    /\ calls[c].pc = "read"
    /\ cache' = [k \in DOMAIN cache \cup {KeyOf(c)} |->
                    IF k = KeyOf(c) THEN [data |-> calls[c].answer, expires |-> Horizon + 1]
                    ELSE cache[k]]
    /\ Finish(c, calls[c].answer)
    /\ UNCHANGED <<World, twins, turns>>

Store(c) ==
    /\ calls[c].pc = "read"
    /\ cache' = [k \in DOMAIN cache \cup {KeyOf(c)} |->
                    IF k = KeyOf(c) THEN [data |-> calls[c].answer, expires |-> now + TTL]
                    ELSE cache[k]]
    /\ Finish(c, calls[c].answer)
    /\ UNCHANGED <<World, twins, turns>>

-----------------------------------------------------------------------------
(* _nl2sql *)

(* validate_sql: one SELECT from employees, without a star and of columns  *)
(* that the role may see.                                                  *)
Valid(s, who) ==
    /\ s.verb = "select"
    /\ s.tables \subseteq {"employees"}
    /\ ~s.star
    /\ s.columns \subseteq Allowed(who) \cup {"id", "count"}

(* A number is lowered where it stands.  Else a limit is put at the end of *)
(* the text, where a comment hides it from the database.                   *)
Bounded(s) == s.limit = "one" \/ ~s.comment

(* Behind an expression it is a second one, which the database does not    *)
(* take if it sees it, as it does not a column it has not.                 *)
Executable(s) ==
    /\ s.limit = "expression" => ~Bounded(s)
    /\ s.columns \subseteq BaseColumns \cup Sensitive

(* What functions are called with, nobody looks at: it may be a query of   *)
(* other columns, or a setting that the policies go by.                    *)
RowsRead(s, who) ==
    LET n == IF s.limit = "one" THEN 1
             ELSE IF Bounded(s) THEN MaxRows ELSE Cardinality(Employees)
    IN  IF s.functions THEN UNION {Cut(E, n) : E \in SUBSET Employees}
        ELSE Cut(Visible(who), n)

ColumnsRead(s) ==
    IF s.functions THEN {C \in SUBSET (BaseColumns \cup Sensitive) : s.columns \subseteq C}
    ELSE {s.columns}

Reads(s, who) ==
    {[NoRows EXCEPT !.rows = shown[1], !.columns = shown[2]] :
        shown \in RowsRead(s, who) \X ColumnsRead(s)}

Draft(c, s) ==
    /\ calls[c].pc \in {"asking", "repairing"}
    /\ calls' = [calls EXCEPT ![c].pc = "drafted", ![c].statement = s, ![c].drafts = @ + 1]
    /\ UNCHANGED <<World, cache, twins, turns>>

(* Mutant of RunDraft: what is repaired is not looked at again. *)
RunTrusting(c) ==
    /\ calls[c].pc = "drafted"
    /\ Valid(calls[c].statement, calls[c].who) \/ calls[c].drafts > 1
    /\ Executable(calls[c].statement)
    /\ \E a \in Reads(calls[c].statement, calls[c].who) : Finish(c, a)
    /\ UNCHANGED <<World, cache, twins, turns>>

RunDraft(c) ==
    /\ calls[c].pc = "drafted"
    /\ Valid(calls[c].statement, calls[c].who)
    /\ Executable(calls[c].statement)
    /\ \E a \in Reads(calls[c].statement, calls[c].who) : Finish(c, a)
    /\ UNCHANGED <<World, cache, twins, turns>>

(* Whatever is wrong with a draft, or with the database, is repaired once. *)
Bounce(c) ==
    /\ calls[c].pc = "drafted"
    /\ calls' = [calls EXCEPT ![c] = IF @.drafts > 1 THEN Failed
                                     ELSE [@ EXCEPT !.pc = "repairing", !.statement = None]]
    /\ UNCHANGED <<World, cache, twins, turns>>

-----------------------------------------------------------------------------
(* A failure of the cache, the database or the model, or the time-out.     *)
Fail(c) ==
    /\ Running(c)
    /\ calls' = [calls EXCEPT ![c] = Failed]
    /\ UNCHANGED <<World, cache, twins, turns>>

(* EmployeeTool writes a status, and leaves the cache alone. *)
SetStatus(e) ==
    /\ writes < MaxWrites
    /\ db' = [db EXCEPT !.status[e] = ~@]
    /\ held' = [held EXCEPT ![now] = @ \cup {db'}]
    /\ writes' = writes + 1
    /\ UNCHANGED <<now, cache, calls, twins, turns>>

(* wait_for ends a call in time; Redis forgets what has expired.           *)
Tick ==
    /\ now < Horizon
    /\ \A c \in Calls : Running(c) => now - calls[c].asked < Timeout
    /\ now' = now + 1
    /\ db' = [db EXCEPT !.day = IF now + 1 < Midnight THEN 0 ELSE 1]
    /\ held' = [held EXCEPT ![now + 1] = {db'}]
    /\ LET live == {k \in DOMAIN cache : cache[k].expires > now + 1}
       IN  cache' = [k \in live |-> cache[k]]
    /\ UNCHANGED <<calls, twins, turns, writes>>

Next ==
    \/ \E who \in Principals, turn \in Turns : Ask(who, turn)
    \/ \E c \in Calls :
          Hit(c) \/ Miss(c) \/ Execute(c) \/ Store(c) \/ RunDraft(c) \/ Bounce(c) \/ Fail(c)
    \/ \E c \in Calls, s \in Drafts : Draft(c, s)
    \/ \E e \in Employees : SetStatus(e)
    \/ Tick

Spec == Init /\ [][Next]_vars

-----------------------------------------------------------------------------
DB == [status: [Employees -> BOOLEAN], day: {0, 1}]

(* Every variable has its type; what is in the cache has been there for    *)
(* no longer than it lives, and no call outlives its time-out.             *)
TypeOK ==
    /\ db \in DB /\ now \in 0..Horizon /\ turns \in 0..MaxTurns /\ writes \in 0..MaxWrites
    /\ \A t \in 0..Horizon : held[t] \subseteq DB /\ (t > now => held[t] = {})
    /\ \A k \in DOMAIN cache : cache[k].expires \in (now + 1)..(now + TTL)
    /\ \A c \in Calls :
          /\ calls[c].pc \in Busy \cup {"idle", "done", "failed"}
          /\ Running(c) => now - calls[c].asked \in 0..Timeout
          /\ calls[c].answer.rows \subseteq Employees

Answered(c) == calls[c].pc = "done" /\ calls[c].drafts = 0

(* How long before it is asked a question may be answered.                 *)
Lately(c) == {t \in 0..now : t + TTL + Timeout > calls[c].asked /\ t <= calls[c].ended}

(* Status writes and midnights do not invalidate an answer that is kept,   *)
(* and it may be read well before it is kept: still, no answer is of a     *)
(* table that was gone for longer than an entry lives and a call takes.    *)
AnswersAreRecent ==
    \A c \in Calls : Answered(c) =>
        \E t \in Lately(c) : \E d \in held[t] :
            calls[c].answer \in Answers(calls[c].statement, calls[c].who, d)

(* The list that a turn remembers as "them" and the count that it says are *)
(* two reads: where nothing changed for that long before, they agree, up   *)
(* to the limit of the list.                                               *)
PairsAgree ==
    twins => \A b, c \in Calls :
        /\ Answered(b) /\ calls[b].statement.shape = "list"
        /\ Answered(c) /\ calls[c].statement.shape = "count"
        /\ Cardinality(UNION {held[t] : t \in Lately(b) \cup Lately(c)}) = 1
        => Cardinality(calls[b].answer.rows) = AtMost(calls[c].answer.count, MaxRows)

(* The columns are allowed by role, the rows by the database, and the      *)
(* answer may be somebody else's from the cache: a salary is shown to      *)
(* recruiters, and to managers of the department, of the same tenant.      *)
(* What a draft with functions shows, nothing but itself decides.          *)
SalariesStayHome ==
    \A c \in Calls :
        LET r == calls[c]
        IN  /\ r.pc = "done" /\ "salary" \in r.answer.columns
            /\ r.drafts > 0 => ~r.statement.functions
            =>
                \A e \in r.answer.rows :
                    /\ Record[e].tenant = r.who.tenant
                    /\ \/ r.who.role = "recruiter"
                       \/ r.who.role = "manager" /\ Record[e].dept = r.who.dept

(* Repairs included, what the model wrote is run, after at most two        *)
(* drafts, only as a SELECT that names no table but employees and no       *)
(* column that the asker may not see.  Without functions it shows no more  *)
(* than it names, of rows that the asker may see; and unless a comment     *)
(* hides its limit, no more rows than a list may have.                     *)
DraftsAreChecked ==
    \A c \in Calls :
        /\ calls[c].drafts <= 2
        /\ calls[c].drafts > 0 /\ calls[c].pc = "done" =>
              LET s == calls[c].statement
                  shown == calls[c].answer
              IN  /\ s.verb = "select" /\ s.tables \subseteq {"employees"}
                  /\ s.columns \subseteq Allowed(calls[c].who)
                  /\ s.functions \/ /\ shown.columns \subseteq s.columns
                                    /\ shown.rows \subseteq Visible(calls[c].who)
                  /\ Bounded(s) => Cardinality(shown.rows) <= MaxRows
=============================================================================
