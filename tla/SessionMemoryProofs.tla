-------------------------- MODULE SessionMemoryProofs --------------------------
(* Whose a session is, and what its history holds, for any turns of any    *)
(* users, in any order and overlap.                                        *)
EXTENDS SessionMemory, FiniteSetTheorems, SequenceTheorems, TLAPS

Owned(s) == \A m \in Known(s) : Speaker[m[1]] = s.owner

Ordered(s) ==
    \A i \in DOMAIN s.log :
        s.log[i][2] = "answer" =>
            \/ <<s.log[i][1], "question">> \in s.digest
            \/ \E j \in 1..(i - 1) : s.log[j] = <<s.log[i][1], "question">>

RecInv(s) == s \in Session /\ Owned(s) /\ Ordered(s) /\ Len(s.log) <= Trigger + 1

CopyInv(t, s, at) ==
    /\ RecInv(s) /\ s.owner = Speaker[t]
    /\ at \in Heard => <<t, "question">> \in Known(s) /\ Len(s.log) <= Trigger

Types ==
    /\ kind \in [Turns -> Kinds] /\ readable \in BOOLEAN
    /\ written \subseteq Turns \X Turns
    /\ alone \subseteq Turns /\ kept \subseteq Turns /\ settled \subseteq Session
    /\ held \subseteq Turns

IInv ==
    /\ Types
    /\ step \in [Turns -> Steps] /\ copy \in [Turns -> Session]
    /\ store = {} \/ \E s \in Session : store = {s} /\ RecInv(s)
    /\ \A t \in Turns : CopyInv(t, copy[t], step[t])

-----------------------------------------------------------------------------
LEMMA FreshInv ==
    ASSUME NEW p \in Principals
    PROVE  RecInv(Fresh(p)) /\ Fresh(p).owner = p
<1> DEFINE s == Fresh(p)
<1>1. /\ s \in Session /\ s.log = <<>> /\ s.digest = {} /\ s.owner = p
  BY DEF Fresh, Session
<1>2. Len(s.log) = 0 /\ DOMAIN s.log = {} /\ ToSet(s.log) = {}
  BY <1>1 DEF ToSet
<1> HIDE DEF s
<1>3. Owned(s) /\ Ordered(s)
  BY <1>1, <1>2 DEF Owned, Ordered, Known
<1>4. Len(s.log) <= Trigger + 1
  BY <1>2, SessionAssumption
<1>5. QED
  BY <1>1, <1>3, <1>4 DEF RecInv, s

LEMMA InitInv == Init => IInv
<1> SUFFICES ASSUME Init PROVE IInv
  OBVIOUS
<1>1. Types /\ store = {}
  BY SessionAssumption DEF Init, Types
<1>2. \A t \in Turns : step[t] = "waiting" /\ copy[t] = Fresh(Speaker[t]) /\ Speaker[t] \in Principals
  BY SessionAssumption DEF Init
<1>3. \A t \in Turns : CopyInv(t, copy[t], step[t])
  BY <1>2, FreshInv DEF CopyInv, Heard
<1>4. step \in [Turns -> Steps] /\ copy \in [Turns -> Session]
  BY <1>2, FreshInv DEF Init, Steps, RecInv
<1>5. QED
  BY <1>1, <1>3, <1>4 DEF IInv

(* An utterance of the turn's own is appended; an answer follows its       *)
(* question.                                                               *)
LEMMA AppendInv ==
    ASSUME NEW t \in Turns, NEW s \in Session, Owned(s), Ordered(s),
           s.owner = Speaker[t], NEW what \in {"question", "answer"},
           what = "answer" => <<t, "question">> \in Known(s)
    PROVE  LET r == [s EXCEPT !.log = Append(@, <<t, what>>)]
           IN  /\ r \in Session /\ Owned(r) /\ Ordered(r) /\ r.owner = s.owner
               /\ Known(r) = Known(s) \cup {<<t, what>>}
               /\ Len(r.log) = Len(s.log) + 1
<1> DEFINE m == <<t, what>>
           r == [s EXCEPT !.log = Append(@, m)]
<1>1. s.log \in Seq(Message) /\ m \in Message /\ s.digest \subseteq Message
  BY DEF Session, Message
<1>2. /\ r \in Session /\ r.log = Append(s.log, m) /\ r.digest = s.digest
      /\ r.owner = s.owner
  <2>1. Append(s.log, m) \in Seq(Message)
    BY <1>1
  <2>2. r = [s EXCEPT !.log = Append(s.log, m)]
    OBVIOUS
  <2> HIDE DEF m
  <2>3. QED
    BY <2>1, <2>2 DEF Session
<1>3. /\ Len(r.log) = Len(s.log) + 1 /\ Len(s.log) \in Nat
      /\ DOMAIN r.log = 1..(Len(s.log) + 1) /\ DOMAIN s.log = 1..Len(s.log)
      /\ \A i \in 1..Len(s.log) : r.log[i] = s.log[i]
      /\ r.log[Len(s.log) + 1] = m
  BY <1>1, <1>2
<1> HIDE DEF r
<1>4. Known(r) = Known(s) \cup {m}
  BY <1>2, <1>3 DEF Known, ToSet
<1>5. Owned(r)
  BY <1>2, <1>4 DEF Owned
<1>6. Ordered(r)
  <2> SUFFICES ASSUME NEW i \in 1..(Len(s.log) + 1), r.log[i][2] = "answer"
               PROVE  \/ <<r.log[i][1], "question">> \in s.digest
                      \/ \E j \in 1..(i - 1) : r.log[j] = <<r.log[i][1], "question">>
    BY <1>2, <1>3 DEF Ordered
  <2>1. CASE i \in 1..Len(s.log)
    <3>1. r.log[i] = s.log[i] /\ i \in DOMAIN s.log
      BY <1>3, <2>1
    <3>2. CASE \E j \in 1..(i - 1) : s.log[j] = <<s.log[i][1], "question">>
      <4>1. PICK j \in 1..(i - 1) : s.log[j] = <<s.log[i][1], "question">>
        BY <3>2
      <4>2. r.log[j] = s.log[j]
        BY <1>3, <2>1, <4>1
      <4>3. QED
        BY <3>1, <4>1, <4>2
    <3>3. QED
      BY <3>1, <3>2 DEF Ordered
  <2>2. CASE i = Len(s.log) + 1
    <3>1. /\ r.log[i][1] = t
          /\ <<t, "question">> \in s.digest \cup ToSet(s.log)
      BY <1>3, <2>2 DEF Known
    <3>2. CASE <<t, "question">> \in ToSet(s.log)
      <4>1. PICK j \in 1..Len(s.log) : s.log[j] = <<t, "question">>
        BY <1>3, <3>2 DEF ToSet
      <4>2. r.log[j] = <<r.log[i][1], "question">> /\ j \in 1..(i - 1)
        BY <1>3, <2>2, <4>1
      <4>3. QED
        BY <4>2
    <3>3. QED
      BY <3>1, <3>2
  <2>3. QED
    BY <1>3, <2>1, <2>2
<1>7. QED
  BY <1>2, <1>3, <1>4, <1>5, <1>6 DEF r

(* Nothing that is summarised is lost, or put in another order. *)
LEMMA SummarizeInv ==
    ASSUME NEW s \in Session, Owned(s), Ordered(s)
    PROVE  LET r == Summarize(s)
           IN  /\ r \in Session /\ Owned(r) /\ Ordered(r) /\ r.owner = s.owner
               /\ Known(r) = Known(s) /\ Len(r.log) <= Trigger
<1> DEFINE n == Len(s.log)
           r == Summarize(s)
<1>1. s.log \in Seq(Message) /\ s.digest \subseteq Message /\ n \in Nat
  BY DEF Session
<1>2. CASE n <= Trigger
  BY <1>1, <1>2 DEF Summarize
<1>3. CASE ~(n <= Trigger)
  <2> DEFINE k == n - Keep
             a == SubSeq(s.log, 1, k)
             b == SubSeq(s.log, k + 1, n)
  <2>1. k \in 1..n /\ n = k + Keep /\ Keep \in Nat /\ Trigger \in Nat /\ Keep <= Trigger /\ k + 1 \in 1..(n + 1)
    BY <1>1, <1>3, SessionAssumption
  <2>2. /\ r.log = b /\ r.digest = s.digest \cup ToSet(a) /\ r.owner = s.owner
        /\ r = [s EXCEPT !.log = b, !.digest = s.digest \cup ToSet(a)]
    BY <1>3 DEF Summarize, Session
  <2>3. /\ a \in Seq(Message) /\ Len(a) = k
        /\ \A i \in 1..k : a[i] = s.log[i]
    BY <1>1, <2>1
  <2>4. /\ b \in Seq(Message) /\ Len(b) = Keep
        /\ \A i \in 1..Keep : b[i] = s.log[k + i]
    BY <1>1, <2>1
  <2> HIDE DEF a, b, k, r
  <2>5. DOMAIN a = 1..k /\ DOMAIN b = 1..Keep /\ DOMAIN s.log = 1..n
    BY <1>1, <2>3, <2>4
  <2>6. ToSet(a) \subseteq Message
    BY <2>3, <2>5 DEF ToSet
  <2>7. r \in Session
    BY <1>1, <2>2, <2>4, <2>6 DEF Session
  <2>8. ToSet(s.log) = ToSet(a) \cup ToSet(b)
    <3>1. ASSUME NEW i \in 1..n, i \notin 1..k
          PROVE  i - k \in 1..Keep /\ s.log[i] = b[i - k]
      <4>1. i > k /\ i <= n /\ i \in Nat /\ k \in Nat
        BY <1>1, <2>1, <3>1
      <4> HIDE DEF n
      <4>2. i - k \in 1..Keep /\ k + (i - k) = i
        BY <2>1, <4>1
      <4>3. b[i - k] = s.log[k + (i - k)]
        BY <2>4, <4>2
      <4>4. QED
        BY <4>2, <4>3
    <3>2. ToSet(s.log) \subseteq ToSet(a) \cup ToSet(b)
      BY <2>3, <2>5, <3>1 DEF ToSet
    <3>3. \A i \in 1..k : i \in 1..n
      BY <1>1, <2>1
    <3>4. \A i \in 1..Keep : k + i \in 1..n
      BY <1>1, <2>1 DEF k
    <3>5. ToSet(a) \subseteq ToSet(s.log)
      BY <2>3, <2>5, <3>3 DEF ToSet
    <3>6. ToSet(b) \subseteq ToSet(s.log)
      BY <2>4, <2>5, <3>4 DEF ToSet
    <3>7. QED
      BY <3>2, <3>5, <3>6
  <2>9. Known(r) = Known(s)
    BY <2>2, <2>8 DEF Known
  <2>10. Owned(r)
    BY <2>2, <2>9 DEF Owned
  <2>11. Ordered(r)
    <3> SUFFICES ASSUME NEW i \in 1..Keep, b[i][2] = "answer"
                 PROVE  \/ <<b[i][1], "question">> \in r.digest
                        \/ \E j \in 1..(i - 1) : b[j] = <<b[i][1], "question">>
      BY <2>2, <2>5 DEF Ordered
    <3>1. PICK x \in 1..n : x = k + i /\ b[i] = s.log[x]
      <4>1. k + i \in 1..n
        BY <1>1, <2>1 DEF k
      <4>2. b[i] = s.log[k + i]
        BY <2>4
      <4>3. QED
        BY <4>1, <4>2
    <3>2. \/ <<s.log[x][1], "question">> \in s.digest
          \/ \E j \in 1..(x - 1) : s.log[j] = <<s.log[x][1], "question">>
      BY <2>5, <3>1 DEF Ordered
    <3>3. CASE <<s.log[x][1], "question">> \in s.digest
      BY <2>2, <3>1, <3>3
    <3>4. CASE \E j \in 1..(x - 1) : s.log[j] = <<s.log[x][1], "question">>
      <4>1. PICK j \in 1..(x - 1) : s.log[j] = <<s.log[x][1], "question">>
        BY <3>4
      <4>2. CASE j <= k
        <5>1. j \in 1..k
          BY <2>1, <4>1, <4>2
        <5>2. s.log[j] \in ToSet(a)
          BY <2>3, <2>5, <5>1 DEF ToSet
        <5>3. QED
          BY <2>2, <3>1, <4>1, <5>2
      <4>3. CASE ~(j <= k)
        <5>1. j - k \in 1..(i - 1) /\ j - k \in 1..Keep /\ k + (j - k) = j
          BY <2>1, <3>1, <4>1, <4>3
        <5>2. b[j - k] = s.log[j]
          BY <2>4, <5>1
        <5>3. QED
          BY <3>1, <4>1, <5>1, <5>2
      <4>4. QED
        BY <4>2, <4>3
    <3>5. QED
      BY <3>2, <3>3, <3>4
  <2>12. QED
    BY <2>1, <2>2, <2>4, <2>7, <2>9, <2>10, <2>11 DEF r
<1>4. QED
  BY <1>2, <1>3

(* The rest of a session says nothing of what was said. *)
LEMMA SameTalk ==
    ASSUME NEW s, RecInv(s), NEW r \in Session,
           r.log = s.log, r.digest = s.digest, r.owner = s.owner
    PROVE  RecInv(r) /\ Known(r) = Known(s)
<1>1. Known(r) = Known(s)
  BY DEF Known
<1>2. Owned(r)
  BY <1>1 DEF RecInv, Owned
<1>3. Ordered(r)
  BY Zenon DEF RecInv, Ordered
<1>4. Len(r.log) <= Trigger + 1
  BY DEF RecInv
<1>5. QED
  BY <1>1, <1>2, <1>3, <1>4 DEF RecInv

-----------------------------------------------------------------------------
LEMMA TypesKept ==
    ASSUME IInv, Observe, UNCHANGED kind, readable' \in BOOLEAN,
           written' \subseteq Turns \X Turns, store' \subseteq Session
    PROVE  Types'
<1>1. alone' \subseteq alone
  BY DEF Observe
<1>2. kept' \subseteq kept \cup Turns
  BY DEF Observe
<1>3. settled' \subseteq settled \cup store'
  BY DEF Observe, Stored
<1>4. held' \subseteq held \cup Turns
  BY DEF Observe, Missed
<1>5. QED
  BY <1>1, <1>2, <1>3, <1>4 DEF IInv, Types

(* A turn takes a step and has the copy s, which may be what is stored. *)
LEMMA TurnStep ==
    ASSUME IInv, Types', NEW t \in Turns, NEW to \in Steps, NEW s, CopyInv(t, s, to),
           step' = [step EXCEPT ![t] = to], copy' = [copy EXCEPT ![t] = s],
           store' = {} \/ store' = store \/ store' = {s}
    PROVE  IInv'
<1>1. s \in Session /\ RecInv(s)
  BY DEF CopyInv, RecInv
<1>2. step' \in [Turns -> Steps] /\ copy' \in [Turns -> Session]
  BY <1>1 DEF IInv
<1>3. store' = {} \/ \E r \in Session : store' = {r} /\ RecInv(r)
  BY <1>1 DEF IInv
<1>4. \A u \in Turns : /\ step'[u] = IF u = t THEN to ELSE step[u]
                       /\ copy'[u] = IF u = t THEN s ELSE copy[u]
  BY DEF IInv
<1>5. \A u \in Turns : CopyInv(u, copy'[u], step'[u])
  BY <1>4 DEF IInv
<1>6. QED
  BY <1>2, <1>3, <1>5, Zenon DEF IInv

LEMMA OnlyStepInv ==
    ASSUME IInv, NEW t \in Turns, NEW to \in Steps, to \in Heard => step[t] \in Heard,
           step' = [step EXCEPT ![t] = to], OnlyStep
    PROVE  IInv'
<1>1. CopyInv(t, copy[t], to)
  BY DEF IInv, CopyInv
<1>2. copy' = [copy EXCEPT ![t] = copy[t]] /\ store' = store
  BY DEF IInv, OnlyStep
<1>3. store' \subseteq Session
  BY <1>2 DEF IInv
<1>4. Types'
  BY <1>3, TypesKept DEF OnlyStep, Rest, IInv, Types
<1>5. QED
  BY <1>1, <1>2, <1>4, TurnStep

(* The copy becomes s, and is saved or not. *)
LEMMA CopyStepInv ==
    ASSUME IInv, NEW t \in Turns, NEW to \in Steps, NEW s, CopyInv(t, s, to),
           step' = [step EXCEPT ![t] = to], Rest,
           Save(t, s) \/ (copy' = [copy EXCEPT ![t] = s] /\ UNCHANGED <<store, readable>>)
    PROVE  IInv'
<1>1. s \in Session
  BY DEF CopyInv, RecInv
<1>2. /\ copy' = [copy EXCEPT ![t] = s] /\ (store' = store \/ store' = {s})
      /\ readable' \in BOOLEAN
  BY DEF Save, IInv, Types
<1>3. store' \subseteq Session
  BY <1>1, <1>2 DEF IInv
<1>4. Types'
  BY <1>2, <1>3, TypesKept DEF Rest, IInv, Types
<1>5. QED
  BY <1>2, <1>4, TurnStep

(* What is changed besides the talk. *)
LEMMA FieldsStepInv ==
    ASSUME IInv, NEW t \in Turns, NEW to \in Steps, step[t] \in Heard,
           NEW s \in Session, s.log = copy[t].log, s.digest = copy[t].digest,
           s.owner = copy[t].owner,
           step' = [step EXCEPT ![t] = to], Rest,
           Save(t, s) \/ (copy' = [copy EXCEPT ![t] = s] /\ UNCHANGED <<store, readable>>)
    PROVE  IInv'
<1>1. CopyInv(t, copy[t], step[t])
  BY DEF IInv
<1>2. RecInv(s) /\ Known(s) = Known(copy[t])
  BY <1>1, SameTalk DEF CopyInv
<1>3. CopyInv(t, s, to)
  BY <1>1, <1>2 DEF CopyInv
<1>4. QED
  BY <1>3, CopyStepInv

LEMMA FactKept ==
    ASSUME NEW s \in Session, NEW f \in Turns \cup {None}
    PROVE  /\ [s EXCEPT !.fact = f] \in Session
           /\ [s EXCEPT !.cohort = f] \in Session
           /\ [s EXCEPT !.referent = f] \in Session
           /\ [s EXCEPT !.cohort = None, !.referent = None, !.fact = f] \in Session
  BY DEF Session

-----------------------------------------------------------------------------
LEMMA BeginInv ==
    ASSUME IInv, NEW t \in Turns,
           \/ GetNothing(t) \/ GetUnreadable(t) \/ GetRefused(t) \/ Get(t)
           \/ Discard(t) \/ Create(t)
    PROVE  IInv'
<1>1. CASE GetNothing(t) \/ GetUnreadable(t) \/ GetRefused(t)
  <2>1. PICK to \in {"absent", "unreadable", "refused"} :
           step' = [step EXCEPT ![t] = to] /\ OnlyStep
    BY <1>1 DEF GetNothing, GetUnreadable, GetRefused, Moves
  <2>2. to \in Steps /\ to \notin Heard
    BY DEF Steps, Heard
  <2>3. QED
    BY <2>1, <2>2, OnlyStepInv
<1>2. CASE Get(t)
  <2>1. PICK s \in store : s.owner = Speaker[t] /\ copy' = [copy EXCEPT ![t] = s]
    BY <1>2 DEF Get
  <2>2. RecInv(s) /\ "loaded" \in Steps /\ "loaded" \notin Heard
    BY DEF IInv, Steps, Heard
  <2>3. CopyInv(t, s, "loaded")
    BY <2>1, <2>2 DEF CopyInv
  <2>4. QED
    BY <1>2, <2>1, <2>2, <2>3, CopyStepInv DEF Get, Moves
<1>3. CASE Discard(t)
  <2>1. /\ step' = [step EXCEPT ![t] = "absent"] /\ store' = {} /\ readable' = TRUE
        /\ copy' = [copy EXCEPT ![t] = copy[t]] /\ Rest
    BY <1>3 DEF Discard, Moves, IInv
  <2>2. CopyInv(t, copy[t], "absent") /\ "absent" \in Steps
    BY DEF IInv, CopyInv, Heard, Steps
  <2>3. Types'
    BY <2>1, TypesKept DEF Rest, IInv, Types
  <2>4. QED
    BY <2>1, <2>2, <2>3, TurnStep
<1>4. CASE Create(t)
  <2>1. Speaker[t] \in Principals
    BY SessionAssumption
  <2>2. CopyInv(t, Fresh(Speaker[t]), "loaded") /\ "loaded" \in Steps
    BY <2>1, FreshInv DEF CopyInv, Heard, Steps
  <2>3. QED
    BY <1>4, <2>2, CopyStepInv DEF Create, Moves
<1>5. QED
  BY <1>1, <1>2, <1>3, <1>4

LEMMA HearInv ==
    ASSUME IInv, NEW t \in Turns, Hear(t)
    PROVE  IInv'
<1> DEFINE s == copy[t]
           r == [s EXCEPT !.log = Append(@, <<t, "question">>)]
<1>1. RecInv(s) /\ s.owner = Speaker[t]
  BY DEF IInv, CopyInv
<1>2. /\ r \in Session /\ Owned(r) /\ Ordered(r) /\ r.owner = s.owner
      /\ Known(r) = Known(s) \cup {<<t, "question">>}
  BY <1>1, AppendInv DEF RecInv
<1>3. /\ Save(t, Summarize(r)) /\ Rest /\ step' = [step EXCEPT ![t] = "heard"]
  BY DEF Hear, Moves
<1> HIDE DEF r, s
<1>4. /\ Summarize(r) \in Session /\ Owned(Summarize(r)) /\ Ordered(Summarize(r))
      /\ Summarize(r).owner = r.owner /\ Known(Summarize(r)) = Known(r)
      /\ Len(Summarize(r).log) <= Trigger
  BY <1>2, SummarizeInv
<1>5. Len(Summarize(r).log) <= Trigger + 1
  <2>1. Summarize(r).log \in Seq(Message)
    BY <1>4 DEF Session
  <2>2. Len(Summarize(r).log) \in Nat
    BY <2>1
  <2>3. QED
    BY <1>4, <2>2, SessionAssumption
<1>6. CopyInv(t, Summarize(r), "heard") /\ "heard" \in Steps
  BY <1>1, <1>2, <1>4, <1>5 DEF CopyInv, RecInv, Steps
<1>7. QED
  BY <1>3, <1>6, CopyStepInv

LEMMA PlanningInv ==
    ASSUME IInv, NEW t \in Turns, Prepare(t) \/ Sync(t)
    PROVE  IInv'
<1> DEFINE s == copy[t]
<1>1. s \in Session /\ s.fact \in Turns \cup {None}
  BY DEF IInv, Session
<1>2. CASE Prepare(t)
  <2>1. step[t] \in Heard /\ step' = [step EXCEPT ![t] = "prepared"] /\ Rest
    BY <1>2 DEF Prepare, Moves, Heard
  <2>2. PICK f \in {s.fact, None} :
           IF kind[t] = "shift"
           THEN Save(t, [s EXCEPT !.cohort = None, !.referent = None, !.fact = f])
           ELSE /\ copy' = [copy EXCEPT ![t].fact = f]
                /\ UNCHANGED <<store, readable>>
    BY <1>2 DEF Prepare
  <2>3. f \in Turns \cup {None} /\ "prepared" \in Steps
    BY <1>1 DEF Steps
  <2>4. CASE kind[t] = "shift"
    <3> DEFINE r == [s EXCEPT !.cohort = None, !.referent = None, !.fact = f]
    <3>1. r \in Session /\ r.log = s.log /\ r.digest = s.digest /\ r.owner = s.owner
      BY <1>1, <2>3, FactKept DEF Session
    <3> HIDE DEF r
    <3>2. Save(t, r)
      BY <2>2, <2>4 DEF r
    <3>3. QED
      BY <2>1, <2>3, <3>1, <3>2, FieldsStepInv
  <2>5. CASE kind[t] # "shift"
    <3> DEFINE r == [s EXCEPT !.fact = f]
    <3>1. r \in Session /\ r.log = s.log /\ r.digest = s.digest /\ r.owner = s.owner
      BY <1>1, <2>3, FactKept DEF Session
    <3>2. copy' = [copy EXCEPT ![t] = r] /\ UNCHANGED <<store, readable>>
      BY <2>2, <2>5
    <3> HIDE DEF r
    <3>3. QED
      BY <2>1, <2>3, <3>1, <3>2, FieldsStepInv
  <2>6. QED
    BY <2>4, <2>5
<1>3. CASE Sync(t)
  <2> DEFINE r == [s EXCEPT !.fact = FactAfter(t)]
  <2>1. FactAfter(t) \in Turns \cup {None}
    BY <1>1 DEF FactAfter
  <2>2. r \in Session /\ r.log = s.log /\ r.digest = s.digest /\ r.owner = s.owner
    BY <1>1, <2>1, FactKept DEF Session
  <2>3. step[t] \in Heard /\ step' = [step EXCEPT ![t] = "planned"] /\ Rest
    BY <1>3 DEF Sync, Moves, Heard
  <2>4. Save(t, r) \/ (copy' = [copy EXCEPT ![t] = r] /\ UNCHANGED <<store, readable>>)
    BY <1>3 DEF Sync, IInv
  <2> HIDE DEF r
  <2>5. QED
    BY <2>2, <2>3, <2>4, FieldsStepInv DEF Steps
<1>4. QED
  BY <1>2, <1>3

LEMMA ExecuteInv ==
    ASSUME IInv, NEW t \in Turns, Execute(t)
    PROVE  IInv'
<1>1. /\ step[t] = "planned" /\ step' = [step EXCEPT ![t] = "executed"]
      /\ copy' = [copy EXCEPT ![t] = copy[t]] /\ UNCHANGED <<kind, store, readable>>
      /\ Observe
  BY DEF Execute, Moves, IInv
<1>2. CopyInv(t, copy[t], "executed") /\ "executed" \in Steps
  BY <1>1 DEF IInv, CopyInv, Heard, Steps
<1>3. copy[t].fact \in Turns \cup {None}
  BY DEF IInv, Session
<1>4. written' \subseteq Turns \X Turns
  BY <1>3 DEF Execute, IInv, Types
<1>5. store' \subseteq Session /\ readable' \in BOOLEAN
  BY <1>1 DEF IInv, Types
<1>6. Types'
  BY <1>1, <1>4, <1>5, TypesKept
<1>7. QED
  BY <1>1, <1>2, <1>6, TurnStep

LEMMA CommitInv ==
    ASSUME IInv, NEW t \in Turns,
           CommitCohort(t) \/ CommitReferent(t) \/ CommitNothing(t) \/ Report(t)
    PROVE  IInv'
<1> DEFINE s == copy[t]
<1>1. s \in Session /\ s = [s EXCEPT !.fact = s.fact]
  BY DEF IInv, Session
<1>2. CASE CommitCohort(t)
  <2> DEFINE r == [s EXCEPT !.cohort = t]
  <2>1. r \in Session /\ r.log = s.log /\ r.digest = s.digest /\ r.owner = s.owner
    BY <1>1, FactKept DEF Session
  <2>2. Save(t, r)
    BY <1>2 DEF CommitCohort
  <2> HIDE DEF r
  <2>3. QED
    BY <1>2, <2>1, <2>2, FieldsStepInv DEF CommitCohort, Moves, Heard, Steps
<1>3. ASSUME UNCHANGED <<store, readable, copy>>, Rest, NEW to \in Heard, to \in Steps,
             step[t] \in Heard, step' = [step EXCEPT ![t] = to]
      PROVE  IInv'
  BY <1>3, OnlyStepInv DEF OnlyStep
<1>4. CASE CommitReferent(t)
  <2>1. /\ step[t] \in Heard /\ step' = [step EXCEPT ![t] = "committed"] /\ Rest
        /\ "committed" \in Steps /\ "committed" \in Heard
    BY <1>4 DEF CommitReferent, Moves, Heard, Steps
  <2>2. CASE kind[t] \in {"find", "person"}
    <3> DEFINE r == [s EXCEPT !.referent = t]
    <3>1. r \in Session /\ r.log = s.log /\ r.digest = s.digest /\ r.owner = s.owner
      BY <1>1, FactKept DEF Session
    <3>2. Save(t, r)
      BY <1>4, <2>2 DEF CommitReferent
    <3> HIDE DEF r
    <3>3. QED
      BY <2>1, <3>1, <3>2, FieldsStepInv
  <2>3. CASE kind[t] \notin {"find", "person"}
    BY <1>3, <1>4, <2>1, <2>3 DEF CommitReferent
  <2>4. QED
    BY <2>2, <2>3
<1>5. CASE CommitNothing(t)
  BY <1>5, OnlyStepInv DEF CommitNothing, Moves, Heard, Steps
<1>6. CASE Report(t)
  <2>1. /\ step[t] \in Heard /\ step' = [step EXCEPT ![t] = "reported"] /\ Rest
        /\ "reported" \in Steps /\ "reported" \in Heard
    BY <1>6 DEF Report, Moves, Heard, Steps
  <2>2. CASE kind[t] = "yes" /\ s.fact # None
    <3> DEFINE r == [s EXCEPT !.fact = None]
    <3>1. r \in Session /\ r.log = s.log /\ r.digest = s.digest /\ r.owner = s.owner
      BY <1>1, FactKept DEF Session
    <3>2. Save(t, r)
      BY <1>6, <2>2 DEF Report
    <3> HIDE DEF r
    <3>3. QED
      BY <2>1, <3>1, <3>2, FieldsStepInv
  <2>3. CASE ~(kind[t] = "yes" /\ s.fact # None)
    BY <1>3, <1>6, <2>1, <2>3 DEF Report
  <2>4. QED
    BY <2>2, <2>3
<1>7. QED
  BY <1>2, <1>4, <1>5, <1>6

LEMMA ReplyInv ==
    ASSUME IInv, NEW t \in Turns, Reply(t)
    PROVE  IInv'
<1> DEFINE s == copy[t]
           r == [s EXCEPT !.log = Append(@, <<t, "answer">>)]
<1>1. /\ RecInv(s) /\ s.owner = Speaker[t]
      /\ <<t, "question">> \in Known(s) /\ Len(s.log) <= Trigger
  BY DEF Reply, Moves, IInv, CopyInv, Heard
<1>2. /\ r \in Session /\ Owned(r) /\ Ordered(r) /\ r.owner = s.owner
      /\ Len(r.log) = Len(s.log) + 1
  BY <1>1, AppendInv DEF RecInv
<1>3. /\ Save(t, r) /\ Rest /\ step' = [step EXCEPT ![t] = "done"]
  BY DEF Reply, Moves
<1>4. Len(s.log) \in Nat
  BY <1>1 DEF RecInv, Session
<1> HIDE DEF r, s
<1>5. CopyInv(t, r, "done") /\ "done" \in Steps
  BY <1>1, <1>2, <1>4, SessionAssumption DEF CopyInv, RecInv, Heard, Steps
<1>6. QED
  BY <1>3, <1>5, CopyStepInv

LEMMA LossInv ==
    ASSUME IInv, Expire \/ Drift
    PROVE  IInv'
<1>1. UNCHANGED <<step, copy>> /\ Rest /\ readable' \in BOOLEAN /\ store' \in {store, {}}
  BY DEF Expire, Drift
<1>2. Types'
  BY <1>1, TypesKept DEF Rest, IInv, Types
<1>3. QED
  BY <1>1, <1>2, Zenon DEF IInv

-----------------------------------------------------------------------------
LEMMA StepInv == IInv /\ [Next]_vars => IInv'
<1> SUFFICES ASSUME IInv, [Next]_vars PROVE IInv'
  OBVIOUS
<1>1. ASSUME NEW t \in Turns, Handle(t) PROVE IInv'
  BY <1>1, BeginInv, HearInv, PlanningInv, ExecuteInv, CommitInv, ReplyInv DEF Handle
<1>2. ASSUME NEW t \in Turns, Fail(t) PROVE IInv'
  BY <1>2, OnlyStepInv DEF Fail, Heard, Steps
<1>3. CASE Expire \/ Drift
  BY <1>3, LossInv
<1>4. CASE UNCHANGED vars
  BY <1>4, Zenon DEF vars, IInv, Types
<1>5. QED
  BY <1>1, <1>2, <1>3, <1>4 DEF Next

(* Every variable has its type, and a session is there once. *)
THEOREM TypeCorrect == Spec => []TypeOK
<1>1. IInv => TypeOK
  <2> SUFFICES ASSUME IInv PROVE TypeOK
    OBVIOUS
  <2>1. store \subseteq Session /\ Cardinality(store) <= 1
    <3>1. CASE store = {}
      BY <3>1, FS_EmptySet
    <3>2. CASE \E s \in Session : store = {s}
      <4>1. PICK s \in Session : store = {s}
        BY <3>2
      <4>2. Cardinality({s}) = 1
        BY FS_Singleton
      <4>3. QED
        BY <4>1, <4>2
    <3>3. QED
      BY <3>1, <3>2 DEF IInv
  <2>2. QED
    BY <2>1 DEF IInv, Types, TypeOK
<1>2. QED
  BY InitInv, StepInv, <1>1, PTL DEF Spec

(* Nothing that is stored, or shown to a turn, was said by somebody who is *)
(* not its owner.                                                          *)
THEOREM SessionsHaveOneOwner == Spec => []OneOwner
<1>1. IInv => OneOwner
  <2> SUFFICES ASSUME IInv PROVE OneOwner
    OBVIOUS
  <2>1. \A s \in Records : Owned(s)
    BY DEF IInv, CopyInv, RecInv, Records
  <2>2. \A t \in Turns : copy[t].owner = Speaker[t]
    BY DEF IInv, CopyInv
  <2>3. QED
    BY <2>1, <2>2, Zenon DEF Owned, OneOwner
<1>2. QED
  BY InitInv, StepInv, <1>1, PTL DEF Spec

(* No answer is remembered without its question, or before it, however     *)
(* turns overlap and whatever is summarised.                               *)
THEOREM AnswersHaveQuestions == Spec => []AnswersFollowQuestions
<1>1. IInv => AnswersFollowQuestions
  <2>1. IInv => \A s \in Records : Ordered(s)
    BY DEF IInv, CopyInv, RecInv, Records
  <2>2. QED
    BY <2>1, Zenon DEF Ordered, AnswersFollowQuestions
<1>2. QED
  BY InitInv, StepInv, <1>1, PTL DEF Spec

(* The history is no longer than summary_trigger and one answer. *)
THEOREM HistoriesAreBounded == Spec => []HistoryBounded
<1>1. IInv => HistoryBounded
  BY DEF IInv, CopyInv, RecInv, Records, HistoryBounded
<1>2. QED
  BY InitInv, StepInv, <1>1, PTL DEF Spec

-----------------------------------------------------------------------------
(* What the work of a turn makes of its copy, and of what is stored.       *)

Question(t) == <<t, "question">>
Answer(t) == <<t, "answer">>

Work(t) ==
    \/ Hear(t) \/ Prepare(t) \/ Sync(t) \/ Execute(t) \/ CommitCohort(t)
    \/ CommitReferent(t) \/ CommitNothing(t) \/ Report(t) \/ Reply(t)

(* The messages that a step adds. *)
Says(t, to) == IF to = "heard" THEN {Question(t)}
               ELSE IF to = "done" THEN {Answer(t)} ELSE {}

(* The cohort and the referent of a copy s become those of r. *)
Points(t, from, to, s, r) ==
    \/ r.cohort = s.cohort /\ r.referent = s.referent
          /\ ~(to = "prepared" /\ kind[t] = "shift") /\ "half" \notin {from, to}
    \/ to = "prepared" /\ kind[t] = "shift" /\ r.cohort = None /\ r.referent = None
    \/ to = "half" /\ kind[t] = "find" /\ r.cohort = t /\ r.referent = s.referent
    \/ to = "committed" /\ r.cohort = s.cohort /\ r.referent = t
          /\ (from = "half" \/ kind[t] = "person")

Worked(t, from, to, s, r) ==
    /\ step' = [step EXCEPT ![t] = to] /\ copy' = [copy EXCEPT ![t] = r]
    /\ s = copy[t] /\ from = step[t]
    /\ s \in Session /\ r \in Session /\ r.owner = s.owner
    /\ Known(r) = Known(s) \cup Says(t, to)
    /\ Points(t, from, to, s, r)
    /\ r.fact \in {s.fact, None} \/ (to = "planned" /\ kind[t] = "ask" /\ r.fact = t)
    /\ kind[t] = "cancel" /\ to = "planned" => r.fact = None
    /\ \/ store' = {r} /\ readable' = TRUE
       \/ /\ UNCHANGED <<store, readable>> /\ to \notin {"heard", "done"}
          /\ Known(r) = Known(s) /\ r.cohort = s.cohort /\ r.referent = s.referent

Order == {<<"loaded", "heard">>, <<"heard", "prepared">>, <<"prepared", "planned">>,
          <<"planned", "executed">>, <<"executed", "half">>, <<"half", "committed">>,
          <<"executed", "committed">>, <<"committed", "reported">>, <<"reported", "done">>}

LEMMA FieldsWorked ==
    ASSUME IInv, NEW t \in Turns, NEW to \in {"prepared", "planned", "executed", "half", "committed", "reported"},
           NEW r \in Session, r.log = copy[t].log, r.digest = copy[t].digest,
           r.owner = copy[t].owner,
           step' = [step EXCEPT ![t] = to], copy' = [copy EXCEPT ![t] = r],
           Points(t, step[t], to, copy[t], r),
           r.fact \in {copy[t].fact, None} \/ (to = "planned" /\ kind[t] = "ask" /\ r.fact = t),
           kind[t] = "cancel" /\ to = "planned" => r.fact = None,
           \/ store' = {r} /\ readable' = TRUE
           \/ /\ UNCHANGED <<store, readable>>
              /\ r.cohort = copy[t].cohort /\ r.referent = copy[t].referent
    PROVE  Worked(t, step[t], to, copy[t], r)
<1>1. copy[t] \in Session
  BY DEF IInv
<1>2. Known(r) = Known(copy[t])
  BY DEF Known
<1>3. Says(t, to) = {}
  BY DEF Says
<1>4. QED
  BY <1>1, <1>2, <1>3 DEF Worked

LEMMA WorkDone ==
    ASSUME IInv, NEW t \in Turns, Work(t)
    PROVE  \E from, to, s, r : Worked(t, from, to, s, r) /\ <<from, to>> \in Order
<1> DEFINE s == copy[t]
<1>1. /\ s \in Session /\ s.fact \in Turns \cup {None} /\ RecInv(s)
      /\ s.owner = Speaker[t] /\ copy \in [Turns -> Session]
  BY DEF IInv, CopyInv, Session
<1>2. ASSUME UNCHANGED <<store, readable, copy>>, step[t] # "half",
             NEW to \in {"executed", "committed", "reported"}, step' = [step EXCEPT ![t] = to]
      PROVE  Worked(t, step[t], to, s, s)
  <2>1. copy' = [copy EXCEPT ![t] = s]
    BY <1>1, <1>2
  <2>2. Points(t, step[t], to, s, s)
    BY <1>2 DEF Points
  <2>3. QED
    BY <1>1, <1>2, <2>1, <2>2, FieldsWorked
<1>3. CASE Hear(t)
  <2> DEFINE m == [s EXCEPT !.log = Append(@, <<t, "question">>)]
             r == Summarize(m)
  <2>1. m \in Session /\ Owned(m) /\ Ordered(m) /\ m.owner = s.owner
        /\ Known(m) = Known(s) \cup {Question(t)}
    BY <1>1, AppendInv DEF RecInv, Question
  <2>2. m.cohort = s.cohort /\ m.referent = s.referent /\ m.fact = s.fact
    BY <1>1 DEF Session
  <2>3. Save(t, r) /\ step[t] = "loaded" /\ step' = [step EXCEPT ![t] = "heard"]
    BY <1>3 DEF Hear, Moves
  <2> HIDE DEF m
  <2>4. r \in Session /\ r.owner = m.owner /\ Known(r) = Known(m)
    BY <2>1, SummarizeInv
  <2>5. r.cohort = m.cohort /\ r.referent = m.referent /\ r.fact = m.fact
    BY <2>1 DEF Summarize, Session
  <2> HIDE DEF r
  <2>6. Points(t, "loaded", "heard", s, r)
    BY <2>2, <2>5 DEF Points
  <2>7. Worked(t, "loaded", "heard", s, r)
    BY <1>1, <2>1, <2>2, <2>3, <2>4, <2>5, <2>6 DEF Worked, Says, Save
  <2>8. QED
    BY <2>7 DEF Order
<1>4. CASE Prepare(t)
  <2>1. step[t] = "heard" /\ step' = [step EXCEPT ![t] = "prepared"]
    BY <1>4 DEF Prepare, Moves
  <2>2. PICK f \in {s.fact, None} :
           IF kind[t] = "shift"
           THEN Save(t, [s EXCEPT !.cohort = None, !.referent = None, !.fact = f])
           ELSE /\ copy' = [copy EXCEPT ![t].fact = f]
                /\ UNCHANGED <<store, readable>>
    BY <1>4 DEF Prepare
  <2>3. f \in Turns \cup {None}
    BY <1>1
  <2>4. CASE kind[t] = "shift"
    <3> DEFINE r == [s EXCEPT !.cohort = None, !.referent = None, !.fact = f]
    <3>1. r \in Session /\ r.log = s.log /\ r.digest = s.digest /\ r.owner = s.owner
          /\ r.cohort = None /\ r.referent = None /\ r.fact = f
      BY <1>1, <2>3, FactKept DEF Session
    <3>2. Save(t, r)
      BY <2>2, <2>4
    <3> HIDE DEF r
    <3>3. Points(t, "heard", "prepared", s, r)
      BY <2>4, <3>1 DEF Points
    <3>4. Worked(t, "heard", "prepared", s, r)
      BY <2>1, <2>2, <2>4, <3>1, <3>2, <3>3, FieldsWorked DEF Save
    <3>5. QED
      BY <3>4 DEF Order
  <2>5. CASE kind[t] # "shift"
    <3> DEFINE r == [s EXCEPT !.fact = f]
    <3>1. r \in Session /\ r.log = s.log /\ r.digest = s.digest /\ r.owner = s.owner
          /\ r.cohort = s.cohort /\ r.referent = s.referent /\ r.fact = f
      BY <1>1, <2>3, FactKept DEF Session
    <3>2. copy' = [copy EXCEPT ![t] = r] /\ UNCHANGED <<store, readable>>
      BY <2>2, <2>5
    <3> HIDE DEF r
    <3>3. Points(t, "heard", "prepared", s, r)
      BY <2>5, <3>1 DEF Points
    <3>4. Worked(t, "heard", "prepared", s, r)
      BY <2>1, <2>2, <3>1, <3>2, <3>3, FieldsWorked
    <3>5. QED
      BY <3>4 DEF Order
  <2>6. QED
    BY <2>4, <2>5
<1>5. CASE Sync(t)
  <2> DEFINE r == [s EXCEPT !.fact = FactAfter(t)]
  <2>1. FactAfter(t) \in Turns \cup {None}
        /\ (FactAfter(t) \in {s.fact, None} \/ (kind[t] = "ask" /\ FactAfter(t) = t))
        /\ (kind[t] = "cancel" => FactAfter(t) = None)
    BY <1>1 DEF FactAfter
  <2>2. r \in Session /\ r.log = s.log /\ r.digest = s.digest /\ r.owner = s.owner
        /\ r.cohort = s.cohort /\ r.referent = s.referent /\ r.fact = FactAfter(t)
    BY <1>1, <2>1, FactKept DEF Session
  <2>3. step[t] = "prepared" /\ step' = [step EXCEPT ![t] = "planned"]
    BY <1>5 DEF Sync, Moves
  <2>4. Save(t, r) \/ (copy' = [copy EXCEPT ![t] = r] /\ UNCHANGED <<store, readable>>)
    BY <1>5 DEF Sync, IInv
  <2> HIDE DEF r
  <2>5. Points(t, "prepared", "planned", s, r)
    BY <2>2 DEF Points
  <2>6. Worked(t, "prepared", "planned", s, r)
    BY <2>1, <2>2, <2>3, <2>4, <2>5, FieldsWorked DEF Save
  <2>7. QED
    BY <2>6 DEF Order
<1>6. CASE Execute(t)
  <2>1. UNCHANGED <<store, readable, copy>> /\ step[t] = "planned"
        /\ step' = [step EXCEPT ![t] = "executed"]
    BY <1>6 DEF Execute, Moves
  <2>2. Worked(t, "planned", "executed", s, s)
    BY <1>2, <2>1
  <2>3. QED
    BY <2>2 DEF Order
<1>7. CASE CommitCohort(t)
  <2> DEFINE r == [s EXCEPT !.cohort = t]
  <2>1. r \in Session /\ r.log = s.log /\ r.digest = s.digest /\ r.owner = s.owner
        /\ r.cohort = t /\ r.referent = s.referent /\ r.fact = s.fact
    BY <1>1, FactKept DEF Session
  <2>2. Save(t, r) /\ step[t] = "executed" /\ step' = [step EXCEPT ![t] = "half"]
    BY <1>7 DEF CommitCohort, Moves
  <2> HIDE DEF r
  <2>3. Points(t, "executed", "half", s, r)
    BY <1>7, <2>1 DEF Points, CommitCohort
  <2>4. Worked(t, "executed", "half", s, r)
    BY <2>1, <2>2, <2>3, FieldsWorked DEF Save
  <2>5. QED
    BY <2>4 DEF Order
<1>8. CASE CommitReferent(t)
  <2>1. step' = [step EXCEPT ![t] = "committed"] /\ <<step[t], "committed">> \in Order
        /\ IF kind[t] = "find" THEN step[t] = "half" ELSE step[t] = "executed"
    BY <1>8 DEF CommitReferent, Moves, Order
  <2>2. CASE kind[t] \in {"find", "person"}
    <3> DEFINE r == [s EXCEPT !.referent = t]
    <3>1. r \in Session /\ r.log = s.log /\ r.digest = s.digest /\ r.owner = s.owner
          /\ r.cohort = s.cohort /\ r.referent = t /\ r.fact = s.fact
      BY <1>1, FactKept DEF Session
    <3>2. Save(t, r)
      BY <1>8, <2>2 DEF CommitReferent
    <3> HIDE DEF r
    <3>3. Points(t, step[t], "committed", s, r)
      BY <2>1, <2>2, <3>1 DEF Points
    <3>4. Worked(t, step[t], "committed", s, r)
      BY <2>1, <3>1, <3>2, <3>3, FieldsWorked DEF Save
    <3>5. QED
      BY <2>1, <3>4
  <2>3. CASE kind[t] \notin {"find", "person"}
    <3>1. Worked(t, step[t], "committed", s, s)
      BY <1>2, <1>8, <2>1, <2>3 DEF CommitReferent
    <3>2. QED
      BY <2>1, <3>1
  <2>4. QED
    BY <2>2, <2>3
<1>9. CASE CommitNothing(t)
  <2>1. UNCHANGED <<store, readable, copy>> /\ step[t] = "executed"
        /\ step' = [step EXCEPT ![t] = "committed"]
    BY <1>9 DEF CommitNothing, Moves, OnlyStep
  <2>2. Worked(t, "executed", "committed", s, s)
    BY <1>2, <2>1
  <2>3. QED
    BY <2>2 DEF Order
<1>10. CASE Report(t)
  <2>1. step[t] = "committed" /\ step' = [step EXCEPT ![t] = "reported"]
    BY <1>10 DEF Report, Moves
  <2>2. CASE kind[t] = "yes" /\ s.fact # None
    <3> DEFINE r == [s EXCEPT !.fact = None]
    <3>1. r \in Session /\ r.log = s.log /\ r.digest = s.digest /\ r.owner = s.owner
          /\ r.cohort = s.cohort /\ r.referent = s.referent /\ r.fact = None
      BY <1>1, FactKept DEF Session
    <3>2. Save(t, r)
      BY <1>10, <2>2 DEF Report
    <3> HIDE DEF r
    <3>3. Points(t, "committed", "reported", s, r)
      BY <3>1 DEF Points
    <3>4. Worked(t, "committed", "reported", s, r)
      BY <2>1, <3>1, <3>2, <3>3, FieldsWorked DEF Save
    <3>5. QED
      BY <3>4 DEF Order
  <2>3. CASE ~(kind[t] = "yes" /\ s.fact # None)
    <3>1. Worked(t, "committed", "reported", s, s)
      BY <1>2, <1>10, <2>1, <2>3 DEF Report
    <3>2. QED
      BY <3>1 DEF Order
  <2>4. QED
    BY <2>2, <2>3
<1>11. CASE Reply(t)
  <2> DEFINE r == [s EXCEPT !.log = Append(@, <<t, "answer">>)]
  <2>1. step[t] = "reported" /\ step' = [step EXCEPT ![t] = "done"] /\ Save(t, r)
    BY <1>11 DEF Reply, Moves
  <2>2. <<t, "question">> \in Known(s)
    BY <2>1 DEF IInv, CopyInv, Heard
  <2>3. r \in Session /\ r.owner = s.owner /\ Known(r) = Known(s) \cup {Answer(t)}
    BY <1>1, <2>2, AppendInv DEF RecInv, Answer
  <2>4. r.cohort = s.cohort /\ r.referent = s.referent /\ r.fact = s.fact
    BY <1>1 DEF Session
  <2> HIDE DEF r
  <2>5. Points(t, "reported", "done", s, r)
    BY <2>4 DEF Points
  <2>6. Worked(t, "reported", "done", s, r)
    BY <1>1, <2>1, <2>3, <2>4, <2>5 DEF Worked, Says, Save
  <2>7. QED
    BY <2>6 DEF Order
<1>12. QED
  BY <1>3, <1>4, <1>5, <1>6, <1>7, <1>8, <1>9, <1>10, <1>11 DEF Work

-----------------------------------------------------------------------------
(* Turns that ran with no other.  What they said is in the store and in    *)
(* every copy that may overwrite it: a turn that found no session runs     *)
(* only when nothing is to be kept.                                        *)

Pair(t) == {Question(t), Answer(t)}

AInv ==
    /\ IsFiniteSet(Running)
    /\ \A t \in kept : step[t] = "done"
    /\ Stored = {} => kept = {}
    /\ \A t, u \in Running : t # u => t \notin alone
    /\ \A t \in alone \cap kept :
          /\ \A s \in store : Pair(t) \subseteq Known(s)
          /\ \A u \in Running : /\ step[u] \notin {"absent", "unreadable"}
                                /\ Pair(t) \subseteq Known(copy[u])

LEMMA Company ==
    ASSUME IInv, AInv, NEW t \in Turns, NEW to, step' = [step EXCEPT ![t] = to], Observe
    PROVE  /\ Running' = IF to \in Over \cup {"waiting"} THEN Running \ {t}
                         ELSE Running \cup {t}
           /\ IsFiniteSet(Running)' /\ alone' \subseteq alone
           /\ \A u, v \in Running' : u # v => u \notin alone'
           /\ kept' \subseteq kept \cup (IF to = "done" THEN {t} ELSE {})
<1>1. \A u \in Turns : step'[u] = IF u = t THEN to ELSE step[u]
  BY DEF IInv
<1>2. Running' = IF to \in Over \cup {"waiting"} THEN Running \ {t} ELSE Running \cup {t}
  BY <1>1 DEF Running
<1>3. IsFiniteSet(Running \cup {t}) /\ Running' \subseteq Running \cup {t}
  BY <1>2, FS_AddElement DEF AInv
<1>4. IsFiniteSet(Running')
  BY <1>3, FS_Subset
<1>5. ASSUME NEW u \in Running', NEW v \in Running', u # v PROVE u \notin alone'
  <2>1. IsFiniteSet({u}) /\ Cardinality({u}) = 1
    BY FS_Singleton
  <2>2. IsFiniteSet({u} \cup {v}) /\ Cardinality({u} \cup {v}) = 2
    BY <1>5, <2>1, FS_AddElement
  <2>3. Cardinality({u} \cup {v}) <= Cardinality(Running')
    BY <1>4, FS_Subset
  <2>4. Cardinality(Running') \in Nat
    BY <1>4, FS_CardinalityType
  <2>5. Cardinality(Running') > 1
    BY <2>2, <2>3, <2>4
  <2>6. QED
    BY <2>5 DEF Observe
<1>6. alone' \subseteq alone
  BY DEF Observe
<1>7. kept' \subseteq kept \cup (IF to = "done" THEN {t} ELSE {})
  BY <1>1 DEF Observe
<1>8. QED
  BY <1>2, <1>4, <1>5, <1>6, <1>7

(* A turn begins, is refused or breaks off. *)
LEMMA BeginAInv ==
    ASSUME IInv, AInv, NEW t \in Turns,
           \/ GetNothing(t) \/ GetUnreadable(t) \/ GetRefused(t) \/ Get(t)
           \/ Discard(t) \/ Create(t) \/ Fail(t)
    PROVE  AInv'
<1>1. PICK to \in Steps \ {"done"} : step' = [step EXCEPT ![t] = to] /\ step[t] # "done"
  BY DEF GetNothing, GetUnreadable, GetRefused, Get, Discard, Create, Fail, Moves,
         Running, Over, Steps
<1>2. Observe
  BY DEF GetNothing, GetUnreadable, GetRefused, Get, Discard, Create, Fail, OnlyStep, Rest
<1>3. /\ Running' = IF to \in Over \cup {"waiting"} THEN Running \ {t} ELSE Running \cup {t}
      /\ IsFiniteSet(Running)' /\ alone' \subseteq alone /\ kept' \subseteq kept
      /\ \A u, v \in Running' : u # v => u \notin alone'
  BY <1>1, <1>2, Company
<1>4. \A u \in Turns : step'[u] = IF u = t THEN to ELSE step[u]
  BY <1>1 DEF IInv
<1>5. \A u \in kept' : step'[u] = "done"
  BY <1>1, <1>3, <1>4 DEF AInv, IInv, Types
<1>6. (Stored = {} => kept = {})'
  BY <1>2 DEF Observe
<1> DEFINE Talk == \A x \in alone' \cap kept' :
                      /\ \A s \in store' : Pair(x) \subseteq Known(s)
                      /\ \A u \in Running' : /\ step'[u] \notin {"absent", "unreadable"}
                                             /\ Pair(x) \subseteq Known(copy'[u])
<1>7. SUFFICES Talk
  BY <1>3, <1>5, <1>6 DEF AInv, Pair, Question, Answer, Known, ToSet
<1>8. CASE GetNothing(t) \/ GetUnreadable(t) \/ Discard(t)
  <2>1. Stored' = {}
    BY <1>8 DEF GetNothing, GetUnreadable, Discard, OnlyStep, Stored
  <2>2. QED
    BY <1>6, <2>1
<1>9. CASE GetRefused(t) \/ Fail(t)
  <2>1. UNCHANGED <<store, copy>> /\ to \in Over
    BY <1>1, <1>4, <1>9 DEF GetRefused, Fail, OnlyStep, Moves, Over, IInv
  <2>2. QED
    BY <1>3, <1>4, <2>1 DEF AInv, Running
<1>10. CASE Get(t)
  <2>1. PICK s \in store : copy' = [copy EXCEPT ![t] = s]
    BY <1>10 DEF Get
  <2>2. store' = store /\ step'[t] = "loaded"
    BY <1>4, <1>10 DEF Get, Moves, IInv
  <2>3. \A u \in Turns : copy'[u] = IF u = t THEN s ELSE copy[u]
    BY <2>1 DEF IInv
  <2>4. QED
    BY <1>3, <1>4, <2>2, <2>3 DEF AInv, Running
<1>11. CASE Create(t)
  <2>1. t \in Running /\ step[t] = "absent"
    BY <1>11 DEF Create, Moves, Running, Over
  <2>2. QED
    BY <1>3, <2>1 DEF AInv
<1>12. QED
  BY <1>8, <1>9, <1>10, <1>11

LEMMA WorkAInv ==
    ASSUME IInv, AInv, NEW t \in Turns, Work(t)
    PROVE  AInv'
<1>1. PICK from, to, s, r : Worked(t, from, to, s, r) /\ <<from, to>> \in Order
  BY WorkDone
<1>2. Observe
  BY DEF Work, Hear, Prepare, Sync, Execute, CommitCohort, CommitReferent,
         CommitNothing, Report, Reply, OnlyStep, Rest
<1>3. /\ from = step[t] /\ step' = [step EXCEPT ![t] = to]
      /\ s = copy[t] /\ copy' = [copy EXCEPT ![t] = r]
      /\ Known(r) = Known(s) \cup Says(t, to)
      /\ (store' = {r}) \/ (store' = store /\ to # "done")
  BY <1>1 DEF Worked
<1>4. /\ Running' = IF to \in Over \cup {"waiting"} THEN Running \ {t} ELSE Running \cup {t}
      /\ IsFiniteSet(Running)' /\ alone' \subseteq alone
      /\ \A u, v \in Running' : u # v => u \notin alone'
      /\ kept' \subseteq kept \cup (IF to = "done" THEN {t} ELSE {})
  BY <1>2, <1>3, Company
<1>5. \A u \in Turns : /\ step'[u] = IF u = t THEN to ELSE step[u]
                       /\ copy'[u] = IF u = t THEN r ELSE copy[u]
  BY <1>3 DEF IInv
<1>6. from \notin Over \cup {"waiting", "absent", "unreadable"}
      /\ to \notin {"absent", "unreadable", "waiting", "refused", "failed"}
      /\ (to = "done" => from \in Heard)
  BY <1>1 DEF Order, Over, Heard
<1>7. t \in Running
  BY <1>3, <1>6 DEF Running
<1>8. \A u \in kept' : step'[u] = "done"
  BY <1>3, <1>4, <1>5, <1>6 DEF AInv, IInv, Types, Over
<1>9. (Stored = {} => kept = {})'
  BY <1>2 DEF Observe
<1>10. ASSUME NEW x \in alone' \cap kept'
       PROVE  /\ \A p \in store' : Pair(x) \subseteq Known(p)
              /\ \A u \in Running' : /\ step'[u] \notin {"absent", "unreadable"}
                                     /\ Pair(x) \subseteq Known(copy'[u])
  <2>1. CASE x = t
    <3>1. to = "done"
      BY <1>3, <1>4, <1>6, <1>10, <2>1 DEF AInv, Over
    <3>2. Question(t) \in Known(s)
      BY <1>3, <1>6, <3>1 DEF IInv, CopyInv, Question
    <3>3. store' = {r} /\ Pair(t) \subseteq Known(r)
      BY <1>3, <3>1, <3>2 DEF Says, Pair
    <3>4. Running' = {}
      BY <1>4, <1>7, <1>10, <2>1, <3>1 DEF AInv, Over
    <3>5. QED
      BY <2>1, <3>3, <3>4
  <2>2. CASE x # t
    <3>1. x \in alone \cap kept
      BY <1>4, <1>10, <2>2
    <3>2. Pair(x) \subseteq Known(r)
      BY <1>3, <1>7, <3>1 DEF AInv
    <3>3. \A p \in store' : Pair(x) \subseteq Known(p)
      BY <1>3, <3>1, <3>2 DEF AInv
    <3>4. \A u \in Running' : u # t => u \in Running
      BY <1>4
    <3>5. \A u \in Running' : u \in Turns
      BY DEF Running
    <3>6. QED
      BY <1>5, <1>6, <3>1, <3>2, <3>3, <3>4, <3>5 DEF AInv
  <2>3. QED
    BY <2>1, <2>2
<1>11. QED
  BY <1>4, <1>8, <1>9, <1>10 DEF AInv, Pair, Question, Answer, Known, ToSet

LEMMA AloneStep == IInv /\ AInv /\ [Next]_vars => AInv'
<1> SUFFICES ASSUME IInv, AInv, [Next]_vars PROVE AInv'
  OBVIOUS
<1>1. ASSUME NEW t \in Turns, Handle(t) \/ Fail(t) PROVE AInv'
  BY <1>1, BeginAInv, WorkAInv DEF Handle, Work
<1>2. CASE Expire \/ Drift
  <2>1. UNCHANGED <<step, copy>> /\ Stored' = {} /\ Observe
    BY <1>2 DEF Expire, Drift, Stored, Rest
  <2>2. kept' = {} /\ Running' = Running /\ alone' \subseteq alone
    BY <2>1 DEF Observe, Running
  <2>3. QED
    BY <2>2 DEF AInv
<1>3. CASE UNCHANGED vars
  BY <1>3 DEF vars, AInv, Running, Stored, Known
<1>4. QED
  BY <1>1, <1>2, <1>3 DEF Next

(* Question and answer of a turn that ran alone stay in the session until  *)
(* it is lost as a whole, however many other turns run before and after,   *)
(* overlapping or not.                                                     *)
THEOREM AloneStays == Spec => []AloneIsKept
<1>1. Init => AInv
  <2> SUFFICES ASSUME Init PROVE AInv
    OBVIOUS
  <2>1. Running = {} /\ kept = {}
    BY DEF Init, Running
  <2>2. QED
    BY <2>1, FS_EmptySet DEF AInv
<1>2. AInv => AloneIsKept
  BY DEF AInv, AloneIsKept, Stored, Pair, Question, Answer
<1>3. QED
  BY InitInv, StepInv, <1>1, AloneStep, <1>2, PTL DEF Spec

-----------------------------------------------------------------------------
(* A cancellation drops the question that is pending, and a question whose *)
(* answer it has seen is pending later only if it was held.                *)

Live == store \cup {copy[t] : t \in Loaded}
Cancelled == {"planned", "executed", "half", "committed", "reported", "done"}

CInv ==
    /\ \A r \in Records, u \in Turns : Answer(u) \in Known(r) => step[u] = "done"
    /\ \A r \in Records : r.fact # None => kind[r.fact] = "ask"
    /\ \A c \in Turns, r \in Live :
          /\ kind[c] = "cancel" /\ step[c] \in Cancelled
          /\ r.fact # None /\ Answer(r.fact) \in Known(copy[c])
          => r.fact \in held

LEMMA FreshSilent ==
    ASSUME NEW p \in Principals
    PROVE  Known(Fresh(p)) = {} /\ Fresh(p).fact = None
           /\ Fresh(p).cohort = None /\ Fresh(p).referent = None
<1>1. Fresh(p).log = <<>> /\ Fresh(p).digest = {} /\ Fresh(p).fact = None
      /\ Fresh(p).cohort = None /\ Fresh(p).referent = None
  BY DEF Fresh
<1>2. ToSet(<<>>) = {}
  BY DEF ToSet
<1>3. QED
  BY <1>1, <1>2 DEF Known

(* The part of CInv that speaks of a cancellation. *)
LEMMA NewCInv ==
    ASSUME \A r \in Records', u \in Turns : Answer(u) \in Known(r) => step'[u] = "done",
           \A r \in Records' : r.fact # None => kind'[r.fact] = "ask",
           \A c \in Turns, r \in Live' :
              /\ kind'[c] = "cancel" /\ step'[c] \in Cancelled
              /\ r.fact # None /\ Answer(r.fact) \in Known(copy'[c])
              => r.fact \in held'
    PROVE  CInv'
BY DEF CInv, Answer, Known, ToSet

LEMMA BeginCInv ==
    ASSUME IInv, CInv, NEW t \in Turns,
           \/ GetNothing(t) \/ GetUnreadable(t) \/ GetRefused(t) \/ Get(t)
           \/ Discard(t) \/ Create(t) \/ Fail(t)
    PROVE  CInv'
<1>1. PICK to \in {"absent", "unreadable", "refused", "loaded", "failed"} :
         step' = [step EXCEPT ![t] = to] /\ step[t] # "done"
  BY DEF GetNothing, GetUnreadable, GetRefused, Get, Discard, Create, Fail, Moves, Running, Over
<1>2. kind' = kind /\ held \subseteq held'
  BY DEF GetNothing, GetUnreadable, GetRefused, Get, Discard, Create, Fail, OnlyStep, Rest, Observe
<1>3. PICK r : /\ copy' = [copy EXCEPT ![t] = r]
               /\ r \in store \/ r = copy[t] \/ (Known(r) = {} /\ r.fact = None)
               /\ to = "loaded" => r \in store \/ (Known(r) = {} /\ r.fact = None)
               /\ store' \subseteq store \cup {r}
               /\ r \notin store => store' \subseteq store
                     \/ (Known(r) = {} /\ r.fact = None)
  <2>1. CASE GetNothing(t) \/ GetUnreadable(t) \/ GetRefused(t) \/ Fail(t) \/ Discard(t)
    <3>1. copy' = [copy EXCEPT ![t] = copy[t]] /\ store' \subseteq store /\ to # "loaded"
      BY <1>1, <2>1 DEF GetNothing, GetUnreadable, GetRefused, Fail, Discard, OnlyStep, Moves, IInv
    <3>2. QED
      BY <3>1
  <2>2. CASE Get(t)
    BY <2>2 DEF Get
  <2>3. CASE Create(t)
    <3>1. Known(Fresh(Speaker[t])) = {} /\ Fresh(Speaker[t]).fact = None
      BY FreshSilent, SessionAssumption
    <3>2. QED
      BY <2>3, <3>1 DEF Create, Save
  <2>4. QED
    BY <2>1, <2>2, <2>3
<1>4. \A u \in Turns : /\ step'[u] = IF u = t THEN to ELSE step[u]
                       /\ copy'[u] = IF u = t THEN r ELSE copy[u]
  BY <1>1, <1>3 DEF IInv
<1>5. \A x \in Records' : x \in Records \/ (Known(x) = {} /\ x.fact = None)
  <2>1. Records' = store' \cup {copy'[u] : u \in Turns}
    BY DEF Records
  <2>2. QED
    BY <1>3, <1>4, <2>1 DEF Records
<1>6. /\ \A x \in Records', u \in Turns : Answer(u) \in Known(x) => step'[u] = "done"
      /\ \A x \in Records' : x.fact # None => kind'[x.fact] = "ask"
  BY <1>1, <1>2, <1>4, <1>5 DEF CInv
<1>7. \A x \in Live' : x \in Live \/ x.fact = None
  <2>1. Live' = store' \cup {copy'[u] : u \in Loaded'}
    BY DEF Live
  <2>2. \A u \in Loaded' : IF u = t THEN to = "loaded" ELSE u \in Loaded
    BY <1>4 DEF Loaded, Heard
  <2>3. \A u \in Loaded' : copy'[u] \in Live \/ copy'[u].fact = None
    BY <1>3, <1>4, <2>2 DEF Live, Loaded
  <2>4. QED
    BY <1>3, <2>1, <2>3 DEF Live
<1>8. \A c \in Turns : step'[c] \in Cancelled => step[c] \in Cancelled /\ copy'[c] = copy[c]
  BY <1>4 DEF Cancelled
<1>9. QED
  BY <1>2, <1>6, <1>7, <1>8, NewCInv DEF CInv

LEMMA WorkCInv ==
    ASSUME IInv, CInv, NEW t \in Turns, Work(t)
    PROVE  CInv'
<1>1. PICK from, to, s, r : Worked(t, from, to, s, r) /\ <<from, to>> \in Order
  BY WorkDone
<1>2. kind' = kind /\ Observe
  BY DEF Work, Hear, Prepare, Sync, Execute, CommitCohort, CommitReferent,
         CommitNothing, Report, Reply, OnlyStep, Rest
<1>3. held \subseteq held' /\ \A c \in Turns : Cancels(c) => Missed(c) \subseteq held'
  BY <1>2 DEF Observe
<1>4. /\ from = step[t] /\ step' = [step EXCEPT ![t] = to]
      /\ s = copy[t] /\ copy' = [copy EXCEPT ![t] = r]
      /\ s \in Session /\ r \in Session
      /\ Known(r) = Known(s) \cup Says(t, to)
      /\ r.fact \in {s.fact, None} \/ (to = "planned" /\ kind[t] = "ask" /\ r.fact = t)
      /\ kind[t] = "cancel" /\ to = "planned" => r.fact = None
      /\ (store' = {r}) \/ (store' = store /\ to # "done")
  BY <1>1 DEF Worked
<1>5. \A u \in Turns : /\ step'[u] = IF u = t THEN to ELSE step[u]
                       /\ copy'[u] = IF u = t THEN r ELSE copy[u]
  BY <1>4 DEF IInv
<1>6. t \in Loaded /\ step[t] # "done"
  BY <1>1, <1>4 DEF Order, Heard, Loaded
<1>7. \A x \in Records' : x \in Records \/ x = r
  <2>1. Records' = store' \cup {copy'[u] : u \in Turns}
    BY DEF Records
  <2>2. QED
    BY <1>4, <1>5, <2>1 DEF Records
<1>8. \A x \in Records', u \in Turns : Answer(u) \in Known(x) => step'[u] = "done"
  <2>1. ASSUME NEW u \in Turns, Answer(u) \in Known(r) PROVE step'[u] = "done"
    <3>1. CASE Answer(u) \in Known(s)
      BY <1>4, <1>5, <1>6, <3>1 DEF CInv, Records
    <3>2. CASE Answer(u) \in Says(t, to)
      BY <1>5, <3>2 DEF Says, Answer, Question
    <3>3. QED
      BY <1>4, <2>1, <3>1, <3>2
  <2>2. \A u \in Turns : step[u] = "done" => step'[u] = "done"
    BY <1>5, <1>6
  <2>3. QED
    BY <1>7, <2>1, <2>2 DEF CInv
<1>9. \A x \in Records' : x.fact # None => kind'[x.fact] = "ask"
  BY <1>2, <1>4, <1>7 DEF CInv, Records
<1>10. ASSUME NEW c \in Turns, NEW x \in Live', kind[c] = "cancel", step'[c] \in Cancelled,
              x.fact # None, Answer(x.fact) \in Known(copy'[c])
       PROVE  x.fact \in held'
  <2>1. x \in Live \/ x = r
    <3>1. Live' = store' \cup {copy'[u] : u \in Loaded'}
      BY DEF Live
    <3>2. \A u \in Loaded' : u = t \/ u \in Loaded
      BY <1>5 DEF Loaded
    <3>3. QED
      BY <1>4, <1>5, <3>1, <3>2 DEF Live, Loaded
  <2>2. x \in Records'
    BY DEF Live, Records, Loaded
  <2>3. kind[x.fact] = "ask" /\ x.fact # c
    BY <1>2, <1>9, <1>10, <2>2
  <2>4. CASE c = t /\ to = "planned"
    <3>1. Cancels(c)
      <4>1. step[c] = "prepared"
        BY <1>1, <1>4, <2>4 DEF Order
      <4>2. QED
        BY <1>5, <1>10, <2>4, <4>1 DEF Cancels
    <3>2. x # r
      BY <1>4, <1>10, <2>4
    <3>3. x \in (store' \ {copy'[c]}) \cup {copy[u] : u \in Loaded \ {c}}
      <4>1. copy'[c] = r /\ Live' = store' \cup {copy'[u] : u \in Loaded'}
        BY <1>5, <2>4 DEF Live
      <4>2. CASE x \in store'
        BY <3>2, <4>1, <4>2
      <4>3. CASE x \notin store'
        <5>1. PICK u \in Loaded' : x = copy'[u]
          BY <1>10, <4>1, <4>3
        <5>2. u \in Turns /\ u # t
          BY <3>2, <4>1, <5>1, <2>4 DEF Loaded
        <5>3. u \in Loaded \ {c} /\ copy'[u] = copy[u]
          BY <1>5, <2>4, <5>1, <5>2 DEF Loaded
        <5>4. QED
          BY <5>1, <5>3
      <4>4. QED
        BY <4>2, <4>3
    <3>4. x.fact \in Turns
      <4>1. x \in Session
        BY <1>4, <2>1 DEF Live, Loaded, IInv
      <4>2. QED
        BY <1>10, <4>1 DEF Session
    <3>5. QED
      BY <1>3, <3>1, <3>3, <3>4 DEF Missed
  <2>5. CASE ~(c = t /\ to = "planned")
    <3>1. step[c] \in Cancelled
      <4>1. CASE c = t
        BY <1>1, <1>4, <1>5, <1>10, <2>5, <4>1 DEF Order, Cancelled
      <4>2. CASE c # t
        BY <1>5, <1>10, <4>2
      <4>3. QED
        BY <4>1, <4>2
    <3>2. Answer(x.fact) \in Known(copy[c])
      <4>1. CASE c = t
        <5>1. Answer(x.fact) \notin Says(t, to)
          BY <2>3, <4>1 DEF Says, Answer, Question
        <5>2. QED
          BY <1>4, <1>5, <1>10, <4>1, <5>1
      <4>2. CASE c # t
        BY <1>5, <1>10, <4>2
      <4>3. QED
        BY <4>1, <4>2
    <3>3. CASE x \in Live
      BY <1>3, <1>10, <3>1, <3>2, <3>3 DEF CInv
    <3>4. CASE x = r /\ r.fact = s.fact
      <4>1. s \in Live
        BY <1>4, <1>6 DEF Live
      <4>2. QED
        BY <1>3, <1>10, <3>1, <3>2, <3>4, <4>1 DEF CInv
    <3>5. CASE x = r /\ r.fact = t
      <4>1. copy[c] \in Records
        BY DEF Records
      <4>2. QED
        BY <1>6, <3>2, <3>5, <4>1 DEF CInv
    <3>6. QED
      BY <1>4, <1>10, <2>1, <3>3, <3>4, <3>5
  <2>6. QED
    BY <2>4, <2>5
<1>11. QED
  BY <1>2, <1>8, <1>9, <1>10, NewCInv

LEMMA CancelStep == IInv /\ CInv /\ [Next]_vars => CInv'
<1> SUFFICES ASSUME IInv, CInv, [Next]_vars PROVE CInv'
  OBVIOUS
<1>1. ASSUME NEW t \in Turns, Handle(t) \/ Fail(t) PROVE CInv'
  BY <1>1, BeginCInv, WorkCInv DEF Handle, Work
<1>2. CASE Expire \/ Drift
  <2>1. UNCHANGED <<step, copy, kind>> /\ store' \subseteq store /\ held \subseteq held'
    BY <1>2 DEF Expire, Drift, Rest, Observe
  <2>2. Records' \subseteq Records /\ Live' \subseteq Live
    BY <2>1 DEF Records, Live, Loaded
  <2>3. QED
    BY <2>1, <2>2, NewCInv DEF CInv
<1>3. CASE UNCHANGED vars
  <2>1. UNCHANGED <<step, copy, kind, store, held>>
    BY <1>3 DEF vars
  <2>2. Records' = Records /\ Live' = Live
    BY <2>1 DEF Records, Live, Loaded
  <2>3. QED
    BY <2>1, <2>2, NewCInv DEF CInv
<1>4. QED
  BY <1>1, <1>2, <1>3 DEF Next

(* However turns overlap: a status write is made on a question that a      *)
(* cancellation has seen answered only if another turn held the question   *)
(* when the cancellation was saved, or had saved it back.                  *)
THEOREM CancelledIsFinal == Spec => CancelledStaysCancelled
<1>1. Init => CInv
  <2> SUFFICES ASSUME Init PROVE CInv
    OBVIOUS
  <2>1. Loaded = {} /\ store = {} /\ Live = {}
    BY DEF Init, Loaded, Heard, Live
  <2>2. \A t \in Turns : Known(copy[t]) = {} /\ copy[t].fact = None
    BY FreshSilent, SessionAssumption DEF Init
  <2>3. QED
    BY <2>1, <2>2 DEF CInv, Records
<1>2. ASSUME IInv, CInv, [Next]_vars
      PROVE  \/ UNCHANGED written
             \/ \A w \in written' \ written, c \in Turns :
                   /\ kind[c] = "cancel" /\ step[c] = "done"
                   /\ <<w[1], "answer">> \in Known(copy[c])
                   => w[1] \in held
  <2>1. ASSUME NEW t \in Turns, Execute(t), NEW w \in written' \ written, NEW c \in Turns,
               kind[c] = "cancel", step[c] = "done", <<w[1], "answer">> \in Known(copy[c])
        PROVE  w[1] \in held
    <3>1. copy[t].fact # None /\ w = <<copy[t].fact, t>> /\ step[t] = "planned"
      BY <2>1 DEF Execute, Moves
    <3>2. copy[t] \in Live
      BY <3>1 DEF Live, Loaded, Heard
    <3>3. QED
      BY <1>2, <2>1, <3>1, <3>2 DEF CInv, Answer, Cancelled
  <2>2. ASSUME NEW t \in Turns, Handle(t) \/ Fail(t), ~Execute(t) PROVE UNCHANGED written
    BY <2>2 DEF Handle, Fail, GetNothing, GetUnreadable, GetRefused, Get, Discard, Create, Hear,
                Prepare, Sync, CommitCohort, CommitReferent, CommitNothing, Report, Reply,
                OnlyStep, Rest
  <2>3. CASE Expire \/ Drift
    BY <2>3 DEF Expire, Drift, Rest
  <2>4. CASE UNCHANGED vars
    BY <2>4 DEF vars
  <2>5. QED
    BY <1>2, <2>1, <2>2, <2>3, <2>4 DEF Next, Handle
<1>3. QED
  BY InitInv, StepInv, <1>1, CancelStep, <1>2, PTL DEF Spec, CancelledStaysCancelled

-----------------------------------------------------------------------------
(* Until turns first overlap, the client sees a Conversation.  While a     *)
(* turn runs, what was stored before it is the abstract state; its copy    *)
(* has its question and part of its effect, and the store agrees with the  *)
(* copy or is lost.                                                        *)

Solo == alone = Turns
OneAtATime == \A t, u \in Running : t = u

KnownTo(S) == UNION {Known(s) : s \in S}
CohortOf(S) == IF S = {} THEN None ELSE (CHOOSE s \in S : TRUE).cohort
ReferentOf(S) == IF S = {} THEN None ELSE (CHOOSE s \in S : TRUE).referent
Them(s) == <<s.cohort, s.referent>>

(* Where the cohort and the referent of a turn's copy may point. *)
Reached(t, at) ==
    LET c == CohortOf(settled)
        f == ReferentOf(settled)
    IN IF at \in {"loaded", "heard"} THEN {<<c, f>>}
       ELSE IF at \in {"prepared", "planned", "executed"}
            THEN IF kind[t] = "shift" THEN {<<None, None>>} ELSE {<<c, f>>}
       ELSE IF at = "half" THEN {<<t, f>>}
       ELSE {<<c, f>>, <<t, t>>, <<c, t>>, <<None, None>>}

Follows(t) ==
    /\ Question(t) \notin KnownTo(settled)
    /\ step[t] \in {"absent", "unreadable"} => settled = {} /\ Stored = {}
    /\ step[t] \in Heard \cup {"loaded"} =>
          /\ Known(copy[t]) = KnownTo(settled)
                \cup (IF step[t] = "loaded" THEN {} ELSE {Question(t)})
          /\ Them(copy[t]) \in Reached(t, step[t])
          /\ \A s \in Stored : Known(s) = Known(copy[t]) /\ Them(s) = Them(copy[t])

Early == {"waiting", "absent", "unreadable", "loaded"}

RInv ==
    /\ OneAtATime
    /\ \A r, s \in settled : r = s
    /\ Running = {} => settled = Stored
    /\ \A r \in Records, u \in Turns : step[u] \in Early => Question(u) \notin Known(r)
    /\ \A t \in Running : Follows(t)

LEMMA One ==
    ASSUME NEW s
    PROVE  KnownTo({s}) = Known(s) /\ <<CohortOf({s}), ReferentOf({s})>> = Them(s)
           /\ KnownTo({}) = {} /\ CohortOf({}) = None /\ ReferentOf({}) = None
BY DEF KnownTo, CohortOf, ReferentOf, Them

LEMMA StoredOne ==
    ASSUME IInv
    PROVE  Stored \subseteq store /\ (Stored = {} \/ \E s \in Session : Stored = {s})
BY DEF IInv, Stored

LEMMA Alone ==
    ASSUME AInv', Solo'
    PROVE  OneAtATime'
BY DEF AInv, Solo, OneAtATime, Running

LEMMA SoloBefore ==
    ASSUME IInv, [Next]_vars, Solo'
    PROVE  Solo
<1>1. Observe \/ alone' = alone
  BY DEF Next, Handle, Fail, GetNothing, GetUnreadable, GetRefused, Get, Discard, Create,
         Hear, Prepare, Sync, Execute, CommitCohort, CommitReferent, CommitNothing, Report,
         Reply, OnlyStep, Rest, Expire, Drift, vars
<1>2. alone' \subseteq alone /\ alone \subseteq Turns
  BY <1>1 DEF Observe, IInv, Types
<1>3. QED
  BY <1>2 DEF Solo

LEMMA Settles ==
    ASSUME IInv, IInv', RInv, Solo', Observe
    PROVE  /\ Running' # {} => settled' = settled
           /\ Running' = {} => settled' = Stored'
           /\ \A r, s \in settled' : r = s
<1>1. (Running' # {} => settled' = settled) /\ (Running' = {} => settled' = Stored')
  BY DEF Observe, Solo
<1>2. \A r, s \in Stored' : r = s
  BY DEF IInv, Stored
<1>3. QED
  BY <1>1, <1>2 DEF RInv

(* A turn that is over leaves nothing to be said. *)
LEMMA OverRInv ==
    ASSUME IInv, IInv', RInv, Solo', OneAtATime', Running' = {}, Observe,
           \A r \in Records', u \in Turns : step'[u] \in Early => Question(u) \notin Known(r)
    PROVE  RInv'
<1>1. settled' = Stored' /\ \A r, s \in settled' : r = s
  BY Settles
<1>2. QED
  BY <1>1 DEF RInv, Question, Known, ToSet

(* While a turn goes on, the abstract state stays. *)
LEMMA OnRInv ==
    ASSUME IInv, IInv', RInv, Solo', OneAtATime', Observe,
           NEW t \in Running', Follows(t)',
           \A r \in Records', u \in Turns : step'[u] \in Early => Question(u) \notin Known(r)
    PROVE  RInv'
<1>1. \A r, s \in settled' : r = s
  BY Settles
<1>2. \A u \in Running' : u = t
  BY DEF OneAtATime
<1>3. \A u \in Running' : Follows(u)'
  BY <1>2 DEF Follows
<1>4. QED
  BY <1>1, <1>3 DEF RInv, Question, Known, ToSet

LEMMA BeginRInv ==
    ASSUME IInv, IInv', RInv, AInv', Solo', NEW t \in Turns,
           \/ GetNothing(t) \/ GetUnreadable(t) \/ GetRefused(t) \/ Get(t)
           \/ Discard(t) \/ Create(t) \/ Fail(t)
    PROVE  RInv'
<1>1. OneAtATime'
  BY Alone
<1>2. Observe /\ kind' = kind
  BY DEF GetNothing, GetUnreadable, GetRefused, Get, Discard, Create, Fail, OnlyStep, Rest
<1>3. PICK to \in {"absent", "unreadable", "refused", "loaded", "failed"} :
         step' = [step EXCEPT ![t] = to] /\ (to \in Early => step[t] \in Early)
  BY DEF GetNothing, GetUnreadable, GetRefused, Get, Discard, Create, Fail, Moves, Early
<1>4. \A u \in Turns : step'[u] = IF u = t THEN to ELSE step[u]
  BY <1>3 DEF IInv
<1>5. Speaker[t] \in Principals
  BY SessionAssumption
<1>6. PICK r : /\ copy' = [copy EXCEPT ![t] = r]
               /\ r \in Records \/ Known(r) = {}
               /\ store' \subseteq store \cup {r}
  <2>1. CASE GetNothing(t) \/ GetUnreadable(t) \/ GetRefused(t) \/ Fail(t) \/ Discard(t)
    <3>1. copy' = [copy EXCEPT ![t] = copy[t]] /\ store' \subseteq store
      BY <2>1 DEF GetNothing, GetUnreadable, GetRefused, Fail, Discard, OnlyStep, IInv
    <3>2. QED
      BY <3>1 DEF Records
  <2>2. CASE Get(t)
    BY <2>2 DEF Get, Records
  <2>3. CASE Create(t)
    BY <1>5, <2>3, FreshSilent DEF Create, Save
  <2>4. QED
    BY <2>1, <2>2, <2>3
<1>7. \A u \in Turns : copy'[u] = IF u = t THEN r ELSE copy[u]
  BY <1>6 DEF IInv
<1>8. \A x \in Records', u \in Turns : step'[u] \in Early => Question(u) \notin Known(x)
  <2>1. Records' = store' \cup {copy'[u] : u \in Turns}
    BY DEF Records
  <2>2. \A x \in Records' : x \in Records \/ Known(x) = {}
    BY <1>6, <1>7, <2>1 DEF Records
  <2>3. QED
    BY <1>3, <1>4, <2>2 DEF RInv
<1>9. ASSUME step[t] = "waiting", to \in {"absent", "unreadable", "loaded"} PROVE Running = {}
  <2>1. t \in Running' /\ t \notin Running /\ \A u \in Running : u \in Running'
    BY <1>4, <1>9 DEF Running, Over
  <2>2. QED
    BY <1>1, <2>1 DEF OneAtATime
<1>10. CASE Fail(t)
  <2>1. Running' = {}
    <3>1. \A u \in Running' : u # t /\ u \in Running
      BY <1>10 DEF Fail, Running, Over, IInv
    <3>2. QED
      BY <1>10, <3>1 DEF Fail, RInv, OneAtATime
  <2>2. QED
    BY <1>1, <1>2, <1>8, <2>1, OverRInv
<1>11. ASSUME to \in {"absent", "unreadable", "loaded"} PROVE t \in Running'
  BY <1>4, <1>11 DEF Running, Over
<1>12. ASSUME t \in Running' PROVE settled' = settled
  BY <1>2, <1>12, Settles
<1>13. ASSUME Running = {}
       PROVE  settled = Stored /\ (Question(t) \notin KnownTo(settled) \/ step[t] \notin Early)
  BY <1>13 DEF RInv, KnownTo, Stored, Records
<1>14. CASE GetNothing(t) \/ GetUnreadable(t)
  <2>1. /\ Stored = {} /\ Stored' = {} /\ step[t] = "waiting"
        /\ step'[t] \in {"absent", "unreadable"}
    BY <1>14 DEF GetNothing, GetUnreadable, OnlyStep, Stored, Moves, IInv
  <2>2. t \in Running' /\ settled' = {} /\ settled = {}
    BY <1>4, <1>9, <1>11, <1>12, <2>1 DEF RInv
  <2>3. Follows(t)'
    BY <2>1, <2>2, One DEF Follows, Heard
  <2>4. QED
    BY <1>1, <1>2, <1>8, <2>2, <2>3, OnRInv
<1>15. CASE Get(t)
  <2>1. PICK s \in store : copy' = [copy EXCEPT ![t] = s]
    BY <1>15 DEF Get
  <2>2. /\ Stored = {s} /\ Stored' = {s} /\ step[t] = "waiting"
        /\ step'[t] = "loaded" /\ copy'[t] = s
    BY <1>15, <2>1 DEF Get, Stored, Moves, IInv
  <2>3. t \in Running' /\ settled' = {s} /\ settled = {s}
    BY <1>4, <1>9, <1>11, <1>12, <2>2 DEF RInv
  <2>4. Question(t) \notin Known(s)
    BY <2>1, <2>2 DEF RInv, Early, Records
  <2>5. Them(s) \in Reached(t, "loaded")'
    BY <2>3, One DEF Reached
  <2>6. Follows(t)'
    BY <2>2, <2>3, <2>4, <2>5, One DEF Follows, Known, Question, Them
  <2>7. QED
    BY <1>1, <1>2, <1>8, <2>3, <2>6, OnRInv
<1>16. CASE Discard(t)
  <2>1. t \in Running /\ step[t] = "unreadable" /\ step'[t] = "absent" /\ Stored' = {}
    BY <1>16 DEF Discard, Moves, Running, Over, Stored, IInv
  <2>2. t \in Running' /\ settled' = {} /\ settled = {}
    BY <1>4, <1>11, <1>12, <2>1 DEF RInv, Follows
  <2>3. Follows(t)'
    BY <2>1, <2>2, One DEF Follows, Heard
  <2>4. QED
    BY <1>1, <1>2, <1>8, <2>2, <2>3, OnRInv
<1>17. CASE Create(t)
  <2> DEFINE s == Fresh(Speaker[t])
  <2>1. /\ t \in Running /\ step[t] = "absent" /\ step'[t] = "loaded" /\ Stored' = {s}
        /\ copy'[t] = s
    BY <1>17 DEF Create, Save, Moves, Running, Over, Stored, IInv
  <2>2. t \in Running' /\ settled' = {} /\ settled = {}
    BY <1>4, <1>11, <1>12, <2>1 DEF RInv, Follows
  <2>3. Known(s) = {} /\ Them(s) = <<None, None>>
    BY <1>5, FreshSilent DEF Them
  <2> HIDE DEF s
  <2>4. Them(s) \in Reached(t, "loaded")'
    BY <2>2, <2>3, One DEF Reached
  <2>5. Follows(t)'
    BY <2>1, <2>2, <2>3, <2>4, One DEF Follows, Known, Question, Them
  <2>6. QED
    BY <1>1, <1>2, <1>8, <2>2, <2>5, OnRInv
<1>18. CASE GetRefused(t)
  <2>1. UNCHANGED <<store, readable, copy, kind>> /\ step[t] = "waiting" /\ step'[t] = "refused"
    BY <1>18 DEF GetRefused, OnlyStep, Rest, Moves, IInv
  <2>2. Running' = Running /\ Stored' = Stored
    BY <1>4, <2>1 DEF Running, Over, Stored
  <2>3. CASE Running' = {}
    BY <1>1, <1>2, <1>8, <2>3, OverRInv
  <2>4. CASE Running' # {}
    <3>1. PICK u \in Running' : u \in Running /\ u # t
      BY <2>1, <2>2, <2>4 DEF Running
    <3>2. settled' = settled /\ step'[u] = step[u]
      BY <1>2, <1>4, <2>4, <3>1, Settles DEF Running
    <3>3. Follows(u)'
      BY <2>1, <2>2, <3>1, <3>2 DEF RInv, Follows, KnownTo, Known, Question, Them, Reached
    <3>4. QED
      BY <1>1, <1>2, <1>8, <3>1, <3>3, OnRInv
  <2>5. QED
    BY <2>3, <2>4
<1>19. QED
  BY <1>10, <1>14, <1>15, <1>16, <1>17, <1>18

LEMMA WorkRInv ==
    ASSUME IInv, IInv', RInv, AInv', Solo', NEW t \in Turns, Work(t)
    PROVE  RInv'
<1>1. PICK from, to, s, r : Worked(t, from, to, s, r) /\ <<from, to>> \in Order
  BY WorkDone
<1>2. Observe /\ kind' = kind
  BY DEF Work, Hear, Prepare, Sync, Execute, CommitCohort, CommitReferent,
         CommitNothing, Report, Reply, OnlyStep, Rest
<1>3. OneAtATime'
  BY Alone
<1>4. /\ from = step[t] /\ step' = [step EXCEPT ![t] = to]
      /\ s = copy[t] /\ copy' = [copy EXCEPT ![t] = r]
      /\ Known(r) = Known(s) \cup Says(t, to) /\ Points(t, from, to, s, r)
      /\ \/ store' = {r} /\ readable' = TRUE
         \/ /\ UNCHANGED <<store, readable>> /\ to \notin {"heard", "done"}
            /\ Known(r) = Known(s) /\ r.cohort = s.cohort /\ r.referent = s.referent
  BY <1>1 DEF Worked
<1>5. \A u \in Turns : /\ step'[u] = IF u = t THEN to ELSE step[u]
                       /\ copy'[u] = IF u = t THEN r ELSE copy[u]
  BY <1>4 DEF IInv
<1>6. /\ from \in Heard \cup {"loaded"} /\ t \in Running /\ to \in Heard \cup {"done"}
      /\ to \notin Early
  BY <1>1, <1>4 DEF Order, Heard, Running, Over, Early
<1>7. Follows(t)
  BY <1>6 DEF RInv
<1>8. \A x \in Records', u \in Turns : step'[u] \in Early => Question(u) \notin Known(x)
  <2>1. Records' = store' \cup {copy'[u] : u \in Turns}
    BY DEF Records
  <2>2. \A x \in Records' : x \in Records \/ x = r
    BY <1>4, <1>5, <2>1 DEF Records
  <2>3. ASSUME NEW u \in Turns, step'[u] \in Early
        PROVE  u # t /\ step[u] \in Early /\ Question(u) \notin Known(r)
    <3>1. u # t /\ step[u] \in Early
      BY <1>5, <1>6, <2>3
    <3>2. Question(u) \notin Known(s)
      BY <1>4, <3>1 DEF RInv, Records
    <3>3. Question(u) \notin Says(t, to)
      BY <3>1 DEF Says, Question, Answer
    <3>4. QED
      BY <1>4, <3>1, <3>2, <3>3
  <2>4. QED
    BY <2>2, <2>3 DEF RInv
<1>9. CASE to = "done"
  <2>1. Running' = {}
    <3>1. \A u \in Running' : u # t /\ u \in Running
      BY <1>5, <1>9 DEF Running, Over
    <3>2. QED
      BY <1>6, <3>1 DEF RInv, OneAtATime
  <2>2. QED
    BY <1>2, <1>3, <1>8, <2>1, OverRInv
<1>10. CASE to # "done"
  <2>1. t \in Running' /\ to \in Heard
    BY <1>5, <1>6, <1>10 DEF Running, Over, Heard
  <2>2. settled' = settled
    BY <1>2, <2>1, Settles
  <2>3. Known(r) = KnownTo(settled) \cup {Question(t)}
    <3>1. Known(s) = KnownTo(settled) \cup (IF from = "loaded" THEN {} ELSE {Question(t)})
      BY <1>4, <1>6, <1>7 DEF Follows
    <3>2. from = "loaded" <=> to = "heard"
      BY <1>1 DEF Order
    <3>3. QED
      BY <1>4, <1>10, <3>1, <3>2 DEF Says
  <2>4. Them(r) \in Reached(t, to)
    <3>1. Them(s) \in Reached(t, from)
      BY <1>4, <1>6, <1>7 DEF Follows
    <3>2. QED
      BY <1>1, <1>4, <1>10, <3>1 DEF Order, Points, Reached, Them
  <2>5. \A x \in Stored' : Known(x) = Known(r) /\ Them(x) = Them(r)
    <3>1. CASE store' = {r}
      BY <3>1 DEF Stored
    <3>2. CASE /\ UNCHANGED <<store, readable>> /\ Known(r) = Known(s)
               /\ r.cohort = s.cohort /\ r.referent = s.referent
      <4>1. Stored' = Stored
        BY <3>2 DEF Stored
      <4>2. Them(r) = Them(s)
        BY <3>2 DEF Them
      <4>3. QED
        BY <1>4, <1>6, <1>7, <3>2, <4>1, <4>2 DEF Follows
    <3>3. QED
      BY <1>4, <3>1, <3>2
  <2>6. step'[t] = to /\ copy'[t] = r /\ to \notin {"loaded", "absent", "unreadable"}
    BY <1>5, <1>6 DEF Early
  <2>7. Reached(t, to)' = Reached(t, to)
    BY <1>2, <2>2 DEF Reached
  <2>8. Question(t) \notin KnownTo(settled)
    BY <1>7 DEF Follows
  <2>9. Follows(t)'
    BY <2>2, <2>3, <2>4, <2>5, <2>6, <2>7, <2>8 DEF Follows, KnownTo, Known, Them, Question
  <2>10. QED
    BY <1>2, <1>3, <1>8, <2>1, <2>9, OnRInv
<1>11. QED
  BY <1>9, <1>10

LEMMA AtomicStep ==
    IInv /\ IInv' /\ AInv' /\ (Solo => RInv) /\ [Next]_vars => (Solo => RInv)'
<1> SUFFICES ASSUME IInv, IInv', AInv', RInv, Solo', [Next]_vars PROVE RInv'
  BY SoloBefore
<1>1. ASSUME NEW t \in Turns, Handle(t) \/ Fail(t) PROVE RInv'
  BY <1>1, BeginRInv, WorkRInv DEF Handle, Work
<1>2. CASE Expire \/ Drift
  <2>1. UNCHANGED <<step, copy, kind>> /\ store' \subseteq store /\ Stored' = {} /\ Observe
    BY <1>2 DEF Expire, Drift, Rest, Stored
  <2>2. Running' = Running /\ OneAtATime'
    BY <2>1 DEF RInv, OneAtATime, Running
  <2>3. \A r \in Records', u \in Turns : step'[u] \in Early => Question(u) \notin Known(r)
    BY <2>1 DEF RInv, Records
  <2>4. CASE Running' = {}
    BY <2>1, <2>2, <2>3, <2>4, OverRInv
  <2>5. CASE Running' # {}
    <3>1. PICK t \in Running' : t \in Running
      BY <2>2, <2>5
    <3>2. settled' = settled
      BY <2>1, <2>5, Settles
    <3>3. Follows(t)'
      BY <2>1, <3>1, <3>2 DEF RInv, Follows, KnownTo, Known, Question, Them, Reached
    <3>4. QED
      BY <2>1, <2>2, <2>3, <3>1, <3>3, OnRInv
  <2>6. QED
    BY <2>4, <2>5
<1>3. CASE UNCHANGED vars
  <2>1. UNCHANGED <<kind, store, readable, step, copy, settled>>
    BY <1>3 DEF vars
  <2>2. Stored' = Stored /\ Running' = Running /\ Records' = Records /\ OneAtATime' = OneAtATime
    BY <2>1 DEF Stored, Running, Records, OneAtATime
  <2>3. \A t : Follows(t)' = Follows(t)
    BY <2>1, <2>2 DEF Follows, KnownTo, Known, Question, Them, Reached
  <2>4. QED
    BY <2>1, <2>2, <2>3 DEF RInv, Question, Known, ToSet
<1>4. QED
  BY <1>1, <1>2, <1>3 DEF Next

(* Every step is a turn of the conversation, its breaking off, a loss, or  *)
(* nothing at all.                                                         *)
LEMMA Refines ==
    ASSUME IInv, IInv', Solo => RInv, [Next]_vars
    PROVE  [Abstract!Next]_Abstract!vars
<1> DEFINE known == KnownTo(settled)
           cohort == CohortOf(settled)
           referent == ReferentOf(settled)
           Same == known' = known /\ cohort' = cohort /\ referent' = referent
           Lost == known' = {} /\ cohort' = None /\ referent' = None
           Goes(t, m) == /\ known' = known \cup m
                         /\ <<cohort', referent'>> \in {<<cohort, referent>>, <<t, t>>,
                                                        <<cohort, t>>, <<None, None>>}
<1>1. SUFFICES \/ Same \/ Lost
               \/ \E t \in Turns : /\ Question(t) \notin known
                                   /\ Goes(t, {Question(t), Answer(t)})
               \/ \E t \in Turns : \/ Goes(t, {Question(t)})
                                   \/ /\ known' = known \cup {Question(t)}
                                      /\ <<cohort', referent'>> = <<t, referent>>
  BY DEF Abstract!Next, Abstract!vars, Abstract!Turn, Abstract!Break, Abstract!Forget,
         Abstract!Moves, KnownTo, CohortOf, ReferentOf, Question, Answer
<1>2. CASE settled' = settled
  BY <1>2
<1>3. ASSUME settled' # settled PROVE Running' = {} /\ settled' = Stored' /\ Observe /\ RInv
  <2>1. Observe
    BY <1>3 DEF Next, Handle, Fail, GetNothing, GetUnreadable, GetRefused, Get, Discard, Create,
                Hear, Prepare, Sync, Execute, CommitCohort, CommitReferent, CommitNothing, Report,
                Reply, OnlyStep, Rest, Expire, Drift, vars
  <2>2. Running' = {} /\ settled' = Stored' /\ Solo'
    BY <1>3, <2>1 DEF Observe, Solo
  <2>3. QED
    BY <2>1, <2>2, SoloBefore
<1>4. ASSUME Stored' = {}, settled' # settled PROVE Lost
  BY <1>3, <1>4, One
<1>5. ASSUME NEW x, Stored' = {x}, settled' # settled
      PROVE  known' = Known(x) /\ <<cohort', referent'>> = Them(x)
  BY <1>3, <1>5, One
<1> HIDE DEF known, cohort, referent
<1>6. ASSUME NEW t \in Turns, Fail(t), settled' # settled
      PROVE  \/ Same \/ Lost
             \/ Goes(t, {Question(t)})
             \/ /\ known' = known \cup {Question(t)}
                /\ <<cohort', referent'>> = <<t, referent>>
  <2>1. t \in Running /\ Follows(t) /\ Stored' = Stored
    BY <1>3, <1>6 DEF Fail, OnlyStep, Stored, RInv
  <2>2. CASE Stored = {}
    BY <1>4, <1>6, <2>1, <2>2
  <2>3. CASE Stored # {}
    <3>1. PICK x \in Session : Stored = {x}
      BY <2>3, StoredOne
    <3>2. step[t] \in Heard \cup {"loaded"}
      BY <2>1, <2>3 DEF Follows, Running, Over, Heard, IInv, Steps
    <3>3. known' = Known(copy[t]) /\ <<cohort', referent'>> \in Reached(t, step[t])
      BY <1>5, <1>6, <2>1, <3>1, <3>2 DEF Follows
    <3>4. Known(copy[t]) = known \cup (IF step[t] = "loaded" THEN {} ELSE {Question(t)})
      BY <2>1, <3>2 DEF Follows, known
    <3>5. CASE step[t] = "loaded"
      <4>1. <<cohort', referent'>> = <<cohort, referent>>
        BY <3>3, <3>5 DEF Reached, cohort, referent
      <4>2. QED
        BY <3>3, <3>4, <3>5, <4>1
    <3>6. CASE step[t] # "loaded"
      <4>1. <<cohort', referent'>> \in {<<cohort, referent>>, <<t, t>>, <<cohort, t>>,
                                        <<None, None>>, <<t, referent>>}
        BY <3>3 DEF Reached, cohort, referent
      <4>2. QED
        BY <3>3, <3>4, <3>6, <4>1
    <3>7. QED
      BY <3>5, <3>6
  <2>4. QED
    BY <2>2, <2>3
<1>7. ASSUME NEW t \in Turns, Work(t), settled' # settled
      PROVE  Question(t) \notin known /\ Goes(t, {Question(t), Answer(t)})
  <2>1. PICK from, to, s, r : Worked(t, from, to, s, r) /\ <<from, to>> \in Order
    BY <1>7, WorkDone
  <2>2. /\ from = step[t] /\ step' = [step EXCEPT ![t] = to] /\ s = copy[t]
        /\ Known(r) = Known(s) \cup Says(t, to) /\ Points(t, from, to, s, r)
        /\ (store' = {r} /\ readable' = TRUE) \/ to # "done"
    BY <2>1 DEF Worked
  <2>3. step'[t] = to
    BY <2>2 DEF IInv
  <2>4. to = "done" /\ from = "reported"
    <3>1. t \notin Running'
      BY <1>3, <1>7
    <3>2. QED
      BY <2>1, <2>3, <3>1 DEF Order, Running, Over
  <2>5. t \in Running /\ Follows(t)
    BY <1>3, <1>7, <2>2, <2>4 DEF Running, Over, RInv
  <2>6. Known(s) = known \cup {Question(t)} /\ Them(s) \in Reached(t, "reported")
        /\ Question(t) \notin known
    BY <2>2, <2>4, <2>5 DEF Follows, Heard, known
  <2>7. Stored' = {r}
    BY <2>2, <2>4 DEF Stored
  <2>8. Them(r) = Them(s) /\ Known(r) = known \cup {Question(t), Answer(t)}
    BY <2>2, <2>4, <2>6 DEF Points, Them, Says
  <2>9. <<cohort', referent'>> \in {<<cohort, referent>>, <<t, t>>, <<cohort, t>>, <<None, None>>}
    BY <1>5, <1>7, <2>6, <2>7, <2>8 DEF Reached, cohort, referent
  <2>10. QED
    BY <1>5, <1>7, <2>6, <2>7, <2>8, <2>9
<1>8. ASSUME NEW t \in Turns,
             \/ GetNothing(t) \/ GetUnreadable(t) \/ GetRefused(t) \/ Get(t)
             \/ Discard(t) \/ Create(t)
      PROVE  settled' = settled
  <2>1. CASE GetRefused(t)
    <3>1. Running' = Running /\ Stored' = Stored
      BY <2>1 DEF GetRefused, OnlyStep, Stored, Moves, Running, Over, IInv
    <3>2. QED
      BY <1>3, <3>1 DEF RInv
  <2>2. CASE ~GetRefused(t)
    <3>1. PICK to \in {"absent", "unreadable", "loaded"} : step' = [step EXCEPT ![t] = to]
      BY <1>8, <2>2 DEF GetNothing, GetUnreadable, Get, Discard, Create, Moves
    <3>2. t \in Running'
      BY <3>1 DEF Running, Over, IInv
    <3>3. QED
      BY <1>3, <3>2
  <2>3. QED
    BY <2>1, <2>2
<1>9. CASE Expire \/ Drift
  <2>1. Stored' = {}
    BY <1>9 DEF Expire, Drift, Stored
  <2>2. QED
    BY <1>2, <1>4, <2>1
<1>10. CASE UNCHANGED vars
  BY <1>2, <1>10 DEF vars
<1>11. QED
  BY <1>2, <1>6, <1>7, <1>8, <1>9, <1>10 DEF Next, Handle, Work

(* Until turns first overlap, what is stored between them behaves as       *)
(* Conversation: a turn takes effect as a whole, or breaks off and leaves  *)
(* its question.                                                           *)
THEOREM TurnsTakeEffectWhole == Spec => TurnsAreAtomic
<1>1. Init => AInv /\ RInv
  <2> SUFFICES ASSUME Init PROVE AInv /\ RInv
    OBVIOUS
  <2>1. Running = {} /\ store = {} /\ settled = {} /\ Stored = {} /\ kept = {}
    BY DEF Init, Running, Stored
  <2>2. \A t \in Turns : Known(copy[t]) = {}
    BY FreshSilent, SessionAssumption DEF Init
  <2>3. QED
    BY <2>1, <2>2, FS_EmptySet DEF AInv, RInv, OneAtATime, Records
<1>2. Init => Abstract!Init
  BY DEF Init, Abstract!Init
<1>3. QED
  BY InitInv, StepInv, AloneStep, AtomicStep, Refines, <1>1, <1>2, PTL DEF Spec, TurnsAreAtomic, Abstract!Spec
=============================================================================
