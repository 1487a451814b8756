-------------------------- MODULE ResumeSearchProofs --------------------------
(* Resume search, for any people: the searches and ingests of Retrieval,   *)
(* then the facts of ResumeFacts.                                          *)
EXTENDS Retrieval, ResumeFacts, FiniteSetTheorems, NaturalsInduction,
        WellFoundedInduction, TLAPS

(* An ingest that nobody has interfered with knows what is in the index.   *)
IngestInv ==
    /\ DOMAIN job = Jobs /\ DOMAIN index = People /\ clean \subseteq Jobs
    /\ \A j \in clean :
          /\ job[j] \in {"deleted", "done", "empty", "failed"}
          /\ job[j] \in {"deleted", "empty"} => index[Subject[j]] = {}
          /\ job[j] = "done" => index[Subject[j]] = {j}

(* From when ages may be counted: the day that the key names, or a later   *)
(* one that has come.                                                      *)
DatedInv ==
    /\ now \in Nat
    /\ DOMAIN asks = Searches /\ DOMAIN search = Searches
    /\ DOMAIN began = Searches /\ DOMAIN answer = Searches
    /\ \A s \in Searches :
          /\ began[s] \in Nat /\ began[s] <= Today
          /\ search[s] \in {"counting", "storing"} /\ Dated(asks[s]) =>
                answer[s].today \in began[s]..Today
    /\ \A e \in cache : e.key.kind # "skill" =>
          e.key.day \in Nat /\ e.answer.today \in e.key.day..Today

-----------------------------------------------------------------------------
LEMMA IngestInit == Init => IngestInv
  BY DEF Init, IngestInv

(* Whatever another employee's ingest does is of no concern; a rival of    *)
(* the same employee leaves nobody else clean.                             *)
LEMMA IngestStep == IngestInv /\ [Next]_vars => IngestInv'
<1> SUFFICES ASSUME IngestInv, [Next]_vars PROVE IngestInv'
  OBVIOUS
<1> USE RetrievalAssumption
<1>1. ASSUME NEW j \in Jobs, Delete(j) PROVE IngestInv'
  <2>1. /\ job' = [job EXCEPT ![j] = "deleted"]
        /\ index' = [index EXCEPT ![Subject[j]] = {}]
        /\ clean' = (clean \ Rivals(j)) \cup {j}
    BY <1>1 DEF Delete
  <2>2. QED
    BY <2>1 DEF IngestInv, Rivals
<1>2. ASSUME NEW j \in Jobs, Upsert(j) PROVE IngestInv'
  <2>1. /\ job[j] = "deleted" /\ job' = [job EXCEPT ![j] = "done"]
        /\ index' = [index EXCEPT ![Subject[j]] = @ \cup {j}]
        /\ clean' = clean \ Rivals(j)
    BY <1>2 DEF Upsert
  <2>2. QED
    BY <2>1 DEF IngestInv, Rivals
<1>3. ASSUME NEW j \in Jobs, UpsertNothing(j) PROVE IngestInv'
  BY <1>3 DEF UpsertNothing, IngestInv
<1>4. ASSUME NEW j \in Jobs, Abort(j) PROVE IngestInv'
  BY <1>4 DEF Abort, IngestInv
<1>5. ASSUME UNCHANGED <<job, index, clean>> PROVE IngestInv'
  BY <1>5 DEF IngestInv
<1>6. ASSUME NEW s \in Searches, Search(s) PROVE UNCHANGED <<job, index, clean>>
  BY <1>6 DEF Search, Begin, Hit, MissEmpty, Miss, Resolve, ResolveNobody, Fetch, Rank,
              Count, Store, Fail, FailStored, Forget, Sees, ingesting
<1>7. QED
  BY <1>1, <1>2, <1>3, <1>4, <1>5, <1>6 DEF Next, Ingest, Tick, vars

(* "delete_by_employee then upsert - idempotent": whatever searches, other *)
(* ingests and crashes there are, an ingest that none of the same employee *)
(* overlaps leaves exactly its rows.                                       *)
THEOREM LoneIngestsAreExact == Spec => []LoneIngestIsExact
<1>1. IngestInv => LoneIngestIsExact
  BY DEF IngestInv, LoneIngestIsExact
<1>2. QED
  BY IngestInit, IngestStep, <1>1, PTL DEF Spec

-----------------------------------------------------------------------------
(* Days pass one way. *)
LEMMA DaysPass ==
    ASSUME NEW n \in Nat
    PROVE  /\ n \div DayLength + 1 \in Nat
           /\ n \div DayLength + 1 <= (n + 1) \div DayLength + 1
  BY RetrievalAssumption, SMTT(30)

LEMMA TodayGrows ==
    ASSUME DatedInv, [Next]_vars
    PROVE  Today \in Nat /\ Today' \in Nat /\ Today <= Today' /\ now' \in Nat
<1>1. now \in Nat /\ Today = now \div DayLength + 1 /\ Today' = now' \div DayLength + 1
  BY DEF DatedInv, Today
<1>2. now' = now \/ now' = now + 1
  BY DEF Next, Tick, Ingest, Delete, Upsert, UpsertNothing, Abort, Search, Begin, Hit,
         MissEmpty, Miss, Resolve, ResolveNobody, Fetch, Rank, Count, Store, Fail,
         FailStored, Forget, Sees, vars
<1>3. now' \in Nat
  BY <1>1, <1>2
<1>4. Today \in Nat /\ Today' \in Nat
  BY <1>1, <1>3, DaysPass
<1>5. CASE now' = now
  BY <1>1, <1>4, <1>5
<1>6. CASE now' = now + 1
  BY <1>1, <1>4, <1>6, DaysPass
<1>7. QED
  BY <1>2, <1>3, <1>4, <1>5, <1>6

LEMMA DatedInit == Init => DatedInv
<1> SUFFICES ASSUME Init PROVE DatedInv
  OBVIOUS
<1>1. now = 0 /\ now \in Nat
  BY DEF Init
<1>2. Today = 0 \div DayLength + 1
  BY <1>1 DEF Today
<1>3. 0 \div DayLength \in Nat
  BY RetrievalAssumption
<1>4. 1 <= Today /\ Today \in Nat
  BY <1>2, <1>3
<1>5. QED
  BY <1>1, <1>4 DEF Init, DatedInv

(* What is stored, or given again, is dated by the key. *)
LEMMA StoredIsDated ==
    ASSUME DatedInv, NEW s \in Searches, search[s] = "storing", Today \in Nat,
           Entry(s).key.kind # "skill"
    PROVE  /\ Entry(s).key.day \in Nat
           /\ Entry(s).answer.today \in Entry(s).key.day..Today
<1>1. /\ Entry(s).key.kind = asks[s].kind
      /\ Entry(s).key.day = IF Dated(asks[s]) THEN began[s] ELSE 0
      /\ Entry(s).answer = answer[s]
  BY DEF Entry, KeyOf, Key
<1>2. Dated(asks[s])
  BY <1>1 DEF Dated
<1>3. QED
  BY <1>1, <1>2 DEF DatedInv

LEMMA DatedStep == DatedInv /\ [Next]_vars => DatedInv'
<1> SUFFICES ASSUME DatedInv, [Next]_vars PROVE DatedInv'
  OBVIOUS
<1>1. Today \in Nat /\ Today' \in Nat /\ Today <= Today' /\ now' \in Nat
  BY TodayGrows
<1>2. ASSUME UNCHANGED <<asks, search, began, answer>>,
             \A e \in cache' : e \in cache
      PROVE  DatedInv'
  BY <1>1, <1>2 DEF DatedInv, Dated
<1>3. CASE Tick
  BY <1>2, <1>3 DEF Tick
<1>4. CASE \E j \in Jobs : Ingest(j)
  BY <1>2, <1>4 DEF Ingest, Delete, Upsert, UpsertNothing, Abort, searching
<1>5. CASE UNCHANGED vars
  BY <1>2, <1>5 DEF vars
<1>6. ASSUME NEW s \in Searches, Search(s) PROVE DatedInv'
  <2> DEFINE Frame ==
               /\ DOMAIN asks' = Searches /\ DOMAIN search' = Searches
               /\ DOMAIN began' = Searches /\ DOMAIN answer' = Searches
               /\ \A x \in Searches \ {s} :
                     /\ asks'[x] = asks[x] /\ search'[x] = search[x]
                     /\ began'[x] = began[x] /\ answer'[x] = answer[x]
             Holds(q, p, d, a) ==
               /\ d \in Nat /\ d <= Today
               /\ p \in {"counting", "storing"} /\ Dated(q) => a.today \in d..Today
  <2>1. ASSUME UNCHANGED <<now, cache>>, Frame,
               Holds(asks'[s], search'[s], began'[s], answer'[s])
        PROVE  DatedInv'
    <3>1. Today' = Today
      BY <2>1 DEF Today
    <3>2. \A x \in Searches : Holds(asks'[x], search'[x], began'[x], answer'[x])
      BY <2>1 DEF DatedInv
    <3>3. QED
      BY <1>1, <2>1, <3>1, <3>2 DEF DatedInv, Dated
  <2>2. Holds(asks[s], search[s], began[s], answer[s])
    BY DEF DatedInv
  <2>3. CASE \E q \in Queries : Begin(s, q)
    <3>1. PICK q \in Queries : Begin(s, q)
      BY <2>3
    <3>2. Frame /\ UNCHANGED <<now, cache>>
      BY <3>1 DEF Begin, DatedInv
    <3>3. search'[s] = "lookup" /\ began'[s] = Today
      BY <3>1 DEF Begin, DatedInv
    <3>4. QED
      BY <1>1, <2>1, <3>2, <3>3
  <2>4. CASE \E e \in cache : Hit(s, e)
    <3>1. PICK e \in cache : Hit(s, e)
      BY <2>4
    <3>2. Frame /\ UNCHANGED <<now, cache>>
      BY <3>1 DEF Hit, DatedInv
    <3>3. search'[s] = "done" /\ began'[s] = began[s]
      BY <3>1 DEF Hit, DatedInv
    <3>4. QED
      BY <2>1, <2>2, <3>2, <3>3
  <2>5. ASSUME NEW seen, NEW next, Sees(s, seen, next) PROVE DatedInv'
    <3>1. Frame /\ UNCHANGED <<now, cache>>
      BY <2>5 DEF Sees, DatedInv
    <3>2. answer'[s].today = Today /\ began'[s] = began[s]
      BY <2>5 DEF Sees, DatedInv
    <3>3. QED
      BY <1>1, <2>1, <2>2, <3>1, <3>2
  <2>6. ASSUME NEW p, p \notin {"counting", "storing"} \/ search[s] = "counting",
               search' = [search EXCEPT ![s] = p],
               UNCHANGED <<now, cache, asks, began, answer>>
        PROVE  DatedInv'
    <3>1. Frame
      BY <2>6 DEF DatedInv
    <3>2. /\ search'[s] = p /\ began'[s] = began[s] /\ asks'[s] = asks[s]
          /\ answer'[s] = answer[s]
      BY <2>6 DEF DatedInv
    <3>3. QED
      BY <2>1, <2>2, <2>6, <3>1, <3>2
  <2>7. CASE Store(s)
    <3>1. \A x \in Searches : /\ began'[x] = began[x] /\ asks'[x] = asks[x]
                              /\ answer'[x] = answer[x]
                              /\ search'[x] # search[x] => search'[x] = "done"
      BY <2>7 DEF Store, DatedInv
    <3>2. /\ DOMAIN asks' = Searches /\ DOMAIN search' = Searches
          /\ DOMAIN began' = Searches /\ DOMAIN answer' = Searches /\ now' = now
      BY <2>7 DEF Store, DatedInv
    <3>3. cache' \subseteq cache \cup {Entry(s)} /\ search[s] = "storing"
      BY <2>7 DEF Store, Put
    <3>4. Today' = Today
      BY <3>2 DEF Today
    <3>5. \A x \in Searches :
             /\ began'[x] \in Nat /\ began'[x] <= Today
             /\ search'[x] \in {"counting", "storing"} /\ Dated(asks'[x]) =>
                   answer'[x].today \in began'[x]..Today
      BY <3>1 DEF DatedInv
    <3>6. \A e \in cache' : e.key.kind # "skill" =>
             e.key.day \in Nat /\ e.answer.today \in e.key.day..Today
      BY <1>1, <3>3, StoredIsDated DEF DatedInv
    <3>7. QED
      BY <1>1, <3>2, <3>4, <3>5, <3>6 DEF DatedInv, Dated
  <2>8. CASE Fail(s) \/ FailStored(s)
    <3>1. /\ asks' = [asks EXCEPT ![s] = Unasked] /\ search' = [search EXCEPT ![s] = "failed"]
          /\ began' = [began EXCEPT ![s] = 1] /\ answer' = [answer EXCEPT ![s] = Unanswered]
          /\ now' = now
      BY <2>8 DEF Fail, FailStored, Forget
    <3>2. cache' \subseteq cache \/ (search[s] = "storing" /\ cache' \subseteq cache \cup {Entry(s)})
      BY <2>8 DEF Fail, FailStored, Put
    <3>3. Today' = Today /\ 1 <= Today
      <4>1. now \div DayLength \in Nat
        BY RetrievalAssumption DEF DatedInv
      <4>2. QED
        BY <3>1, <4>1 DEF Today
    <3>4. /\ DOMAIN asks' = Searches /\ DOMAIN search' = Searches
          /\ DOMAIN began' = Searches /\ DOMAIN answer' = Searches
      BY <3>1 DEF DatedInv
    <3>5. \A x \in Searches :
             /\ began'[x] \in Nat /\ began'[x] <= Today
             /\ search'[x] \in {"counting", "storing"} /\ Dated(asks'[x]) =>
                   answer'[x].today \in began'[x]..Today
      BY <3>1, <3>3 DEF DatedInv
    <3>6. \A e \in cache' : e.key.kind # "skill" =>
             e.key.day \in Nat /\ e.answer.today \in e.key.day..Today
      BY <1>1, <3>2, StoredIsDated DEF DatedInv
    <3>7. QED
      BY <1>1, <3>1, <3>3, <3>4, <3>5, <3>6 DEF DatedInv, Dated
  <2>9. CASE MissEmpty(s) \/ ResolveNobody(s) \/ Fetch(s) \/ Rank(s)
    BY <2>5, <2>9 DEF MissEmpty, ResolveNobody, Fetch, Rank
  <2>10. CASE Miss(s)
    <3>1. PICK p \in {"resolving", "fetching"} : search' = [search EXCEPT ![s] = p]
      BY <2>10 DEF Miss
    <3>2. QED
      BY <2>6, <2>10, <3>1 DEF Miss
  <2>11. CASE Resolve(s)
    BY <2>6, <2>11 DEF Resolve
  <2>12. CASE Count(s)
    BY <2>6, <2>12 DEF Count
  <2>13. QED
    BY <1>6, <2>3, <2>4, <2>7, <2>8, <2>9, <2>10, <2>11, <2>12 DEF Search
<1>7. QED
  BY <1>3, <1>4, <1>5, <1>6 DEF Next

(* "A cached answer must never survive the date change that invalidates    *)
(* it": whenever midnight falls, before, between or after the lookup, the  *)
(* reading of the clock and the storing.                                   *)
THEOREM AnswersAreDated == Spec => DatedAnswers
<1>1. DatedInv /\ [Next]_vars =>
        [\A s \in Searches : Delivers(s) /\ Dated(asks[s]) =>
              answer'[s].today \in began[s]..Today]_vars
  <2> SUFFICES ASSUME DatedInv, Next, NEW s \in Searches, Delivers(s), Dated(asks[s])
               PROVE  answer'[s].today \in began[s]..Today
    BY DEF vars
  <2>1. \E x \in Searches : Search(x)
    BY DEF Next, Tick, Ingest, Delete, Upsert, UpsertNothing, Abort, searching, Delivers
  <2>2. PICK x \in Searches : Search(x)
    BY <2>1
  <2>3. (\E e \in cache : Hit(x, e)) \/ Store(x)
    <3>1. ASSUME NEW p, p # "done", search' = [search EXCEPT ![x] = p] PROVE FALSE
      BY <3>1 DEF Delivers, DatedInv
    <3>2. QED
      BY <2>2, <3>1 DEF Search, Begin, MissEmpty, Miss, Resolve, ResolveNobody, Fetch,
                        Rank, Count, Fail, FailStored, Forget, Sees
  <2>4. x = s
    BY <2>3 DEF Hit, Store, Delivers, DatedInv
  <2>5. CASE \E e \in cache : Hit(x, e)
    <3>1. PICK e \in cache : Hit(s, e)
      BY <2>4, <2>5
    <3>2. e.key = KeyOf(s) /\ answer'[s] = e.answer
      BY <3>1 DEF Hit, DatedInv
    <3>3. e.key.kind = asks[s].kind /\ e.key.day = began[s]
      BY <3>2 DEF KeyOf, Key
    <3>4. QED
      BY <3>2, <3>3 DEF DatedInv, Dated
  <2>6. CASE Store(x)
    BY <2>4, <2>6 DEF Store, DatedInv
  <2>7. QED
    BY <2>3, <2>5, <2>6
<1>2. QED
  BY DatedInit, DatedStep, <1>1, PTL DEF Spec, DatedAnswers

-----------------------------------------------------------------------------
(* Types *)
LEMMA DaysAreBounded ==
    ASSUME NEW n \in 0..Horizon
    PROVE  n \div DayLength + 1 \in Days /\ n \div DayLength + 1 \in Nat
<1>1. n \div DayLength \in Nat /\ Horizon \div DayLength \in Nat
  BY RetrievalAssumption
<1>2. n \div DayLength <= Horizon \div DayLength
  BY RetrievalAssumption, SMTT(30)
<1>3. QED
  BY <1>1, <1>2 DEF Days

LEMMA TypeInit == Init => TypeOK
<1> SUFFICES ASSUME Init PROVE TypeOK
  OBVIOUS
<1> USE RetrievalAssumption
<1>1. now \in 0..Horizon /\ 1 \in Days
  <2>1. 0 \in 0..Horizon /\ Horizon \div DayLength \in Nat
    OBVIOUS
  <2>2. QED
    BY <2>1 DEF Init, Days
<1>2. Unanswered \in Answer
  BY <1>1 DEF Unanswered, Answer, Nobody
<1>3. index \in [People -> SUBSET Rows]
  BY DEF Init, Rows
<1>4. QED
  BY <1>1, <1>2, <1>3 DEF Init, TypeOK, JobSteps, SearchSteps

LEMMA KeyType ==
    ASSUME NEW q \in Queries \cup {Unasked}, NEW d \in Days
    PROVE  Key(q, d) \in Keys
<1>1. /\ q.kind \in {"cohort", "person", "skill"} /\ q.ids \in SUBSET People
      /\ q.named \in SUBSET People
  BY RetrievalAssumption DEF Query, Unasked
<1>2. Keyed(q.ids) \in SUBSET People
  BY <1>1 DEF Keyed
<1>3. QED
  BY <1>1, <1>2 DEF Key, Keys

LEMMA EntryType ==
    ASSUME TypeOK, NEW s \in Searches
    PROVE  /\ Entry(s).key = KeyOf(s) /\ Entry(s).key \in Keys
           /\ Entry(s).answer \in Answer /\ Entry(s).expires \in Nat
<1>1. KeyOf(s) \in Keys
  BY KeyType DEF TypeOK, KeyOf
<1>2. Today \in Nat
  BY DaysAreBounded DEF TypeOK, Today
<1>3. Midnight \in Nat /\ now + Lifetime \in Nat
  BY <1>2, RetrievalAssumption DEF Midnight, TypeOK
<1>4. QED
  BY <1>1, <1>3 DEF Entry, TypeOK

CacheType ==
    /\ \A e \in cache : e.key \in Keys /\ e.answer \in Answer /\ e.expires \in Nat
    /\ \A e, f \in cache : e.key = f.key => e = f

LEMMA PutType ==
    ASSUME TypeOK, NEW s \in Searches, Put(s)
    PROVE  CacheType'
<1> DEFINE e == Entry(s)
<1>1. cache' = {f \in cache : f.key # e.key} \cup {e}
  BY EntryType DEF Put
<1>2. e.key \in Keys /\ e.answer \in Answer /\ e.expires \in Nat
  BY EntryType
<1> HIDE DEF e
<1>3. QED
  BY <1>1, <1>2 DEF TypeOK, CacheType

LEMMA TypeStep == TypeOK /\ [Next]_vars => TypeOK'
<1> SUFFICES ASSUME TypeOK, [Next]_vars PROVE TypeOK'
  OBVIOUS
<1>1. Today \in Days /\ 1 \in Days
  <2>1. 0 \in 0..Horizon /\ 0 \div DayLength + 1 = 1
    BY RetrievalAssumption
  <2>2. QED
    BY <2>1, DaysAreBounded DEF TypeOK, Today
<1>2. ASSUME NEW j \in Jobs, Ingest(j) PROVE TypeOK'
  <2>1. UNCHANGED <<now, expiring>> /\ UNCHANGED searching
    BY <1>2 DEF Ingest, Delete, Upsert, UpsertNothing, Abort
  <2>2. job' \in [Jobs -> JobSteps]
    BY <1>2 DEF Ingest, Delete, Upsert, UpsertNothing, Abort, TypeOK, JobSteps
  <2>3. index' \in [People -> SUBSET Rows]
    BY <1>2, RetrievalAssumption DEF Ingest, Delete, Upsert, UpsertNothing, Abort, TypeOK, Rows
  <2>4. touched' \subseteq People /\ clean' \subseteq Jobs
    <3>1. touched \subseteq People /\ clean \subseteq Jobs /\ Subject[j] \in People
      BY RetrievalAssumption DEF TypeOK
    <3>2. touched' \subseteq touched \cup {Subject[j]} /\ clean' \subseteq clean \cup {j}
      BY <1>2 DEF Ingest, Delete, Upsert, UpsertNothing, Abort
    <3>3. QED
      BY <3>1, <3>2
  <2>5. QED
    BY <2>1, <2>2, <2>3, <2>4 DEF TypeOK, searching
<1>3. CASE Tick
  <2>1. now' \in 0..Horizon
    BY <1>3, RetrievalAssumption DEF Tick, TypeOK
  <2>2. cache' \subseteq cache /\ touched' \subseteq touched
    BY <1>3 DEF Tick
  <2>3. QED
    BY <1>3, <2>1, <2>2 DEF Tick, TypeOK
<1>4. ASSUME NEW s \in Searches, Search(s) PROVE TypeOK'
  <2>1. UNCHANGED <<now, expiring>> /\ UNCHANGED ingesting
    BY <1>4 DEF Search, Begin, Hit, MissEmpty, Miss, Resolve, ResolveNobody, Fetch, Rank,
                Count, Store, Fail, FailStored, Forget, Sees
  <2>2. CacheType'
    <3>1. CASE Store(s) \/ FailStored(s)
      BY <3>1, PutType DEF Store, FailStored
    <3>2. CASE UNCHANGED cache
      BY <3>2 DEF TypeOK, CacheType
    <3>3. QED
      BY <1>4, <3>1, <3>2 DEF Search, Begin, Hit, MissEmpty, Miss, Resolve, ResolveNobody,
                              Fetch, Rank, Count, Fail, Sees
  <2>3. search' \in [Searches -> SearchSteps]
    <3>1. \E p \in SearchSteps : search' = [search EXCEPT ![s] = p]
      BY <1>4 DEF Search, Begin, Hit, MissEmpty, Miss, Resolve, ResolveNobody, Fetch, Rank,
                  Count, Store, Fail, FailStored, Forget, Sees, SearchSteps
    <3>2. QED
      BY <3>1 DEF TypeOK
  <2>4. asks' \in [Searches -> Queries \cup {Unasked}]
    BY <1>4 DEF Search, Begin, Hit, MissEmpty, Miss, Resolve, ResolveNobody, Fetch, Rank,
                Count, Store, Fail, FailStored, Forget, Sees, TypeOK
  <2>5. began' \in [Searches -> Days]
    BY <1>1, <1>4 DEF Search, Begin, Hit, MissEmpty, Miss, Resolve, ResolveNobody,
          Fetch, Rank, Count, Store, Fail, FailStored, Forget, Sees, TypeOK
  <2>6. found' \in [Searches -> SUBSET People]
    <3>1. found' = found \/ \E F \in SUBSET People : found' = [found EXCEPT ![s] = F]
      <4>1. asks[s].named \cap Indexed \in SUBSET People /\ {} \in SUBSET People
        BY DEF Indexed
      <4>2. QED
        BY <1>4, <4>1 DEF Search, Begin, Hit, MissEmpty, Miss, Resolve, ResolveNobody,
              Fetch, Rank, Count, Store, Fail, FailStored, Forget, Sees
    <3>2. QED
      BY <3>1 DEF TypeOK
  <2>7. answer' \in [Searches -> Answer]
    <3>1. ASSUME NEW seen \in [People -> SUBSET Rows], NEW next, Sees(s, seen, next)
          PROVE  answer' \in [Searches -> Answer]
      <4>1. [seen |-> seen, today |-> Today] \in Answer
        BY <1>1 DEF Answer
      <4>2. QED
        BY <3>1, <4>1 DEF Sees, TypeOK
    <3>2. CASE MissEmpty(s) \/ ResolveNobody(s)
      <4>1. Nobody \in [People -> SUBSET Rows]
        BY DEF Nobody
      <4>2. QED
        BY <3>1, <3>2, <4>1 DEF MissEmpty, ResolveNobody
    <3>3. ASSUME NEW who PROVE Among(who) \in [People -> SUBSET Rows]
      BY DEF Among, TypeOK
    <3>4. CASE Fetch(s) \/ Rank(s)
      BY <3>1, <3>3, <3>4 DEF Fetch, Rank
    <3>5. CASE \E e \in cache : Hit(s, e)
      BY <3>5 DEF Hit, TypeOK
    <3>6. Unanswered \in Answer
      BY <1>1 DEF Unanswered, Answer, Nobody
    <3>7. CASE Fail(s) \/ FailStored(s)
      BY <3>6, <3>7 DEF Fail, FailStored, Forget, TypeOK
    <3>8. CASE UNCHANGED answer
      BY <3>8 DEF TypeOK
    <3>9. (\E q \in Queries : Begin(s, q)) \/ Miss(s) \/ Resolve(s) \/ Count(s) \/ Store(s)
             => UNCHANGED answer
      BY DEF Begin, Miss, Resolve, Count, Store
    <3>10. QED
      BY <1>4, <3>2, <3>4, <3>5, <3>7, <3>8, <3>9 DEF Search
  <2>8. QED
    BY <2>1, <2>2, <2>3, <2>4, <2>5, <2>6, <2>7 DEF TypeOK, CacheType, ingesting
<1>5. CASE UNCHANGED vars
  BY <1>5 DEF vars, TypeOK
<1>6. QED
  BY <1>2, <1>3, <1>4, <1>5 DEF Next

(* Every variable has its type, and the cache one entry per key. *)
THEOREM TypeCorrect == Spec => []TypeOK
  BY TypeInit, TypeStep, PTL DEF Spec

-----------------------------------------------------------------------------
(* Scopes and completeness.  What an answer is compared with: the day, the *)
(* index, and whose chunks changed on that day.                            *)
Chunks == [today |-> Today, index |-> index, touched |-> touched]

InScope(q, seen) == \A p \in People \ Whom(q) : seen[p] = {}

Exact(q, day, seen, w) ==
    Dated(q) /\ day = w.today => \A p \in Whom(q) \ w.touched : seen[p] = w.index[p]

(* Whoever of the named was not found has no chunks.                       *)
Resolved(q, day, who, w) ==
    /\ who \subseteq q.named
    /\ day = w.today => \A p \in (q.named \ who) \ w.touched : w.index[p] = {}

Begins == {"new", "failed"}

(* A search that asks q since `day` and is at `step`.                      *)
SearchFits(q, step, day, who, seen, w) ==
    /\ step \notin Begins => q \in Queries /\ day <= w.today
    /\ step = "resolving" => ByName(q)
    /\ step = "fetching" /\ ByName(q) => Resolved(q, day, who, w)
    /\ step \in {"counting", "storing"} => InScope(q, seen) /\ Exact(q, day, seen, w)

(* An entry is the answer to a question that has its key.                  *)
EntryFits(e, w) ==
    \E q \in Queries, day \in Days :
        /\ e.key = Key(q, day) /\ day <= w.today
        /\ InScope(q, e.answer.seen) /\ Exact(q, day, e.answer.seen, w)

ScopeInv ==
    /\ TypeOK
    /\ \A s \in Searches :
          SearchFits(asks[s], search[s], began[s], found[s], answer[s].seen, Chunks)
    /\ \A e \in cache : EntryFits(e, Chunks)

(* What happens to the chunks that the answers need not follow: another    *)
(* day begins, or those change that are touched then.                      *)
Passes(w, v) ==
    /\ w.today \in Nat /\ v.today \in Nat /\ w.today <= v.today
    /\ w.today = v.today =>
          \A p \in People \ v.touched : p \notin w.touched /\ v.index[p] = w.index[p]

LEMMA QueryType ==
    ASSUME NEW q \in Queries
    PROVE  /\ q.named \subseteq People /\ q.ids \subseteq People /\ Whom(q) \subseteq People
           /\ q.kind \in {"cohort", "person", "skill"}
  BY RetrievalAssumption DEF Query, Whom

LEMMA FitsStay ==
    ASSUME NEW w, NEW v, Passes(w, v)
    PROVE  /\ \A step, who, seen : \A q \in Queries \cup {Unasked}, day \in Days :
                 SearchFits(q, step, day, who, seen, w) => SearchFits(q, step, day, who, seen, v)
           /\ \A e : EntryFits(e, w) => EntryFits(e, v)
<1>1. Days \subseteq Nat
  BY DEF Days
<1>2. ASSUME NEW q \in Queries, NEW day \in Days, NEW seen, day <= w.today,
             Exact(q, day, seen, w)
      PROVE  Exact(q, day, seen, v)
  <2> SUFFICES ASSUME Dated(q), day = v.today, NEW p \in Whom(q) \ v.touched
               PROVE  seen[p] = v.index[p]
    BY DEF Exact
  <2>1. w.today = v.today
    BY <1>1, <1>2 DEF Passes
  <2>2. p \in People
    BY QueryType
  <2>3. QED
    BY <1>2, <2>1, <2>2 DEF Exact, Passes
<1>3. ASSUME NEW q \in Queries, NEW day \in Days, NEW who, day <= w.today,
             Resolved(q, day, who, w)
      PROVE  Resolved(q, day, who, v)
  <2> SUFFICES ASSUME day = v.today, NEW p \in (q.named \ who) \ v.touched
               PROVE  v.index[p] = {}
    BY <1>3 DEF Resolved
  <2>1. w.today = v.today
    BY <1>1, <1>3 DEF Passes
  <2>2. p \in People
    BY QueryType
  <2>3. QED
    BY <1>3, <2>1, <2>2 DEF Resolved, Passes
<1>4. ASSUME NEW q \in Queries \cup {Unasked}, NEW step, NEW day \in Days, NEW who, NEW seen,
             SearchFits(q, step, day, who, seen, w)
      PROVE  SearchFits(q, step, day, who, seen, v)
  <2>1. CASE step \in Begins
    BY <2>1 DEF SearchFits, Begins
  <2>2. CASE step \notin Begins
    <3>1. q \in Queries /\ day <= w.today
      BY <1>4, <2>2 DEF SearchFits
    <3>2. day <= v.today
      BY <1>1, <3>1 DEF Passes
    <3>3. QED
      BY <1>2, <1>3, <1>4, <3>1, <3>2 DEF SearchFits
  <2>3. QED
    BY <2>1, <2>2
<1>5. ASSUME NEW e, EntryFits(e, w) PROVE EntryFits(e, v)
  <2>1. PICK q \in Queries, day \in Days :
          /\ e.key = Key(q, day) /\ day <= w.today
          /\ InScope(q, e.answer.seen) /\ Exact(q, day, e.answer.seen, w)
    BY <1>5 DEF EntryFits
  <2>2. day <= v.today
    BY <1>1, <2>1 DEF Passes
  <2>3. QED
    BY <1>2, <2>1, <2>2 DEF EntryFits
<1>6. QED
  BY <1>4, <1>5

LEMMA TodayType ==
    ASSUME TypeOK
    PROVE  Today \in Days /\ Today \in Nat
  BY DaysAreBounded DEF TypeOK, Today

(* At midnight another day begins.                                         *)
LEMMA MidnightPasses ==
    ASSUME NEW n \in Nat, (n + 1) % DayLength = 0
    PROVE  n \div DayLength < (n + 1) \div DayLength
  BY RetrievalAssumption, SMTT(60)

(* An ingest touches whom it changes, and midnight alone forgets that.     *)
LEMMA WorldPasses ==
    ASSUME TypeOK, Tick \/ \E j \in Jobs : Ingest(j), TypeOK'
    PROVE  Passes(Chunks, Chunks')
<1> USE DEF Chunks
<1>1. Today \in Nat /\ Today' \in Nat
  <2>1. now' \in 0..Horizon
    BY DEF TypeOK
  <2>2. Today' \in Nat
    BY <2>1, DaysAreBounded DEF Today
  <2>3. QED
    BY <2>2, TodayType
<1>2. ASSUME NEW j \in Jobs, Ingest(j) PROVE Passes(Chunks, Chunks')
  <2>1. now' = now
    BY <1>2 DEF Ingest, Delete, Upsert, UpsertNothing, Abort
  <2>2. Today' = Today
    BY <2>1 DEF Today
  <2>3. Subject[j] \in People
    BY RetrievalAssumption
  <2>4. ASSUME NEW p \in People \ touched' PROVE p \notin touched /\ index'[p] = index[p]
    BY <1>2, <2>3, <2>4 DEF Ingest, Delete, Upsert, UpsertNothing, Abort, TypeOK
  <2>5. QED
    BY <1>1, <2>2, <2>4 DEF Passes
<1>3. CASE Tick
  <2>1. now \in Nat /\ now' = now + 1 /\ index' = index
    BY <1>3, RetrievalAssumption DEF Tick, TypeOK
  <2>2. Today <= Today'
    BY <2>1, DaysPass DEF Today
  <2>3. CASE now' % DayLength = 0
    <3>1. now \div DayLength < (now + 1) \div DayLength
      BY <2>1, <2>3, MidnightPasses
    <3>2. now \div DayLength \in Nat /\ (now + 1) \div DayLength \in Nat
      BY <2>1, RetrievalAssumption
    <3>3. Today # Today'
      BY <2>1, <3>1, <3>2 DEF Today
    <3>4. QED
      BY <1>1, <2>2, <3>3 DEF Passes
  <2>4. CASE now' % DayLength # 0
    <3>1. touched' = touched
      BY <1>3, <2>4 DEF Tick
    <3>2. QED
      BY <1>1, <2>1, <2>2, <3>1 DEF Passes
  <2>5. QED
    BY <2>3, <2>4
<1>4. QED
  BY <1>2, <1>3

(* One search goes on, among chunks that stay as they are.                 *)
Others(s) ==
    \A x \in Searches \ {s} :
        /\ asks'[x] = asks[x] /\ search'[x] = search[x] /\ began'[x] = began[x]
        /\ found'[x] = found[x] /\ answer'[x] = answer[x]

LEMMA OneSearch ==
    ASSUME ScopeInv, TypeOK', NEW s \in Searches, UNCHANGED <<now, index, touched>>, Others(s),
           SearchFits(asks'[s], search'[s], began'[s], found'[s], answer'[s].seen, Chunks),
           \A e \in cache' : EntryFits(e, Chunks)
    PROVE  ScopeInv'
<1>1. Chunks' = Chunks
  BY DEF Chunks, Today
<1>2. \A x \in Searches :
         SearchFits(asks'[x], search'[x], began'[x], found'[x], answer'[x].seen, Chunks)
  BY DEF ScopeInv, Others
<1>3. QED
  BY <1>1, <1>2 DEF ScopeInv

(* What a search has read fits, whichever way it read it.                  *)
LEMMA ReadsFit ==
    ASSUME ScopeInv, NEW s \in Searches, search[s] \notin Begins,
           NEW seen, NEW next \in {"counting", "storing"},
           Sees(s, seen, next), found' = found, TypeOK',
           InScope(asks[s], seen), Exact(asks[s], began[s], seen, Chunks)
    PROVE  ScopeInv'
<1>1. /\ answer' = [answer EXCEPT ![s] = [seen |-> seen, today |-> Today]]
      /\ search' = [search EXCEPT ![s] = next]
      /\ UNCHANGED <<now, cache, asks, began, index, touched>>
  BY DEF Sees, ingesting
<1>2. DOMAIN answer = Searches /\ DOMAIN search = Searches
  BY DEF ScopeInv, TypeOK
<1>3. Others(s) /\ answer'[s].seen = seen /\ search'[s] = next
  BY <1>1, <1>2 DEF Others
<1>4. asks[s] \in Queries /\ began[s] <= Chunks.today
  BY DEF ScopeInv, SearchFits
<1>5. SearchFits(asks'[s], search'[s], began'[s], found'[s], answer'[s].seen, Chunks)
  BY <1>1, <1>3, <1>4 DEF SearchFits
<1>6. \A e \in cache' : EntryFits(e, Chunks)
  BY <1>1 DEF ScopeInv
<1>7. QED
  BY <1>1, <1>3, <1>5, <1>6, OneSearch

(* A search that goes on without reading has what it had.                  *)
LEMMA GoesOn ==
    ASSUME ScopeInv, NEW s \in Searches, TypeOK', search[s] \notin Begins,
           NEW p, search' = [search EXCEPT ![s] = p],
           UNCHANGED <<now, asks, began, answer, index, touched>>,
           \A x \in Searches \ {s} : found'[x] = found[x],
           p \in {"counting", "storing"} => search[s] \in {"counting", "storing"},
           p = "resolving" => ByName(asks[s]),
           p = "fetching" /\ ByName(asks[s]) =>
                Resolved(asks[s], began[s], found'[s], Chunks),
           \A e \in cache' : EntryFits(e, Chunks)
    PROVE  ScopeInv'
<1>1. search'[s] = p /\ \A x \in Searches \ {s} : search'[x] = search[x]
  BY DEF ScopeInv, TypeOK
<1>2. Others(s)
  BY <1>1 DEF Others
<1>3. SearchFits(asks[s], search[s], began[s], found[s], answer[s].seen, Chunks)
  BY DEF ScopeInv
<1>4. SearchFits(asks'[s], search'[s], began'[s], found'[s], answer'[s].seen, Chunks)
  BY <1>1, <1>3 DEF SearchFits
<1>5. QED
  BY <1>2, <1>4, OneSearch

LEMMA StoredFits ==
    ASSUME ScopeInv, NEW s \in Searches, search[s] = "storing"
    PROVE  EntryFits(Entry(s), Chunks)
<1>1. /\ asks[s] \in Queries /\ began[s] <= Chunks.today /\ began[s] \in Days
      /\ InScope(asks[s], answer[s].seen)
      /\ Exact(asks[s], began[s], answer[s].seen, Chunks)
  BY DEF ScopeInv, SearchFits, Begins, TypeOK
<1>2. Entry(s).key = Key(asks[s], began[s]) /\ Entry(s).answer = answer[s]
  BY DEF Entry, KeyOf
<1>3. QED
  BY <1>1, <1>2 DEF EntryFits

LEMMA FetchFits ==
    ASSUME ScopeInv, NEW s \in Searches, Fetch(s), TypeOK'
    PROVE  ScopeInv'
<1> DEFINE q == asks[s]
           who == IF ByName(q) THEN found[s] ELSE Whom(q)
           next == IF q.kind = "cohort" /\ ~q.scoped THEN "counting" ELSE "storing"
<1>1. /\ search[s] = "fetching" /\ Dated(q) /\ Sees(s, Among(who), next) /\ found' = found
      /\ next \in {"counting", "storing"}
  BY DEF Fetch
<1>2. q \in Queries
  BY <1>1 DEF ScopeInv, SearchFits, Begins
<1>3. ByName(q) => /\ Resolved(q, began[s], found[s], Chunks)
                   /\ Whom(q) = q.named
  BY <1>1 DEF ScopeInv, SearchFits, ByName, Whom
<1>4. Whom(q) \subseteq People
  BY <1>2, QueryType
<1>5. \A p \in People : Among(who)[p] = IF p \in who THEN index[p] ELSE {}
  BY DEF Among
<1> HIDE DEF q, next
<1>6. InScope(q, Among(who))
  BY <1>3, <1>5 DEF InScope, Resolved
<1>7. Exact(q, began[s], Among(who), Chunks)
  <2> SUFFICES ASSUME began[s] = Chunks.today, NEW p \in Whom(q) \ Chunks.touched
               PROVE  Among(who)[p] = Chunks.index[p]
    BY DEF Exact
  <2>1. Chunks.index = index /\ p \in People
    BY <1>4 DEF Chunks
  <2>2. CASE ByName(q) /\ p \notin found[s]
    <3>1. p \in (q.named \ found[s]) \ Chunks.touched
      BY <1>3, <2>2
    <3>2. Chunks.index[p] = {}
      BY <1>3, <2>2, <3>1 DEF Resolved
    <3>3. QED
      BY <1>5, <2>1, <2>2, <3>2
  <2>3. CASE ~ByName(q) \/ p \in found[s]
    BY <1>5, <2>1, <2>3
  <2>4. QED
    BY <2>2, <2>3
<1>8. QED
  BY <1>1, <1>6, <1>7, ReadsFit DEF q, Begins

LEMMA RankFits ==
    ASSUME ScopeInv, NEW s \in Searches, Rank(s), TypeOK'
    PROVE  ScopeInv'
<1>1. PICK top \in SUBSET (Whom(asks[s]) \cap Indexed) : Sees(s, Among(top), "storing")
  BY DEF Rank
<1>2. search[s] = "fetching" /\ ~Dated(asks[s]) /\ found' = found
  BY DEF Rank
<1>3. InScope(asks[s], Among(top))
  BY <1>1 DEF InScope, Among
<1>4. Exact(asks[s], began[s], Among(top), Chunks)
  BY <1>2 DEF Exact
<1>5. QED
  BY <1>1, <1>2, <1>3, <1>4, ReadsFit DEF Begins

(* Nobody is the answer where nobody is asked about, or nobody of the name *)
(* has chunks.                                                             *)
LEMMA NobodyFits ==
    ASSUME ScopeInv, NEW s \in Searches, MissEmpty(s) \/ ResolveNobody(s), TypeOK'
    PROVE  ScopeInv'
<1>1. Sees(s, Nobody, "storing") /\ found' = found /\ search[s] \notin Begins
  BY DEF MissEmpty, ResolveNobody, Uncached, Begins
<1>2. asks[s] \in Queries
  BY <1>1 DEF ScopeInv, SearchFits
<1>3. \A p \in People : Nobody[p] = {}
  BY DEF Nobody
<1>4. InScope(asks[s], Nobody)
  BY <1>3 DEF InScope
<1>5. \A p \in Whom(asks[s]) : p \in People /\ index[p] = {}
  <2>1. Whom(asks[s]) \subseteq People
    BY <1>2, QueryType
  <2>2. CASE MissEmpty(s)
    BY <2>2 DEF MissEmpty, OfNobody, Whom
  <2>3. CASE ResolveNobody(s)
    <3>1. asks[s].named \cap Indexed = {}
      BY <2>3 DEF ResolveNobody
    <3>2. ByName(asks[s])
      BY <2>3 DEF ResolveNobody, ScopeInv, SearchFits
    <3>3. QED
      BY <2>1, <3>1, <3>2 DEF Whom, ByName, Indexed
  <2>4. QED
    BY <2>2, <2>3
<1>6. Exact(asks[s], began[s], Nobody, Chunks)
  BY <1>3, <1>5 DEF Exact, Chunks
<1>7. QED
  BY <1>1, <1>4, <1>6, ReadsFit

(* Who is not found by the name has no chunks, or gets them today.         *)
LEMMA ResolveFits ==
    ASSUME ScopeInv, NEW s \in Searches, Resolve(s), TypeOK'
    PROVE  ScopeInv'
<1>1. /\ search[s] = "resolving" /\ search' = [search EXCEPT ![s] = "fetching"]
      /\ found' = [found EXCEPT ![s] = asks[s].named \cap Indexed]
      /\ UNCHANGED <<now, cache, asks, began, answer, index, touched>>
  BY DEF Resolve, ingesting
<1>2. DOMAIN found = Searches /\ asks[s] \in Queries
  BY <1>1 DEF ScopeInv, TypeOK, SearchFits, Begins
<1>3. found'[s] = asks[s].named \cap Indexed /\ \A x \in Searches \ {s} : found'[x] = found[x]
  BY <1>1, <1>2
<1>4. asks[s].named \subseteq People
  BY <1>2, QueryType
<1>5. Resolved(asks[s], began[s], found'[s], Chunks)
  BY <1>3, <1>4 DEF Resolved, Indexed, Chunks
<1>6. QED
  BY <1>1, <1>3, <1>5, GoesOn DEF Begins, ScopeInv

LEMMA BeginFits ==
    ASSUME ScopeInv, NEW s \in Searches, NEW q \in Queries, Begin(s, q), TypeOK'
    PROVE  ScopeInv'
<1>1. /\ asks'[s] = q /\ search'[s] = "lookup" /\ began'[s] = Today /\ Others(s)
      /\ UNCHANGED <<now, cache, index, touched>>
  BY DEF Begin, ScopeInv, TypeOK, Others, ingesting
<1>2. Today <= Chunks.today
  BY TodayType DEF ScopeInv, Chunks
<1>3. SearchFits(asks'[s], search'[s], began'[s], found'[s], answer'[s].seen, Chunks)
  BY <1>1, <1>2 DEF SearchFits
<1>4. QED
  BY <1>1, <1>3, OneSearch DEF ScopeInv

LEMMA HitFits ==
    ASSUME ScopeInv, NEW s \in Searches, NEW e \in cache, Hit(s, e), TypeOK'
    PROVE  ScopeInv'
<1>1. /\ asks'[s] = asks[s] /\ search'[s] = "done" /\ began'[s] = began[s] /\ Others(s)
      /\ search[s] = "lookup" /\ UNCHANGED <<now, cache, index, touched>>
  BY DEF Hit, ScopeInv, TypeOK, Others, ingesting
<1>2. asks[s] \in Queries /\ began[s] <= Chunks.today
  BY <1>1 DEF ScopeInv, SearchFits, Begins
<1>3. SearchFits(asks'[s], search'[s], began'[s], found'[s], answer'[s].seen, Chunks)
  BY <1>1, <1>2 DEF SearchFits
<1>4. QED
  BY <1>1, <1>3, OneSearch DEF ScopeInv

LEMMA StoreFits ==
    ASSUME ScopeInv, NEW s \in Searches, Store(s), TypeOK'
    PROVE  ScopeInv'
<1>1. /\ search[s] = "storing" /\ search' = [search EXCEPT ![s] = "done"]
      /\ cache' \subseteq cache \cup {Entry(s)}
      /\ UNCHANGED <<now, asks, began, found, answer, index, touched>>
  BY DEF Store, Put, ingesting
<1>2. \A e \in cache' : EntryFits(e, Chunks)
  BY <1>1, StoredFits DEF ScopeInv
<1>3. QED
  BY <1>1, <1>2, GoesOn DEF Begins

LEMMA FailureFits ==
    ASSUME ScopeInv, NEW s \in Searches, Fail(s) \/ FailStored(s), TypeOK'
    PROVE  ScopeInv'
<1>1. /\ search'[s] = "failed" /\ Others(s) /\ UNCHANGED <<now, index, touched>>
      /\ \/ cache' = cache
         \/ search[s] = "storing" /\ cache' \subseteq cache \cup {Entry(s)}
  BY DEF Fail, FailStored, Forget, Put, ScopeInv, TypeOK, Others, ingesting
<1>2. SearchFits(asks'[s], search'[s], began'[s], found'[s], answer'[s].seen, Chunks)
  BY <1>1 DEF SearchFits, Begins
<1>3. \A e \in cache' : EntryFits(e, Chunks)
  BY <1>1, StoredFits DEF ScopeInv
<1>4. QED
  BY <1>1, <1>2, <1>3, OneSearch

LEMMA ScopeInit == Init => ScopeInv
<1> SUFFICES ASSUME Init PROVE ScopeInv
  OBVIOUS
<1>1. TypeOK
  BY TypeInit
<1>2. \A s \in Searches : search[s] = "new"
  BY DEF Init
<1>3. cache = {}
  BY DEF Init
<1>4. QED
  BY <1>1, <1>2, <1>3 DEF ScopeInv, SearchFits, Begins

LEMMA ScopeStep == ScopeInv /\ [Next]_vars => ScopeInv'
<1> SUFFICES ASSUME ScopeInv, [Next]_vars PROVE ScopeInv'
  OBVIOUS
<1>1. TypeOK'
  BY TypeStep DEF ScopeInv
<1>2. CASE Tick \/ \E j \in Jobs : Ingest(j)
  <2>1. Passes(Chunks, Chunks')
    BY <1>1, <1>2, WorldPasses DEF ScopeInv
  <2>2. cache' \subseteq cache /\ UNCHANGED <<asks, search, began, found, answer>>
    BY <1>2 DEF Tick, Ingest, Delete, Upsert, UpsertNothing, Abort, searching
  <2>3. \A s \in Searches : asks[s] \in Queries \cup {Unasked} /\ began[s] \in Days
    BY DEF ScopeInv, TypeOK
  <2>4. \A s \in Searches :
           SearchFits(asks[s], search[s], began[s], found[s], answer[s].seen, Chunks')
    BY <2>1, <2>3, FitsStay DEF ScopeInv
  <2>5. \A e \in cache : EntryFits(e, Chunks')
    BY <2>1, FitsStay DEF ScopeInv
  <2>6. QED
    BY <1>1, <2>2, <2>4, <2>5 DEF ScopeInv
<1>3. ASSUME NEW s \in Searches, Search(s) PROVE ScopeInv'
  <2>1. CASE Miss(s)
    <3>1. PICK p \in {"resolving", "fetching"} :
             /\ search' = [search EXCEPT ![s] = p]
             /\ p = "resolving" <=> ByName(asks[s])
      BY <2>1 DEF Miss
    <3>2. UNCHANGED <<now, cache, asks, began, found, answer, index, touched>>
      BY <2>1 DEF Miss, ingesting
    <3>3. search[s] = "lookup"
      BY <2>1 DEF Miss, Uncached
    <3>4. QED
      BY <1>1, <3>1, <3>2, <3>3, GoesOn DEF Begins, ScopeInv
  <2>2. CASE Count(s)
    BY <1>1, <2>2, GoesOn DEF Count, Begins, ScopeInv, ingesting
  <2>3. QED
    BY <1>1, <1>3, <2>1, <2>2, BeginFits, HitFits, NobodyFits, ResolveFits, FetchFits,
       RankFits, StoreFits, FailureFits DEF Search
<1>4. CASE UNCHANGED vars
  BY <1>1, <1>4 DEF vars, ScopeInv, Chunks, Today
<1>5. QED
  BY <1>2, <1>3, <1>4 DEF Next

(* Equal keys are of alike questions, and attribute questions of one day.  *)
LEMMA KeysTell ==
    ASSUME NEW q \in Queries, NEW r \in Queries, NEW d, NEW f, Key(q, d) = Key(r, f)
    PROVE  r \in Alike(q) /\ (Dated(q) <=> Dated(r)) /\ (Dated(q) => d = f)
<1>1. /\ q.kind = r.kind /\ Keyed(q.ids) = Keyed(r.ids) /\ q.named = r.named
      /\ (IF Dated(q) THEN d ELSE 0) = (IF Dated(r) THEN f ELSE 0)
  BY DEF Key
<1>2. QED
  BY <1>1 DEF Alike, Dated

(* A set of numbers has a least one. *)
LEMMA LeastNumber ==
  ASSUME NEW T \in SUBSET Nat, T # {}
  PROVE  \E n \in T : \A m \in T : n <= m
<1> DEFINE R == OpToRel(<, Nat)
<1>1. IsWellFoundedOn(R, Nat)
  BY NatLessThanWellFounded
<1>2. R = {p \in Nat \X Nat : p[1] < p[2]}
  BY DEF OpToRel
<1> HIDE DEF R
<1>3. PICK x \in T : \A y \in T : ~ (<<y, x>> \in R)
  BY <1>1, WFMin
<1>4. ASSUME NEW y \in T PROVE x <= y
  <2>1. <<y, x>> \in Nat \X Nat /\ <<y, x>> \notin R
    BY <1>3
  <2>2. ~(y < x)
    BY <1>2, <2>1
  <2>3. QED
    BY <2>2
<1>5. QED
  BY <1>4

(* A key that is not full holds the whole scope: were an id left out, the  *)
(* least such would have too few before it to be.                          *)
LEMMA KeyHoldsScope ==
    ASSUME NEW I \in SUBSET People, Cardinality(Keyed(I)) < KeyedIds
    PROVE  Keyed(I) = I
<1> DEFINE T == I \ Keyed(I)
<1>1. Keyed(I) \subseteq I /\ I \subseteq Nat /\ IsFiniteSet(I) /\ IsFiniteSet(Keyed(I))
  BY RetrievalAssumption, FS_Subset DEF Keyed
<1>2. SUFFICES ASSUME T # {} PROVE FALSE
  BY <1>1
<1>3. PICK p \in T : \A o \in T : p <= o
  BY <1>1, <1>2, LeastNumber
<1>4. \A o \in T : ~(o < p)
  BY <1>1, <1>3
<1>5. {o \in I : o < p} \subseteq Keyed(I)
  BY <1>4
<1>6. Cardinality({o \in I : o < p}) <= Cardinality(Keyed(I))
  BY <1>1, <1>5, FS_Subset
<1>7. Cardinality({o \in I : o < p}) \in Nat /\ Cardinality(Keyed(I)) \in Nat
  BY <1>1, <1>5, FS_Subset, FS_CardinalityType
<1>8. p \in Keyed(I)
  BY <1>6, <1>7, RetrievalAssumption DEF Keyed
<1>9. QED
  BY <1>8

(* What is told from the others is about the people of all its like.       *)
LEMMA ToldApart ==
    ASSUME NEW q \in Queries, KeyTells(q), NEW r \in Alike(q)
    PROVE  Whom(r) = Whom(q)
<1>1. /\ r \in Queries /\ r.kind = q.kind /\ r.named = q.named
      /\ Keyed(r.ids) = Keyed(q.ids)
  BY DEF Alike
<1>2. q.ids \in SUBSET People /\ r.ids \in SUBSET People
  BY <1>1, QueryType
<1>3. Keyed(q.ids) \subseteq q.ids /\ IsFiniteSet(q.ids)
  BY <1>2, RetrievalAssumption, FS_Subset DEF Keyed
<1>4. Cardinality(Keyed(q.ids)) < KeyedIds
  <2>1. Cardinality(Keyed(q.ids)) <= Cardinality(q.ids)
    BY <1>3, FS_Subset
  <2>2. Cardinality(Keyed(q.ids)) \in Nat /\ Cardinality(q.ids) \in Nat
    BY <1>3, FS_Subset, FS_CardinalityType
  <2>3. QED
    BY <2>1, <2>2, RetrievalAssumption DEF KeyTells
<1>5. r.ids = q.ids
  BY <1>1, <1>2, <1>4, KeyHoldsScope
<1>6. q.kind \in {"cohort", "person", "skill"}
  BY QueryType
<1>7. QED
  BY <1>1, <1>5, <1>6 DEF Whom, KeyTells

(* A search scoped to fewer people than the key holds is answered about    *)
(* these, an attribute answer of the day about all of them, however        *)
(* ingests, other searches, failures and midnight interleave, and whoever  *)
(* stored the answer; any other search is answered so about the scope of   *)
(* one that shares its key.                                                *)
THEOREM AnswersAreScoped == Spec => AnswersFitScope
<1> DEFINE Fit(s) == IF KeyTells(asks[s]) THEN Answers(s, asks[s])
                                      ELSE \E q \in Alike(asks[s]) : Answers(s, q)
<1>1. ASSUME ScopeInv, Next, NEW s \in Searches, Delivers(s) PROVE Fit(s)
  <2>1. SUFFICES /\ asks[s] \in Queries
                 /\ \E q \in Alike(asks[s]) :
                       /\ InScope(q, answer'[s].seen)
                       /\ Exact(q, began[s], answer'[s].seen, Chunks)
    <3>1. ASSUME NEW q \in Alike(asks[s]), InScope(q, answer'[s].seen),
                 Exact(q, began[s], answer'[s].seen, Chunks)
          PROVE  Answers(s, q)
      <4>1. Dated(q) <=> Dated(asks[s])
        BY DEF Alike, Dated
      <4>2. QED
        BY <3>1, <4>1 DEF Answers, InScope, Exact, Chunks
    <3>2. ASSUME NEW q \in Alike(asks[s]), Answers(s, q), asks[s] \in Queries, KeyTells(asks[s])
          PROVE  Answers(s, asks[s])
      <4>1. Whom(q) = Whom(asks[s])
        BY <3>2, ToldApart
      <4>2. QED
        BY <3>2, <4>1 DEF Answers
    <3>3. PICK q \in Alike(asks[s]) : Answers(s, q)
      BY <2>1, <3>1
    <3>4. KeyTells(asks[s]) => Answers(s, asks[s])
      BY <2>1, <3>2, <3>3
    <3>5. QED
      BY <3>3, <3>4
  <2>2. DOMAIN search = Searches /\ DOMAIN answer = Searches
    BY <1>1 DEF ScopeInv, TypeOK
  <2>3. PICK x \in Searches : Search(x)
    BY <1>1 DEF Next, Tick, Ingest, Delete, Upsert, UpsertNothing, Abort, searching, Delivers
  <2>4. (\E e \in cache : Hit(x, e)) \/ Store(x)
    <3>1. ASSUME NEW p, p # "done", search' = [search EXCEPT ![x] = p] PROVE FALSE
      BY <1>1, <2>2, <3>1 DEF Delivers
    <3>2. QED
      BY <2>3, <3>1 DEF Search, Begin, MissEmpty, Miss, Resolve, ResolveNobody, Fetch,
                        Rank, Count, Fail, FailStored, Forget, Sees
  <2>5. x = s
    BY <1>1, <2>2, <2>4 DEF Hit, Store, Delivers
  <2>6. CASE \E e \in cache : Hit(x, e)
    <3>1. PICK e \in cache : Hit(s, e)
      BY <2>5, <2>6
    <3>2. /\ search[s] = "lookup" /\ e.key = Key(asks[s], began[s])
          /\ answer'[s] = e.answer
      BY <2>2, <3>1 DEF Hit, KeyOf
    <3>3. asks[s] \in Queries
      BY <1>1, <3>2 DEF ScopeInv, SearchFits, Begins
    <3>4. PICK q \in Queries, day \in Days :
             /\ e.key = Key(q, day)
             /\ InScope(q, e.answer.seen) /\ Exact(q, day, e.answer.seen, Chunks)
      BY <1>1 DEF ScopeInv, EntryFits
    <3>5. /\ q \in Alike(asks[s]) /\ (Dated(asks[s]) <=> Dated(q))
          /\ Dated(asks[s]) => began[s] = day
      <4>1. Key(asks[s], began[s]) = Key(q, day)
        BY <3>2, <3>4
      <4>2. QED
        BY <3>3, <4>1, KeysTell
    <3>6. QED
      BY <3>2, <3>3, <3>4, <3>5 DEF Exact
  <2>7. CASE Store(x)
    <3>1. search[s] = "storing" /\ answer' = answer
      BY <2>5, <2>7 DEF Store
    <3>2. asks[s] \in Queries /\ asks[s] \in Alike(asks[s])
      BY <1>1, <3>1 DEF ScopeInv, SearchFits, Begins, Alike
    <3>3. QED
      BY <1>1, <3>1, <3>2 DEF ScopeInv, SearchFits
  <2>8. QED
    BY <2>4, <2>6, <2>7
<1>2. ScopeInv /\ [Next]_vars => [\A s \in Searches : Delivers(s) => Fit(s)]_vars
  BY <1>1
<1>3. QED
  BY ScopeInit, ScopeStep, <1>2, PTL DEF Spec, AnswersFitScope

-----------------------------------------------------------------------------
(* The calendar *)

(* A month before December begins the days of the one before it later.     *)
LEMMA MonthsAddUp ==
    ASSUME NEW y \in Nat, NEW m \in 1..12
    PROVE  /\ DaysIn(y, m) \in 28..31
           /\ DaysBefore[m] \in Nat
           /\ m < 12 => DaysBefore[m + 1] = DaysBefore[m] + DaysIn(y, m)
                                            - (IF m = 2 /\ Leap(y) THEN 1 ELSE 0)
           /\ m = 12 => DaysBefore[m] = 334 /\ DaysIn(y, m) = 31
<1> USE DEF DaysBefore, DaysIn
<1>1. m \in {4, 6, 9, 11}
      \/ m \in {1, 3, 5, 7, 8, 10} \/ m = 2 \/ m = 12
  OBVIOUS
<1>2. CASE m \in {4, 6, 9, 11}
  BY <1>2
<1>3. CASE m \in {1, 3, 5, 7, 8, 10}
  BY <1>3
<1>4. CASE m = 2
  BY <1>4 DEF Leap
<1>5. CASE m = 12
  BY <1>5
<1>6. QED
  BY <1>1, <1>2, <1>3, <1>4, <1>5

LEMMA MonthsGrow ==
    ASSUME NEW m \in 1..12, NEW n \in 1..12, m < n
    PROVE  DaysBefore[m + 1] <= DaysBefore[n]
<1>1. m + 1 = 2 \/ m + 1 = 3 \/ m + 1 \in 4..6 \/ m + 1 \in 7..9 \/ m + 1 \in 10..12
  OBVIOUS
<1>2. QED
  BY <1>1 DEF DaysBefore

(* The days before a year. *)
DaysUpTo(y) ==
    365 * (y - 1) + (y - 1) \div 4 - (y - 1) \div 100 + (y - 1) \div 400

LEMMA YearsAddUp ==
    ASSUME NEW y \in Nat \ {0}
    PROVE  /\ DaysUpTo(y) \in Int
           /\ DaysUpTo(y + 1) = DaysUpTo(y) + 365 + (IF Leap(y) THEN 1 ELSE 0)
  BY DEF DaysUpTo, Leap

LEMMA YearsGrow ==
    ASSUME NEW y \in Nat \ {0}, NEW z \in Nat \ {0}, y <= z
    PROVE  DaysUpTo(y) <= DaysUpTo(z)
  BY DEF DaysUpTo

LEMMA OrdinalIs ==
    ASSUME NEW t, IsDate(t)
    PROVE  /\ Ordinal(t) = DaysUpTo(t.y) + DaysBefore[t.m]
                           + (IF t.m > 2 /\ Leap(t.y) THEN 1 ELSE 0) + t.d
           /\ Ordinal(t) \in Int
  BY MonthsAddUp DEF Ordinal, DaysUpTo, IsDate, Date

(* A day is one later than the day before. *)
LEMMA TomorrowIsNext ==
    ASSUME NEW t, IsDate(t)
    PROVE  /\ IsDate(Tomorrow(t))
           /\ Ordinal(Tomorrow(t)) = Ordinal(t) + 1
<1>1. /\ t.y \in Nat \ {0} /\ t.m \in 1..12 /\ t.d \in 1..31
      /\ t.d <= DaysIn(t.y, t.m)
  BY DEF IsDate, Date
<1>2. \A y \in Nat, m \in 1..12 : DaysIn(y, m) \in 28..31
  BY MonthsAddUp
<1>3. IsDate(Tomorrow(t))
  BY <1>1, <1>2 DEF IsDate, Date, Tomorrow, Day
<1>4. CASE t.d < DaysIn(t.y, t.m)
  <2>1. Tomorrow(t) = Day(t.y, t.m, t.d + 1)
    BY <1>4 DEF Tomorrow
  <2> DEFINE leap == IF t.m > 2 /\ Leap(t.y) THEN 1 ELSE 0
  <2>2. Ordinal(Tomorrow(t)) = DaysUpTo(t.y) + DaysBefore[t.m] + leap + (t.d + 1)
    BY <1>3, <2>1, OrdinalIs DEF Day
  <2>3. Ordinal(t) = DaysUpTo(t.y) + DaysBefore[t.m] + leap + t.d
    BY OrdinalIs
  <2>4. DaysUpTo(t.y) \in Int /\ DaysBefore[t.m] \in Nat /\ leap \in Int
    BY <1>1, MonthsAddUp, YearsAddUp
  <2> HIDE DEF leap
  <2>5. QED
    BY <1>1, <1>3, <2>2, <2>3, <2>4
<1>5. CASE t.d = DaysIn(t.y, t.m) /\ t.m < 12
  <2>1. Tomorrow(t) = Day(t.y, t.m + 1, 1)
    BY <1>5, <1>1 DEF Tomorrow
  <2>2. Ordinal(Tomorrow(t)) = DaysUpTo(t.y) + DaysBefore[t.m + 1]
                               + (IF t.m + 1 > 2 /\ Leap(t.y) THEN 1 ELSE 0) + 1
    BY <1>3, <2>1, OrdinalIs DEF Day
  <2>3. Ordinal(t) = DaysUpTo(t.y) + DaysBefore[t.m]
                     + (IF t.m > 2 /\ Leap(t.y) THEN 1 ELSE 0) + t.d
    BY OrdinalIs
  <2>4. DaysUpTo(t.y) \in Int /\ DaysBefore[t.m] \in Nat
    BY <1>1, MonthsAddUp, YearsAddUp
  <2>5. DaysBefore[t.m + 1] = DaysBefore[t.m] + t.d
                              - (IF t.m = 2 /\ Leap(t.y) THEN 1 ELSE 0)
    BY <1>1, <1>5, MonthsAddUp
  <2>6. QED
    BY <1>1, <1>3, <1>5, <2>2, <2>3, <2>4, <2>5
<1>6. CASE t.d = DaysIn(t.y, t.m) /\ t.m = 12
  <2>1. Tomorrow(t) = Day(t.y + 1, 1, 1)
    BY <1>6, <1>1 DEF Tomorrow
  <2>2. Ordinal(Tomorrow(t)) = DaysUpTo(t.y + 1) + 1
    <3>1. DaysBefore[1] = 0
      BY DEF DaysBefore
    <3>2. DaysUpTo(t.y + 1) \in Int
      BY <1>1, YearsAddUp
    <3>3. QED
      BY <1>1, <1>3, <2>1, <3>1, <3>2, OrdinalIs DEF Day
  <2>3. Ordinal(t) = DaysUpTo(t.y) + 334 + (IF Leap(t.y) THEN 1 ELSE 0) + 31
    BY <1>1, <1>6, OrdinalIs, MonthsAddUp
  <2>4. /\ DaysUpTo(t.y) \in Int
        /\ DaysUpTo(t.y + 1) = DaysUpTo(t.y) + 365 + (IF Leap(t.y) THEN 1 ELSE 0)
    BY <1>1, YearsAddUp
  <2>5. QED
    BY <1>3, <2>2, <2>3, <2>4
<1>7. QED
  BY <1>1, <1>2, <1>4, <1>5, <1>6

(* A year has at most 366 days, and its months follow each other. *)
LEMMA DayOfYear ==
    ASSUME NEW t, IsDate(t)
    PROVE  /\ Ordinal(t) > DaysUpTo(t.y)
           /\ Ordinal(t) <= DaysUpTo(t.y + 1)
<1>1. /\ t.y \in Nat \ {0} /\ t.m \in 1..12 /\ t.d \in 1..31
      /\ t.d <= DaysIn(t.y, t.m)
  BY DEF IsDate, Date
<1>2. DaysUpTo(t.y) \in Int /\ DaysBefore[t.m] \in Nat
  BY <1>1, MonthsAddUp, YearsAddUp
<1>3. Ordinal(t) > DaysUpTo(t.y)
  BY <1>1, <1>2, OrdinalIs
<1>4. DaysBefore[t.m] + t.d <= (IF t.m > 2 \/ ~Leap(t.y) THEN 365 ELSE 366)
  BY <1>1 DEF DaysBefore, DaysIn
<1>5. t.m <= 2 => DaysBefore[t.m] <= 31
  BY <1>1 DEF DaysBefore
<1>6. QED
  <2>1. DaysUpTo(t.y + 1) = DaysUpTo(t.y) + 365 + (IF Leap(t.y) THEN 1 ELSE 0)
    BY <1>1, YearsAddUp
  <2>2. Ordinal(t) = DaysUpTo(t.y) + DaysBefore[t.m]
                     + (IF t.m > 2 /\ Leap(t.y) THEN 1 ELSE 0) + t.d
    BY OrdinalIs
  <2>3. QED
    BY <1>1, <1>2, <1>3, <1>4, <1>5, <2>1, <2>2

(* Earlier is before. *)
LEMMA OrdinalGrows ==
    ASSUME NEW s, NEW t, IsDate(s), IsDate(t), Earlier(s, t)
    PROVE  Ordinal(s) < Ordinal(t)
<1>1. /\ s.y \in Nat \ {0} /\ s.m \in 1..12 /\ s.d \in 1..31
      /\ s.d <= DaysIn(s.y, s.m)
      /\ t.y \in Nat \ {0} /\ t.m \in 1..12 /\ t.d \in 1..31
      /\ t.d <= DaysIn(t.y, t.m)
  BY DEF IsDate, Date
<1>2. Ordinal(s) \in Int /\ Ordinal(t) \in Int
  BY OrdinalIs
<1>3. CASE s.y < t.y
  <2>1. DaysUpTo(s.y + 1) <= DaysUpTo(t.y)
    BY <1>1, <1>3, YearsGrow
  <2>2. DaysUpTo(s.y + 1) \in Int /\ DaysUpTo(t.y) \in Int
    BY <1>1, YearsAddUp
  <2>3. QED
    BY <1>2, <2>1, <2>2, DayOfYear
<1>4. CASE s.y = t.y /\ s.m = t.m /\ s.d < t.d
  <2>1. DaysUpTo(s.y) \in Int /\ DaysBefore[s.m] \in Nat
    BY <1>1, MonthsAddUp, YearsAddUp
  <2>2. QED
    BY <1>1, <1>4, <2>1, OrdinalIs
<1>5. CASE s.y = t.y /\ s.m < t.m
  <2>1. DaysUpTo(s.y) \in Int /\ DaysBefore[s.m] \in Nat /\ DaysBefore[t.m] \in Nat
    BY <1>1, MonthsAddUp, YearsAddUp
  <2>2. DaysBefore[s.m] + s.d - (IF s.m = 2 /\ Leap(s.y) THEN 1 ELSE 0) <= DaysBefore[t.m]
    <3>1. s.m < 12 /\ DaysBefore[s.m + 1] <= DaysBefore[t.m]
      BY <1>1, <1>5, MonthsGrow
    <3>2. DaysBefore[s.m + 1] = DaysBefore[s.m] + DaysIn(s.y, s.m)
                               - (IF s.m = 2 /\ Leap(s.y) THEN 1 ELSE 0)
      BY <1>1, <3>1, MonthsAddUp
    <3>3. DaysIn(s.y, s.m) \in 28..31
      BY <1>1, MonthsAddUp
    <3>4. QED
      BY <1>1, <2>1, <3>1, <3>2, <3>3
  <2>3. QED
    BY <1>1, <1>5, <2>1, <2>2, OrdinalIs
<1>6. QED
  BY <1>3, <1>4, <1>5 DEF Earlier, EarlierInYear

LEMMA OrdinalTells ==
    ASSUME NEW s, NEW t, IsDate(s), IsDate(t), Ordinal(s) = Ordinal(t)
    PROVE  s = t
<1>1. ~Earlier(s, t) /\ ~Earlier(t, s)
  BY OrdinalGrows, OrdinalIs
<1>2. s \in Date /\ t \in Date
  BY DEF IsDate
<1>3. s.y = t.y /\ s.m = t.m /\ s.d = t.d
  BY <1>1, <1>2 DEF Earlier, EarlierInYear, Date
<1>4. QED
  BY <1>2, <1>3 DEF Date

(* next_occurrence *)

LEMMA AnniversaryIsDate ==
    ASSUME NEW born, IsDate(born), NEW y \in Nat \ {0}
    PROVE  /\ IsDate(Anniversary(born, y))
           /\ Anniversary(born, y).y = y
           /\ ~LeapBorn(born) => Anniversary(born, y) = Day(y, born.m, born.d)
<1>1. /\ born.y \in Nat \ {0} /\ born.m \in 1..12 /\ born.d \in 1..31
      /\ born.d <= DaysIn(born.y, born.m)
  BY DEF IsDate, Date
<1>2. ~LeapBorn(born) => born.d <= DaysIn(y, born.m)
  BY <1>1 DEF LeapBorn, DaysIn
<1>3. IsDate(Day(y, 3, 1))
  BY MonthsAddUp DEF IsDate, Date, Day
<1>4. born.d <= DaysIn(y, born.m) => IsDate(Day(y, born.m, born.d))
  BY <1>1 DEF IsDate, Date, Day
<1>5. QED
  BY <1>2, <1>3, <1>4 DEF Anniversary, Day

LEMMA OccurrenceIsDate ==
    ASSUME NEW born, NEW t, IsDate(born), IsDate(t)
    PROVE  IsDate(NextOccurrence(born, t))
<1>1. t.y \in Nat \ {0}
  BY DEF IsDate, Date
<1>2. QED
  BY <1>1, AnniversaryIsDate DEF NextOccurrence

(* Until the anniversary is there, it is the same one tomorrow. *)
LEMMA OccurrenceStays ==
    ASSUME NEW born, NEW t, IsDate(born), IsDate(t), NextOccurrence(born, t) # t
    PROVE  NextOccurrence(born, Tomorrow(t)) = NextOccurrence(born, t)
<1> DEFINE A(y) == Anniversary(born, y)
           u == Tomorrow(t)
<1>1. /\ t \in Date /\ t.d <= DaysIn(t.y, t.m)
      /\ t.y \in Nat \ {0} /\ t.m \in 1..12 /\ t.d \in 1..31
  BY DEF IsDate, Date
<1>2. \A y \in Nat \ {0} : IsDate(A(y)) /\ A(y).y = y
  BY AnniversaryIsDate
<1>3. \A y \in Nat \ {0} : /\ A(y) \in Date /\ A(y).d <= DaysIn(y, A(y).m)
                          /\ A(y).m \in 1..12 /\ A(y).d \in 1..31
  BY <1>2 DEF IsDate, Date
<1> HIDE DEF A
<1>4. \A y \in Nat : \A m \in 1..12 : DaysIn(y, m) \in 28..31 /\ (m = 12 => DaysIn(y, m) = 31)
  BY MonthsAddUp
<1>5. \A s \in Date : (s.y = t.y /\ s.m = t.m /\ s.d = t.d) => s = t
  BY <1>1 DEF Date
<1>6. /\ NextOccurrence(born, t) = IF Earlier(A(t.y), t) THEN A(t.y + 1) ELSE A(t.y)
      /\ NextOccurrence(born, u) = IF Earlier(A(u.y), u) THEN A(u.y + 1) ELSE A(u.y)
  BY DEF NextOccurrence, A
<1>7. CASE t.m = 12 /\ t.d = 31
  <2>1. u = Day(t.y + 1, 1, 1)
    BY <1>1, <1>4, <1>7 DEF Tomorrow
  <2>2. u.y = t.y + 1 /\ u.m = 1 /\ u.d = 1 /\ t.y + 1 \in Nat \ {0}
    BY <1>1, <2>1 DEF Day
  <2>3. ~Earlier(A(u.y), u)
    BY <1>2, <1>3, <2>2 DEF Earlier, EarlierInYear
  <2>4. A(t.y) # t => Earlier(A(t.y), t)
    BY <1>1, <1>2, <1>3, <1>5, <1>7 DEF Earlier, EarlierInYear
  <2>5. QED
    BY <1>6, <2>2, <2>3, <2>4
<1>8. CASE t.m # 12 \/ t.d # 31
  <2>1. u.y = t.y
    BY <1>1, <1>4, <1>8 DEF Tomorrow, Day
  <2>2. Earlier(A(t.y), u) <=> Earlier(A(t.y), t) \/ A(t.y) = t
    <3>1. CASE t.d < DaysIn(t.y, t.m)
      <4>1. u = Day(t.y, t.m, t.d + 1)
        BY <3>1 DEF Tomorrow
      <4>2. u.y = t.y /\ u.m = t.m /\ u.d = t.d + 1
        BY <4>1 DEF Day
      <4>3. QED
        BY <1>1, <1>2, <1>3, <1>5, <4>2 DEF Earlier, EarlierInYear
    <3>2. CASE t.d = DaysIn(t.y, t.m) /\ t.m < 12
      <4>1. u = Day(t.y, t.m + 1, 1)
        BY <1>1, <3>2 DEF Tomorrow
      <4>2. u.y = t.y /\ u.m = t.m + 1 /\ u.d = 1
        BY <4>1 DEF Day
      <4>3. A(t.y).m = t.m => A(t.y).d <= t.d
        BY <1>1, <1>3, <3>2
      <4>4. QED
        BY <1>1, <1>2, <1>3, <1>5, <4>2, <4>3 DEF Earlier, EarlierInYear
    <3>3. QED
      BY <1>1, <1>4, <1>8, <3>1, <3>2
  <2>3. QED
    BY <1>6, <2>1, <2>2
<1>9. QED
  BY <1>7, <1>8

(* The anniversary that is said has the age that is said. *)
LEMMA TurningOn ==
    ASSUME NEW born, NEW t, IsDate(born), IsDate(t), ~LeapBorn(born)
    PROVE  LET on == NextOccurrence(born, t)
           IN  /\ on = Day(on.y, born.m, born.d)
               /\ Turning(born, t) = on.y - born.y
<1>1. /\ t.y \in Nat \ {0} /\ t.m \in 1..12 /\ t.d \in 1..31
      /\ born.y \in Nat \ {0} /\ born.m \in 1..12 /\ born.d \in 1..31
  BY DEF IsDate, Date
<1>2. /\ Anniversary(born, t.y) = Day(t.y, born.m, born.d)
      /\ Anniversary(born, t.y + 1) = Day(t.y + 1, born.m, born.d)
  BY <1>1, AnniversaryIsDate
<1>3. NextOccurrence(born, t) = IF EarlierInYear(born, t)
                                THEN Day(t.y + 1, born.m, born.d)
                                ELSE Day(t.y, born.m, born.d)
  BY <1>1, <1>2 DEF NextOccurrence, Earlier, EarlierInYear, Day
<1>4. Turning(born, t) = IF EarlierInYear(born, t) THEN t.y + 1 - born.y ELSE t.y - born.y
  BY <1>1 DEF Turning, Age, IsToday, EarlierInYear
<1>5. QED
  BY <1>1, <1>3, <1>4 DEF Day

-----------------------------------------------------------------------------
(* A birthday *)

(* What was planned. *)
RequestInv ==
    request # None =>
        /\ request.ids \subseteq Employees
        /\ request.mode \in Modes
        /\ request.mode = "cohort" =>
              /\ request.about \in Prose \cup {"location"}
              /\ request.about = "birth_date" =>
                    request.scope \in {"closest", "month", "today", "upcoming"}
              /\ request.about = "location" =>
                    /\ request.ids = {}
                    /\ request.value.city # None \/ request.value.country # None

WorldInv ==
    /\ IsDate(today) /\ past \in Nat
    /\ \A p \in Employees : resume[p] \in Resumes[p]
    /\ reply.said \in Nat /\ reply.said <= past
    /\ RequestInv

(* The anniversary that was said stays the next one, as many days off as   *)
(* were said less those that have passed, and as old as was said.          *)
BirthdaySaid ==
    reply.kind = "birthday" =>
        /\ IsDate(reply.born) /\ IsDate(reply.on)
        /\ reply.until \in Int
        /\ past - reply.said <= reply.until =>
              /\ NextOccurrence(reply.born, today) = reply.on
              /\ Ordinal(reply.on) - Ordinal(today) = reply.until - (past - reply.said)
        /\ ~LeapBorn(reply.born) =>
              /\ reply.on = Day(reply.on.y, reply.born.m, reply.born.d)
              /\ reply.turning = reply.on.y - reply.born.y

BirthdayInv == WorldInv /\ BirthdaySaid

-----------------------------------------------------------------------------
(* Cohorts and facets *)

(* What a cohort said, it said of one reading of the resumes. *)
CohortSaid ==
    Cohort =>
        LET r == reply.to
        IN  /\ r.ids \subseteq Employees
            /\ r.about \in Prose \cup {"location"}
            /\ r.about = "location" =>
                  /\ r.ids = {}
                  /\ r.value.city # None \/ r.value.country # None
            /\ reply.named \subseteq reply.published
            /\ \E R \in Readings(Read, Limit) : \E f \in FactsFrom(R, r.about) :
                  /\ reply.facts = f
                  /\ reply.missing = Missing(r, R, f)
                  /\ r.about # "birth_date" => reply.published = Select(r, f)
                  /\ reply.said = past /\ r.about = "birth_date" =>
                        Select(r, f) \subseteq reply.published

FacetSaid ==
    facets # None =>
        \E R \in Readings(Found("location", Employees), Limit) :
        \E f \in FactsFrom(R, "location") :
            facets.values = {f[p][facets.by] : p \in DOMAIN f} \ {None}

CohortInv == WorldInv /\ CohortSaid /\ FacetSaid
FactInv == BirthdayInv /\ CohortInv

Fields == DOMAIN Silence

LEMMA SilenceIs ==
    /\ Fields = {"kind", "to", "said", "facts", "named", "published", "missing",
                 "born", "on", "turning", "until", "list", "of"}
    /\ Silence.kind = "none" /\ Silence.said = 0
  BY DEF Silence, Fields

(* What is changed in a reply, and what is not. *)
LEMMA PersonReplyIs ==
    ASSUME NEW a, NEW fact
    PROVE  LET x == PersonReply(a, fact)
           IN  /\ DOMAIN x = Fields
               /\ x.kind # "cohort"
               /\ x.kind = "birthday" =>
                     /\ a = "birth_date" /\ x.born = fact
                     /\ x.on = NextOccurrence(fact, today)
                     /\ x.turning = Turning(fact, today)
                     /\ x.until = DaysUntil(fact, today)
<1> DEFINE x == PersonReply(a, fact)
<1> USE SilenceIs
<1>1. CASE a = "birth_date"
  <2>1. x = BirthdayReply(fact)
    BY <1>1 DEF PersonReply, Entries
  <2>2. QED
    BY <1>1, <2>1 DEF BirthdayReply, Fields
<1>2. CASE a = "skills"
  <2>1. x = SkillReply(fact)
    BY <1>2 DEF PersonReply, Entries
  <2>2. QED
    BY <2>1 DEF SkillReply, Fields
<1>3. CASE a \in Entries
  <2>1. x = EntriesReply(a, fact)
    BY <1>3 DEF PersonReply, Entries
  <2>2. QED
    BY <2>1 DEF EntriesReply, Fields
<1>4. CASE a # "birth_date" /\ a # "skills" /\ a \notin Entries
  <2>1. x = [Silence EXCEPT !.kind = "fact"]
    BY <1>4 DEF PersonReply
  <2>2. QED
    BY <2>1 DEF Fields
<1>5. QED
  BY <1>1, <1>2, <1>3, <1>4

LEMMA SayIs ==
    ASSUME NEW who, NEW f
    PROVE  LET x == Say(who, f)
           IN  /\ DOMAIN x = Fields
               /\ x.kind # "cohort"
               /\ x.kind = "birthday" =>
                     /\ request.about = "birth_date"
                     /\ \E p \in who :
                           /\ x.born = f[p]
                           /\ x.on = NextOccurrence(f[p], today)
                           /\ x.turning = Turning(f[p], today)
                           /\ x.until = DaysUntil(f[p], today)
<1> DEFINE x == Say(who, f)
           p == CHOOSE p \in who : TRUE
<1> USE SilenceIs
<1>1. CASE who = {}
  <2>1. ~(Cardinality(who) > 1)
    BY <1>1, FS_EmptySet
  <2>2. x = [Silence EXCEPT !.kind = "nothing"]
    BY <1>1, <2>1 DEF Say
  <2>3. QED
    BY <2>2 DEF Fields
<1>2. CASE who # {} /\ Cardinality(who) > 1
  <2>1. x = [Silence EXCEPT !.kind = "which", !.named = FirstOf(Named, who, LAMBDA o : 0)]
    BY <1>2 DEF Say
  <2>2. QED
    BY <2>1 DEF Fields
<1>3. CASE who # {} /\ ~(Cardinality(who) > 1)
  <2>1. p \in who
    BY <1>3
  <2>2. x = [PersonReply(request.about, f[p]) EXCEPT !.named = who]
    BY <1>3 DEF Say
  <2> HIDE DEF p
  <2>3. QED
    BY <2>1, <2>2, PersonReplyIs
<1>4. QED
  BY <1>1, <1>2, <1>3

(* A fact is what a chunk of the person tells. *)
ToldIn(who, a, R, f) ==
    \A p \in DOMAIN f : \E c \in resume[p] :
       p \in who /\ <<p, c>> \in R /\ Tells(c, a) /\ f[p] = Told(c, a)

LEMMA FactIsTold ==
    ASSUME NEW who, NEW a, NEW R, R \subseteq Found(a, who), NEW f \in FactsFrom(R, a)
    PROVE  ToldIn(who, a, R, f)
<1> SUFFICES ASSUME NEW p \in DOMAIN f
             PROVE  \E c \in resume[p] :
                       p \in who /\ <<p, c>> \in R /\ Tells(c, a) /\ f[p] = Told(c, a)
  BY DEF ToldIn
<1>1. PICK x \in R : Tells(x[2], a) /\ x[1] = p /\ f[p] = Told(x[2], a)
  BY DEF FactsFrom
<1>2. PICK o \in who : \E c \in resume[o] : x = <<o, c>>
  BY DEF Found
<1>3. QED
  BY <1>1, <1>2

(* A birth date is a date. *)
LEMMA BornIsDate ==
    ASSUME NEW a, a = "birth_date", NEW who \in SUBSET Employees,
           NEW R, R = Found(a, who), NEW f \in FactsFrom(R, a), NEW p \in DOMAIN f,
           \A o \in Employees : resume[o] \in Resumes[o]
    PROVE  IsDate(f[p])
<1>1. PICK c \in resume[p] : p \in who /\ <<p, c>> \in R /\ Tells(c, a) /\ f[p] = Told(c, a)
  <2>1. ToldIn(who, a, R, f)
    BY FactIsTold
  <2>2. QED
    BY <2>1 DEF ToldIn
<1>2. f[p] = c.tells["birth_date"] /\ "birth_date" \in DOMAIN c.tells
  BY <1>1 DEF Tells, Told, Entries
<1>3. QED
  BY <1>1, <1>2, FactsAssumption

LEMMA WhoseAreEmployees ==
    ASSUME NEW r, r.ids \subseteq Employees
    PROVE  Whose(r) \subseteq Employees
  BY DEF Whose, Exactly, Closely, WithResume

(* The reply of TellPerson. *)
LEMMA TellPersonSays ==
    ASSUME WorldInv, TellPerson
    PROVE  /\ reply'.said = past /\ reply'.kind # "cohort"
           /\ reply'.kind = "birthday" =>
                 /\ IsDate(reply'.born)
                 /\ reply'.on = NextOccurrence(reply'.born, today)
                 /\ reply'.turning = Turning(reply'.born, today)
                 /\ reply'.until = DaysUntil(reply'.born, today)
<1> DEFINE read == Found(request.about, Whose(request))
<1>1. PICK f \in FactsFrom(read, request.about) :
         Answered([Say(DOMAIN f, f) EXCEPT !.to = request, !.facts = f,
                                           !.published = {x[1] : x \in read}])
  BY DEF TellPerson
<1> DEFINE x == Say(DOMAIN f, f)
<1> HIDE DEF x, read
<1>2. DOMAIN x = Fields /\ x.kind # "cohort"
  BY SayIs DEF x
<1>3. reply' = [[x EXCEPT !.to = request, !.facts = f, !.published = {y[1] : y \in read}]
                   EXCEPT !.said = past]
  BY <1>1 DEF Answered, x
<1>4. /\ reply'.said = past /\ reply'.kind = x.kind
      /\ reply'.born = x.born /\ reply'.on = x.on
      /\ reply'.turning = x.turning /\ reply'.until = x.until
  BY <1>2, <1>3, SilenceIs
<1>5. ASSUME x.kind = "birthday"
      PROVE  /\ IsDate(x.born)
             /\ x.on = NextOccurrence(x.born, today)
             /\ x.turning = Turning(x.born, today)
             /\ x.until = DaysUntil(x.born, today)
  <2>1. PICK p \in DOMAIN f : /\ x.born = f[p]
                              /\ x.on = NextOccurrence(f[p], today)
                              /\ x.turning = Turning(f[p], today)
                              /\ x.until = DaysUntil(f[p], today)
    BY <1>5, SayIs DEF x
  <2>2. request.about = "birth_date"
    BY <1>5, SayIs DEF x
  <2>3. Whose(request) \subseteq Employees
    BY WhoseAreEmployees DEF WorldInv, RequestInv, TellPerson
  <2>4. IsDate(f[p])
    BY <2>2, <2>3, BornIsDate DEF WorldInv, read
  <2>5. QED
    BY <2>1, <2>4
<1>6. QED
  BY <1>2, <1>4, <1>5

LEMMA ModeIsOne ==
    ASSUME NEW q \in Asks
    PROVE  Request(q).mode \in Modes
  BY DEF Request, Mode, BirthdayMode, ValueMode, Modes

(* What may be planned. *)
LEMMA PlanIsMade ==
    ASSUME NEW q \in Asks, Clear(q), request' = Request(q)
    PROVE  RequestInv'
<1> DEFINE r == Request(q)
<1>1. /\ q.about \in Attributes /\ q.ids \subseteq Employees
      /\ q.about = "location" /\ q.value # None =>
            q.value.city # None \/ q.value.country # None
  BY FactsAssumption
<1>2. /\ r.about = q.about /\ r.mode = Mode(q) /\ r.value = q.value
      /\ r.ids = IF q.about = "location" /\ Mode(q) = "cohort" THEN {} ELSE q.ids
      /\ r.scope = IF q.about = "birth_date" THEN BirthdayScope(q) ELSE ""
  BY DEF Request
<1>3. r.ids \subseteq Employees /\ r.mode \in Modes
  BY <1>1, <1>2, ModeIsOne
<1>4. ASSUME r.mode = "cohort"
      PROVE  /\ q.about \in Prose \cup {"location"}
             /\ q.about = "birth_date" =>
                   BirthdayScope(q) \in {"closest", "month", "today", "upcoming"}
             /\ q.about = "birth_date" \/ q.value # None
  <2>1. q.about \in Prose \cup {"location"}
    BY <1>1, <1>2, <1>4 DEF Mode, BirthdayMode, Attributes, Entries, Prose
  <2>2. q.about = "birth_date" => BirthdayScope(q) # "person"
    BY <1>2, <1>4 DEF Mode, BirthdayMode
  <2>3. BirthdayScope(q) \in {"closest", "person", "month", "today", "upcoming"}
    BY DEF BirthdayScope
  <2>4. q.about = "birth_date" \/ q.value # None
    BY <1>2, <1>4 DEF Clear
  <2>5. QED
    BY <2>1, <2>2, <2>3, <2>4
<1> HIDE DEF r
<1>5. r.mode = "cohort" =>
         /\ r.about \in Prose \cup {"location"}
         /\ r.about = "birth_date" =>
               r.scope \in {"closest", "month", "today", "upcoming"}
         /\ r.about = "location" =>
               /\ r.ids = {}
               /\ r.value.city # None \/ r.value.country # None
  BY <1>1, <1>2, <1>4
<1>6. request' = r
  BY DEF r
<1>7. QED
  BY <1>3, <1>5, <1>6 DEF RequestInv

LEMMA WorldInit == FactsInit => WorldInv
  BY FactsAssumption, SilenceIs DEF FactsInit, WorldInv, RequestInv

LEMMA AnsweredWorld ==
    ASSUME WorldInv, NEW x, Answered(x), DOMAIN x = Fields
    PROVE  WorldInv' /\ reply'.said = past /\ past' = past /\ today' = today
  BY SilenceIs DEF WorldInv, RequestInv, Answered

LEMMA WorldStep == WorldInv /\ [FactsNext]_factsVars => WorldInv'
<1> SUFFICES ASSUME WorldInv, [FactsNext]_factsVars
             PROVE  WorldInv'
  OBVIOUS
<1> USE SilenceIs
<1>1. ASSUME NEW q \in Asks, Plan(q)
      PROVE  WorldInv'
  BY <1>1, PlanIsMade DEF Plan, WorldInv
<1>2. ASSUME NEW q \in Asks, AskBack(q)
      PROVE  WorldInv'
  <2>1. reply'.said = 0
    BY <1>2 DEF AskBack, Silence
  <2>2. QED
    BY <1>2, <2>1 DEF AskBack, WorldInv, RequestInv
<1>3. CASE DoubtPerson
  <2>1. DOMAIN [Silence EXCEPT !.kind = "clarify"] = Fields
    BY DEF Fields
  <2>2. QED
    BY <1>3, <2>1, AnsweredWorld DEF DoubtPerson
<1>4. CASE TellPerson
  <2>1. PICK f : Answered([Say(DOMAIN f, f) EXCEPT !.to = request, !.facts = f,
                             !.published = {x[1] : x \in Found(request.about, Whose(request))}])
    BY <1>4 DEF TellPerson
  <2>2. DOMAIN [Say(DOMAIN f, f) EXCEPT !.to = request, !.facts = f,
                  !.published = {x[1] : x \in Found(request.about, Whose(request))}] = Fields
    BY SayIs
  <2>3. QED
    BY <2>1, <2>2, AnsweredWorld
<1>5. CASE TellCohort
  <2>1. PICK R, f : Answered([Silence EXCEPT !.kind = "cohort", !.to = request, !.facts = f,
                                !.named = Mentioned(request, f),
                                !.published = Publishes(request, R, f),
                                !.missing = Missing(request, R, f)])
    BY <1>5 DEF TellCohort
  <2>2. DOMAIN [Silence EXCEPT !.kind = "cohort", !.to = request, !.facts = f,
                                !.named = Mentioned(request, f),
                                !.published = Publishes(request, R, f),
                                !.missing = Missing(request, R, f)] = Fields
    BY DEF Fields
  <2>3. QED
    BY <2>1, <2>2, AnsweredWorld
<1>6. CASE TellFacet
  <2>1. PICK f : Answered([Silence EXCEPT !.kind = "facet", !.to = request, !.facts = f])
    BY <1>6 DEF TellFacet
  <2>2. DOMAIN [Silence EXCEPT !.kind = "facet", !.to = request, !.facts = f] = Fields
    BY DEF Fields
  <2>3. QED
    BY <2>1, <2>2, AnsweredWorld
<1>7. CASE DayPasses
  BY <1>7, TomorrowIsNext DEF DayPasses, WorldInv, RequestInv
<1>8. CASE UNCHANGED factsVars
  BY <1>8 DEF factsVars, WorldInv, RequestInv
<1>9. QED
  BY <1>1, <1>2, <1>3, <1>4, <1>5, <1>6, <1>7, <1>8 DEF FactsNext

(* The day after a birthday was said is the same or a day nearer. *)
LEMMA SaidTomorrow ==
    ASSUME BirthdayInv, DayPasses
    PROVE  BirthdaySaid'
<1> SUFFICES ASSUME reply.kind = "birthday"
             PROVE  BirthdaySaid'
  BY DEF DayPasses, BirthdaySaid
<1>1. /\ IsDate(today) /\ past \in Nat /\ reply.said \in Nat
      /\ IsDate(reply.born) /\ IsDate(reply.on) /\ reply.until \in Int
      /\ today' = Tomorrow(today) /\ past' = past + 1 /\ reply' = reply
  BY DEF BirthdayInv, WorldInv, BirthdaySaid, DayPasses
<1>2. ASSUME past' - reply.said <= reply.until
      PROVE  /\ NextOccurrence(reply.born, today') = reply.on
             /\ Ordinal(reply.on) - Ordinal(today') = reply.until - (past' - reply.said)
  <2>1. /\ NextOccurrence(reply.born, today) = reply.on
        /\ Ordinal(reply.on) - Ordinal(today) = reply.until - (past - reply.said)
    BY <1>1, <1>2 DEF BirthdayInv, BirthdaySaid
  <2>2. Ordinal(reply.on) \in Int /\ Ordinal(today) \in Int
    BY <1>1, OrdinalIs
  <2>3. Ordinal(reply.on) # Ordinal(today)
    BY <1>1, <1>2, <2>1, <2>2
  <2>4. NextOccurrence(reply.born, today') = NextOccurrence(reply.born, today)
    BY <1>1, <2>1, <2>3, OccurrenceStays
  <2>5. Ordinal(today') = Ordinal(today) + 1
    BY <1>1, TomorrowIsNext
  <2>6. QED
    BY <1>1, <2>1, <2>2, <2>4, <2>5
<1>3. QED
  BY <1>1, <1>2 DEF BirthdayInv, BirthdaySaid

LEMMA BirthdayInit == FactsInit => BirthdayInv
  BY WorldInit, SilenceIs DEF FactsInit, BirthdayInv, BirthdaySaid

LEMMA BirthdayStep == BirthdayInv /\ [FactsNext]_factsVars => BirthdayInv'
<1> SUFFICES ASSUME BirthdayInv, [FactsNext]_factsVars
             PROVE  BirthdaySaid'
  BY WorldStep DEF BirthdayInv
<1> USE SilenceIs
<1>1. ASSUME NEW q \in Asks, Plan(q)
      PROVE  BirthdaySaid'
  BY <1>1 DEF Plan, BirthdayInv, BirthdaySaid
<1>2. ASSUME NEW q \in Asks, AskBack(q)
      PROVE  BirthdaySaid'
  BY <1>2 DEF AskBack, BirthdaySaid, Fields
<1>3. CASE DoubtPerson
  BY <1>3 DEF DoubtPerson, Answered, BirthdaySaid, Fields
<1>4. CASE TellPerson
  <2>1. SUFFICES ASSUME reply'.kind = "birthday"
                 PROVE  BirthdaySaid'
    BY DEF BirthdaySaid
  <2>2. /\ reply'.said = past /\ IsDate(reply'.born)
        /\ reply'.on = NextOccurrence(reply'.born, today)
        /\ reply'.turning = Turning(reply'.born, today)
        /\ reply'.until = DaysUntil(reply'.born, today)
    BY <1>4, <2>1, TellPersonSays DEF BirthdayInv
  <2>3. IsDate(today) /\ past \in Nat /\ today' = today /\ past' = past
    BY <1>4 DEF BirthdayInv, WorldInv, TellPerson, Answered
  <2>4. IsDate(reply'.on) /\ Ordinal(reply'.on) \in Int /\ Ordinal(today) \in Int
    BY <2>2, <2>3, OccurrenceIsDate, OrdinalIs
  <2>5. reply'.until = Ordinal(reply'.on) - Ordinal(today) /\ reply'.until \in Int
    BY <2>2, <2>4 DEF DaysUntil
  <2>6. ~LeapBorn(reply'.born) =>
           /\ reply'.on = Day(reply'.on.y, reply'.born.m, reply'.born.d)
           /\ reply'.turning = reply'.on.y - reply'.born.y
    BY <2>2, <2>3, TurningOn
  <2>7. QED
    BY <2>2, <2>3, <2>4, <2>5, <2>6 DEF BirthdaySaid
<1>5. CASE TellCohort
  BY <1>5 DEF TellCohort, Answered, BirthdaySaid, Fields
<1>6. CASE TellFacet
  BY <1>6 DEF TellFacet, Answered, BirthdaySaid, Fields
<1>7. CASE DayPasses
  BY <1>7, SaidTomorrow
<1>8. CASE UNCHANGED factsVars
  BY <1>8 DEF factsVars, BirthdayInv, BirthdaySaid
<1>9. QED
  BY <1>1, <1>2, <1>3, <1>4, <1>5, <1>6, <1>7, <1>8 DEF FactsNext

(* "N has a birthday in so many days" stays true, a day less every day,    *)
(* until the day is there: over every end of a year and of February, leap  *)
(* years of centuries included, and for whoever was born on 29 February.   *)
THEOREM CountdownsHold == FactsSpec => []CountdownHolds
<1>1. BirthdayInv => CountdownHolds
  <2> SUFFICES ASSUME BirthdayInv, reply.kind = "birthday", past - reply.said <= reply.until
               PROVE  /\ DaysUntil(reply.born, today) = reply.until - (past - reply.said)
                      /\ past - reply.said = reply.until => reply.on = today
    BY DEF CountdownHolds
  <2>1. /\ IsDate(today) /\ past \in Nat /\ reply.said \in Nat
        /\ IsDate(reply.on) /\ reply.until \in Int
        /\ NextOccurrence(reply.born, today) = reply.on
        /\ Ordinal(reply.on) - Ordinal(today) = reply.until - (past - reply.said)
    BY DEF BirthdayInv, WorldInv, BirthdaySaid
  <2>2. Ordinal(reply.on) \in Int /\ Ordinal(today) \in Int
    BY <2>1, OrdinalIs
  <2>3. ASSUME past - reply.said = reply.until PROVE reply.on = today
    <3> DEFINE u == reply.until
               d == past - reply.said
               a == Ordinal(reply.on)
               b == Ordinal(today)
    <3>0. u \in Int /\ u = d /\ a \in Int /\ b \in Int /\ a - b = u - d
      BY <2>1, <2>2, <2>3
    <3> HIDE DEF u, d, a, b
    <3>1. a = b
      BY <3>0
    <3>2. QED
      BY <2>1, <3>1, OrdinalTells DEF a, b
  <2>4. QED
    BY <2>1, <2>3 DEF DaysUntil
<1>2. QED
  BY <1>1, BirthdayInit, BirthdayStep, PTL DEF FactsSpec

(* On the day that was said, a person not born on 29 February is as old as *)
(* was said.                                                               *)
THEOREM AgesHold == FactsSpec => []AgesCome
<1>1. BirthdayInv => AgesCome
  <2> SUFFICES ASSUME BirthdayInv, reply.kind = "birthday", reply.on = today,
                      ~LeapBorn(reply.born)
               PROVE  Age(reply.born, today) = reply.turning
    BY DEF AgesCome
  <2>1. /\ IsDate(reply.born) /\ IsDate(today)
        /\ today = Day(today.y, reply.born.m, reply.born.d)
        /\ reply.turning = today.y - reply.born.y
    BY DEF BirthdayInv, WorldInv, BirthdaySaid
  <2>2. today.m = reply.born.m /\ today.d = reply.born.d
    BY <2>1 DEF Day
  <2>3. /\ today.y \in Nat /\ today.m \in 1..12 /\ today.d \in 1..31
        /\ reply.born.y \in Nat
    BY <2>1 DEF IsDate, Date
  <2>4. QED
    BY <2>1, <2>2, <2>3 DEF Age, EarlierInYear
<1>2. QED
  BY <1>1, BirthdayInit, BirthdayStep, PTL DEF FactsSpec

-----------------------------------------------------------------------------
(* The proofs about cohorts *)

LEMMA ReadingIs ==
    ASSUME NEW all, NEW R \in Readings(all, Limit)
    PROVE  /\ R \subseteq all
           /\ Cardinality(all) <= Limit => R = all
  BY DEF Readings

(* What makes a fact one of a cohort, but for whoever comes first. *)
Matches(r, v) ==
    /\ r.about = "birth_date" /\ r.scope = "upcoming" => DaysUntil(v, today) <= 30
    /\ r.about = "birth_date" /\ r.scope # "upcoming" => IsToday(v, today) \/ v.m = r.month
    /\ r.about = "location" => IsIn(v, r.value)
    /\ r.about = "languages" => Speaks(v, r.value.what)
    /\ r.about = "certifications" => Like(v, r.value.what)

LEMMA SelectIs ==
    ASSUME NEW r, NEW f, r.about \in Prose \cup {"location"},
           r.about = "birth_date" => r.scope # "closest"
    PROVE  Select(r, f) = {p \in DOMAIN f : Matches(r, f[p])}
<1>1. CASE r.about = "birth_date" /\ r.scope = "upcoming"
  <2>1. Select(r, f) = {p \in DOMAIN f : DaysUntil(f[p], today) <= 30}
    BY <1>1 DEF Select, Celebrates
  <2>2. QED
    BY <1>1, <2>1 DEF Matches
<1>2. CASE r.about = "birth_date" /\ r.scope # "upcoming"
  <2>1. Select(r, f) = {p \in DOMAIN f : IsToday(f[p], today) \/ f[p].m = r.month}
    BY <1>2 DEF Select, Celebrates
  <2>2. QED
    BY <1>2, <2>1 DEF Matches
<1>3. CASE r.about = "location"
  BY <1>3 DEF Select, Matches
<1>4. CASE r.about = "languages"
  BY <1>4 DEF Select, Matches
<1>5. CASE r.about = "certifications"
  BY <1>5 DEF Select, Matches
<1>6. QED
  BY <1>1, <1>2, <1>3, <1>4, <1>5 DEF Prose

(* Midnight changes only who celebrates. *)
LEMMA SelectStays ==
    ASSUME NEW r, NEW f, r.about \in {"location", "languages", "certifications"}
    PROVE  Select(r, f)' = Select(r, f)
<1>1. CASE r.about = "location"
  BY <1>1 DEF Select
<1>2. CASE r.about = "languages"
  BY <1>2 DEF Select
<1>3. CASE r.about = "certifications"
  BY <1>3 DEF Select
<1>4. QED
  BY <1>1, <1>2, <1>3

(* Whom a birthday answer names has been selected. *)
LEMMA MentionedIsSelected ==
    ASSUME NEW r, NEW f, r.about \in Prose \cup {"location"},
           r.about = "birth_date" => r.scope \in {"closest", "month", "today", "upcoming"}
    PROVE  Mentioned(r, f) \subseteq Select(r, f)
<1>1. CASE r.about = "birth_date"
  <2>1. Mentioned(r, f) = Celebrated(r, f) /\ Select(r, f) = Celebrates(r, f)
    BY <1>1 DEF Mentioned, Select
  <2>2. CASE r.scope = "closest"
    BY <2>1, <2>2 DEF Celebrated, Celebrates, FirstOf
  <2>3. CASE r.scope = "today"
    BY <2>1, <2>3 DEF Celebrated, Celebrates
  <2>4. CASE r.scope = "month"
    BY <2>1, <2>4 DEF Celebrated, Celebrates
  <2>5. CASE r.scope = "upcoming"
    BY <2>1, <2>5 DEF Celebrated, Celebrates, FirstOf
  <2>6. QED
    BY <1>1, <2>2, <2>3, <2>4, <2>5
<1>2. CASE r.about = "location"
  BY <1>2 DEF Mentioned
<1>3. CASE r.about # "birth_date" /\ r.about # "location"
  BY <1>3 DEF Mentioned, FirstOf
<1>4. QED
  BY <1>1, <1>2, <1>3

(* Whoever has a chunk that tells has one that tells first. *)
LEMMA WhoeverTellsIsHeard ==
    ASSUME WorldInv, NEW a, NEW who \in SUBSET Employees, NEW R, R \subseteq Found(a, who),
           NEW f \in FactsFrom(R, a), NEW x \in R, Tells(x[2], a)
    PROVE  x[1] \in DOMAIN f
<1> DEFINE tell == {y \in R : Tells(y[2], a)}
           mine == {y \in tell : y[1] = x[1]}
           places == {y[2].index : y \in mine}
           first == {y \in tell : ~\E z \in tell : z[1] = y[1] /\ Before(z, y)}
<1>1. \A y \in R : y[1] \in Employees /\ y[2].index \in Nat
  <2> TAKE y \in R
  <2>1. PICK p \in who : \E c \in resume[p] : y = <<p, c>>
    BY DEF Found
  <2>2. PICK c \in resume[p] : y = <<p, c>>
    BY <2>1
  <2>3. p \in Employees /\ resume[p] \in Resumes[p]
    BY DEF WorldInv
  <2>4. c.index \in Nat
    BY <2>2, <2>3, FactsAssumption
  <2>5. QED
    BY <2>2, <2>3, <2>4
<1>2. places \in SUBSET Nat /\ places # {}
  BY <1>1
<1>3. PICK n \in places : \A m \in places : n <= m
  BY <1>2, LeastNumber
<1>4. PICK y \in mine : y[2].index = n
  BY <1>3
<1>5. ASSUME NEW z \in tell, z[1] = y[1], Before(z, y) PROVE FALSE
  <2>1. z \in mine /\ y[1] \in Nat
    BY <1>1, <1>4, <1>5, FactsAssumption
  <2>2. z[2].index < y[2].index
    BY <1>5, <2>1 DEF Before
  <2>3. z[2].index \in Nat /\ n <= z[2].index
    BY <1>1, <1>3, <2>1
  <2>4. QED
    BY <1>1, <1>4, <2>2, <2>3
<1>6. y \in first /\ y[1] = x[1]
  BY <1>4, <1>5
<1>7. DOMAIN f = {z[1] : z \in first}
  BY DEF FactsFrom
<1>8. QED
  BY <1>6, <1>7

(* Nobody who is heard is left out. *)
LEMMA LeftOutIsUnheard ==
    ASSUME CohortInv, Cohort, NEW R, R \subseteq Read,
           NEW f \in FactsFrom(R, reply.to.about),
           reply.to.about # "birth_date" => reply.published = Select(reply.to, f),
           reply.said = past /\ reply.to.about = "birth_date" =>
              Select(reply.to, f) \subseteq reply.published,
           NEW p \in LeftOut
    PROVE  p \notin DOMAIN f
<1> DEFINE r == reply.to
           tell == {x[2] : x \in {x \in Read : x[1] = p /\ Tells(x[2], r.about)}}
<1>1. /\ p \notin reply.published
      /\ \A c \in tell : Fits(c)
  BY DEF LeftOut
<1> SUFFICES ASSUME p \in DOMAIN f
             PROVE  FALSE
  OBVIOUS
<1>2. PICK c \in resume[p] : <<p, c>> \in R /\ Tells(c, r.about) /\ f[p] = Told(c, r.about)
  <2>1. ToldIn(Asked, r.about, R, f)
    BY FactIsTold DEF Read
  <2>2. QED
    BY <2>1 DEF ToldIn
<1>3. Fits(c)
  BY <1>1, <1>2
<1>4. /\ r.about \in Prose \cup {"location"}
      /\ r.about = "birth_date" => reply.said = past /\ r.scope # "closest"
  BY <1>3 DEF CohortInv, CohortSaid, Fits
<1>5. Matches(r, f[p])
  <2> DEFINE g == [o \in {0} |-> Told(c, r.about)]
  <2>1. Select(r, g) # {}
    BY <1>3 DEF Fits
  <2>2. Select(r, g) = {o \in DOMAIN g : Matches(r, g[o])}
    BY <1>4, SelectIs
  <2>3. Matches(r, Told(c, r.about))
    BY <2>1, <2>2
  <2>4. QED
    BY <1>2, <2>3
<1>6. p \in Select(r, f)
  BY <1>4, <1>5, SelectIs
<1>7. QED
  BY <1>1, <1>4, <1>6

LEMMA LeftOutHasResume ==
    ASSUME CohortInv, Cohort, NEW p \in LeftOut
    PROVE  /\ p \in WithResume
           /\ \E x \in Read : x[1] = p /\ Tells(x[2], reply.to.about)
<1>1. PICK x \in Read : x[1] = p /\ Tells(x[2], reply.to.about)
  BY DEF LeftOut
<1>2. PICK o \in Asked : \E c \in resume[o] : x = <<o, c>>
  BY DEF Read, Found
<1>3. Asked \subseteq Employees
  BY DEF CohortInv, CohortSaid, Asked
<1>4. QED
  BY <1>1, <1>2, <1>3 DEF WithResume

(* Facts are of people with a resume. *)
LEMMA HeardHaveResumes ==
    ASSUME NEW a, NEW who, who \subseteq Employees, NEW R, R \subseteq Found(a, who),
           NEW f \in FactsFrom(R, a)
    PROVE  DOMAIN f \subseteq WithResume
<1>1. ToldIn(who, a, R, f)
  BY FactIsTold
<1>2. QED
  BY <1>1 DEF WithResume, ToldIn

LEMMA CohortInit == FactsInit => CohortInv
  BY WorldInit, SilenceIs DEF FactsInit, CohortInv, CohortSaid, FacetSaid, Cohort

(* The reply of TellCohort. *)
LEMMA CohortTold ==
    ASSUME WorldInv, TellCohort
    PROVE  CohortSaid'
<1>1. PICK r : r = request
  OBVIOUS
<1> DEFINE who == IF r.ids # {} THEN r.ids ELSE Employees
           told(R, f) == [Silence EXCEPT !.kind = "cohort", !.to = r, !.facts = f,
                                         !.named = Mentioned(r, f),
                                         !.published = Publishes(r, R, f),
                                         !.missing = Missing(r, R, f)]
<1>2. \E R \in Readings(Found(r.about, who), Limit) : \E f \in FactsFrom(R, r.about) :
         Answered(told(R, f))
  BY <1>1 DEF TellCohort
<1>3. PICK R \in Readings(Found(r.about, who), Limit) :
         \E f \in FactsFrom(R, r.about) : Answered(told(R, f))
  BY <1>2
<1>4. PICK f \in FactsFrom(R, r.about) : Answered(told(R, f))
  BY <1>3
<1>5. /\ reply'.to = r /\ reply'.facts = f /\ reply'.said = past /\ reply'.kind = "cohort"
      /\ reply'.named = Mentioned(r, f)
      /\ reply'.published = Publishes(r, R, f)
      /\ reply'.missing = Missing(r, R, f)
      /\ resume' = resume /\ past' = past /\ today' = today
  BY <1>4, SilenceIs DEF Answered, Fields
<1>6. /\ r.ids \subseteq Employees
      /\ r.about \in Prose \cup {"location"}
      /\ r.about = "birth_date" => r.scope \in {"closest", "month", "today", "upcoming"}
      /\ r.about = "location" =>
            /\ r.ids = {}
            /\ r.value.city # None \/ r.value.country # None
  BY <1>1 DEF WorldInv, RequestInv, TellCohort
<1>7. /\ Mentioned(r, f) \subseteq Select(r, f)
      /\ Select(r, f) \subseteq Publishes(r, R, f)
      /\ r.about # "birth_date" => Publishes(r, R, f) = Select(r, f)
  BY <1>6, MentionedIsSelected DEF Publishes
<1>8. /\ Read' = Found(r.about, who)
      /\ Missing(r, R, f)' = Missing(r, R, f)
      /\ Select(r, f)' = Select(r, f)
  <2>1. Read' = Found(r.about, who)
    BY <1>5 DEF Read, Asked, Found
  <2>2. Missing(r, R, f)' = Missing(r, R, f)
    BY <1>5 DEF Missing, WithResume
  <2>3. Select(r, f)' = Select(r, f)
    BY <1>5 DEF Select, Celebrates, Soonest
  <2>4. QED
    BY <2>1, <2>2, <2>3
<1>9. QED
  BY <1>4, <1>5, <1>6, <1>7, <1>8 DEF CohortSaid

LEMMA CohortTomorrow ==
    ASSUME CohortInv, DayPasses
    PROVE  CohortSaid'
<1> SUFFICES ASSUME Cohort
             PROVE  CohortSaid'
  BY DEF DayPasses, CohortSaid, Cohort
<1> DEFINE a == reply.to.about
<1>1. /\ reply.to.ids \subseteq Employees
      /\ a \in Prose \cup {"location"}
      /\ a = "location" =>
            /\ reply.to.ids = {}
            /\ reply.to.value.city # None \/ reply.to.value.country # None
      /\ reply.named \subseteq reply.published
  BY DEF CohortInv, CohortSaid
<1>2. PICK R \in Readings(Read, Limit) : \E f \in FactsFrom(R, a) :
         /\ reply.facts = f
         /\ reply.missing = Missing(reply.to, R, f)
         /\ a # "birth_date" => reply.published = Select(reply.to, f)
  BY DEF CohortInv, CohortSaid
<1>3. PICK f \in FactsFrom(R, a) :
         /\ reply.facts = f
         /\ reply.missing = Missing(reply.to, R, f)
         /\ a # "birth_date" => reply.published = Select(reply.to, f)
  BY <1>2
<1>4. resume' = resume /\ reply' = reply /\ past' # reply.said
  BY DEF DayPasses, CohortInv, WorldInv
<1>5. PICK r : r = reply.to
  OBVIOUS
<1>6. /\ Read' = Read
      /\ Missing(r, R, f)' = Missing(r, R, f)
      /\ a # "birth_date" => Select(r, f)' = Select(r, f)
  <2>1. Read' = Read
    BY <1>4 DEF Read, Asked, Found
  <2>2. Missing(r, R, f)' = Missing(r, R, f)
    BY <1>4 DEF Missing, WithResume
  <2>3. a # "birth_date" => a \in {"location", "languages", "certifications"}
    BY <1>1 DEF Prose
  <2>4. QED
    BY <1>5, <2>1, <2>2, <2>3, SelectStays
<1>7. QED
  BY <1>1, <1>2, <1>3, <1>4, <1>5, <1>6 DEF CohortSaid

LEMMA FacetTold ==
    ASSUME WorldInv, TellFacet
    PROVE  FacetSaid'
<1>1. PICK R \in Readings(Found("location", Employees), Limit) :
         \E f \in FactsFrom(R, "location") :
            /\ resume' = resume
            /\ facets' = [by |-> request.facet,
                          values |-> {f[p][request.facet] : p \in DOMAIN f} \ {None}]
  BY DEF TellFacet, Answered
<1>2. PICK f \in FactsFrom(R, "location") :
         /\ resume' = resume
         /\ facets' = [by |-> request.facet,
                       values |-> {f[p][request.facet] : p \in DOMAIN f} \ {None}]
  BY <1>1
<1>3. Found("location", Employees)' = Found("location", Employees)
  BY <1>2 DEF Found
<1>4. facets'.values = {f[p][facets'.by] : p \in DOMAIN f} \ {None}
  BY <1>2
<1>5. QED
  BY <1>3, <1>4 DEF FacetSaid

LEMMA CohortStep == CohortInv /\ [FactsNext]_factsVars => CohortInv'
<1> SUFFICES ASSUME CohortInv, [FactsNext]_factsVars
             PROVE  CohortSaid' /\ FacetSaid'
  BY WorldStep DEF CohortInv
<1> USE SilenceIs
<1>1. ASSUME resume' = resume, facets' = facets
      PROVE  FacetSaid'
  <2>1. Found("location", Employees)' = Found("location", Employees)
    BY <1>1 DEF Found
  <2>2. QED
    BY <1>1, <2>1 DEF CohortInv, FacetSaid
<1>2. ASSUME resume' = resume, reply' = reply, past' = past, today' = today
      PROVE  CohortSaid'
  <2>1. PICK r : r = reply.to
    OBVIOUS
  <2>2. /\ Read' = Read
        /\ \A R, f : Missing(r, R, f)' = Missing(r, R, f)
        /\ \A f : Select(r, f)' = Select(r, f)
    <3>1. Read' = Read
      BY <1>2 DEF Read, Asked, Found
    <3>2. ASSUME NEW R, NEW f
          PROVE  Missing(r, R, f)' = Missing(r, R, f)
      BY <1>2 DEF Missing, WithResume
    <3>3. ASSUME NEW f
          PROVE  Select(r, f)' = Select(r, f)
      BY <1>2 DEF Select, Celebrates, Soonest
    <3>4. QED
      BY <3>1, <3>2, <3>3
  <2>3. QED
    BY <1>2, <2>1, <2>2 DEF CohortInv, CohortSaid, Cohort
<1>3. ASSUME NEW q \in Asks, Plan(q)
      PROVE  CohortSaid' /\ FacetSaid'
  BY <1>1, <1>2, <1>3 DEF Plan
<1>4. ASSUME NEW q \in Asks, AskBack(q)
      PROVE  CohortSaid' /\ FacetSaid'
  BY <1>1, <1>4 DEF AskBack, CohortSaid, Cohort, Fields
<1>5. CASE DoubtPerson
  BY <1>1, <1>5 DEF DoubtPerson, Answered, CohortSaid, Cohort, Fields
<1>6. CASE TellPerson
  BY <1>1, <1>6, TellPersonSays DEF CohortInv, TellPerson, Answered, CohortSaid, Cohort
<1>7. CASE TellCohort
  BY <1>1, <1>7, CohortTold DEF CohortInv, TellCohort, Answered
<1>8. CASE TellFacet
  <2>1. reply'.kind = "facet"
    BY <1>8 DEF TellFacet, Answered, Fields
  <2>2. QED
    BY <1>8, <2>1, FacetTold DEF CohortInv, CohortSaid, Cohort
<1>9. CASE DayPasses
  BY <1>1, <1>9, CohortTomorrow DEF DayPasses
<1>10. CASE UNCHANGED factsVars
  BY <1>1, <1>2, <1>10 DEF factsVars
<1>11. QED
  BY <1>3, <1>4, <1>5, <1>6, <1>7, <1>8, <1>9, <1>10 DEF FactsNext

LEMMA CohortAlways == FactsSpec => []CohortInv
  BY CohortInit, CohortStep, PTL DEF FactsSpec

(* The reading and the facts behind the answer. *)
LEMMA CohortReads ==
    ASSUME CohortInv, Cohort
    PROVE  \E R, f :
              /\ R \subseteq Read /\ f \in FactsFrom(R, reply.to.about)
              /\ Cardinality(Read) <= Limit => R = Read
              /\ DOMAIN f \subseteq WithResume
              /\ reply.facts = f
              /\ reply.missing = Missing(reply.to, R, f)
              /\ reply.to.about # "birth_date" => reply.published = Select(reply.to, f)
              /\ reply.said = past /\ reply.to.about = "birth_date" =>
                    Select(reply.to, f) \subseteq reply.published
              /\ \A p \in LeftOut : p \notin DOMAIN f
<1>1. PICK R \in Readings(Read, Limit) : \E f \in FactsFrom(R, reply.to.about) :
         /\ reply.facts = f
         /\ reply.missing = Missing(reply.to, R, f)
         /\ reply.to.about # "birth_date" => reply.published = Select(reply.to, f)
         /\ reply.said = past /\ reply.to.about = "birth_date" =>
               Select(reply.to, f) \subseteq reply.published
  BY DEF CohortInv, CohortSaid
<1>2. PICK f \in FactsFrom(R, reply.to.about) :
         /\ reply.facts = f
         /\ reply.missing = Missing(reply.to, R, f)
         /\ reply.to.about # "birth_date" => reply.published = Select(reply.to, f)
         /\ reply.said = past /\ reply.to.about = "birth_date" =>
               Select(reply.to, f) \subseteq reply.published
  BY <1>1
<1>3. R \subseteq Read /\ (Cardinality(Read) <= Limit => R = Read)
  BY ReadingIs
<1>4. Asked \subseteq Employees
  BY DEF CohortInv, CohortSaid, Asked
<1>5. DOMAIN f \subseteq WithResume
  BY <1>3, <1>4, HeardHaveResumes DEF Read
<1>6. \A p \in LeftOut : p \notin DOMAIN f
  BY <1>2, <1>3, LeftOutIsUnheard
<1>7. QED
  BY <1>2, <1>3, <1>5, <1>6

(* Whoever a cohort hands on to the next node has a resume that says what  *)
(* was asked for, nobody whom the answer names is missing from it, and as  *)
(* long as all chunks are within the limit it leaves out nobody whose      *)
(* resume is of one mind, whatever the chunks tell and in which order they *)
(* are cut.                                                                *)
THEOREM CohortsHold == FactsSpec => []CohortsAreExact
<1>1. CohortInv => CohortsAreExact
  <2> SUFFICES ASSUME CohortInv, Cohort
               PROVE  CohortsAreExact
    BY DEF CohortsAreExact
  <2> DEFINE r == reply.to
  <2>1. PICK R, f :
           /\ R \subseteq Read /\ f \in FactsFrom(R, r.about)
           /\ Cardinality(Read) <= Limit => R = Read
           /\ r.about # "birth_date" => reply.published = Select(r, f)
           /\ \A p \in LeftOut : p \notin DOMAIN f
    BY CohortReads
  <2>2. /\ r.about \in Prose \cup {"location"}
        /\ Asked \subseteq Employees
        /\ reply.named \subseteq reply.published
    BY DEF CohortInv, CohortSaid, Asked
  <2>3. ASSUME r.about # "birth_date", NEW p \in reply.published
        PROVE  \E c \in resume[p] : Fits(c)
    <3>1. p \in DOMAIN f /\ Matches(r, f[p])
      BY <2>1, <2>2, <2>3, SelectIs
    <3>2. PICK c \in resume[p] :
             p \in Asked /\ <<p, c>> \in R /\ Tells(c, r.about) /\ f[p] = Told(c, r.about)
      <4>1. ToldIn(Asked, r.about, R, f)
        BY <2>1, FactIsTold DEF Read
      <4>2. QED
        BY <3>1, <4>1 DEF ToldIn
    <3> DEFINE g == [o \in {0} |-> Told(c, r.about)]
    <3>3. Select(r, g) = {o \in DOMAIN g : Matches(r, g[o])}
      BY <2>2, <2>3, SelectIs
    <3>4. 0 \in Select(r, g)
      BY <3>1, <3>2, <3>3
    <3>5. QED
      BY <2>3, <3>2, <3>4 DEF Fits
  <2>4. ASSUME Cardinality(Read) <= Limit, NEW p \in LeftOut
        PROVE  FALSE
    <3>1. PICK x \in Read : x[1] = p /\ Tells(x[2], r.about)
      BY LeftOutHasResume
    <3>2. x \in R
      BY <2>1, <2>4
    <3>3. x[1] \in DOMAIN f
      BY <2>1, <2>2, <3>1, <3>2, WhoeverTellsIsHeard DEF Read, CohortInv
    <3>4. QED
      BY <2>1, <3>1, <3>3
  <2>5. QED
    BY <2>2, <2>3, <2>4 DEF CohortsAreExact
<1>2. QED
  BY <1>1, CohortAlways, PTL

(* Of an answer in prose about everybody, what it says is missing is how   *)
(* many of those with a resume it knows nothing of, and whoever is left    *)
(* out is one of them, beyond the limit as well.                           *)
THEOREM GapsHold == FactsSpec => []GapsAreAdmitted
<1>1. CohortInv => GapsAreAdmitted
  <2> SUFFICES ASSUME CohortInv, Cohort, Unscoped(reply.to)
               PROVE  /\ Cardinality(LeftOut) <= reply.missing
                      /\ reply.missing = Cardinality(WithResume \ DOMAIN reply.facts)
    BY DEF GapsAreAdmitted
  <2>1. PICK R, f :
           /\ DOMAIN f \subseteq WithResume
           /\ reply.facts = f
           /\ reply.missing = Missing(reply.to, R, f)
           /\ \A p \in LeftOut : p \notin DOMAIN f
    BY CohortReads
  <2>2. reply.missing = Cardinality(WithResume) - Cardinality(DOMAIN f)
    BY <2>1 DEF Missing
  <2>3. IsFiniteSet(WithResume)
    BY FS_Subset, FactsAssumption DEF WithResume
  <2>4. WithResume \cap DOMAIN f = DOMAIN f
    BY <2>1
  <2>5. /\ IsFiniteSet(WithResume \ DOMAIN f)
        /\ Cardinality(WithResume \ DOMAIN f)
              = Cardinality(WithResume) - Cardinality(DOMAIN f)
    BY <2>3, <2>4, FS_Difference
  <2>6. LeftOut \subseteq WithResume \ DOMAIN f
    BY <2>1, LeftOutHasResume
  <2>7. Cardinality(LeftOut) <= Cardinality(WithResume \ DOMAIN f)
    BY <2>5, <2>6, FS_Subset
  <2>8. QED
    BY <2>1, <2>2, <2>5, <2>7
<1>2. QED
  BY <1>1, CohortAlways, PTL

(* Readings of one mind give the same facts. *)
LEMMA OneMindOneFact ==
    ASSUME NEW a, OfOneMind(a), NEW R, R = Found(a, Employees),
           NEW f \in FactsFrom(R, a), NEW g \in FactsFrom(R, a)
    PROVE  DOMAIN f = DOMAIN g /\ \A p \in DOMAIN f : f[p] = g[p]
<1>1. DOMAIN f = DOMAIN g
  BY DEF FactsFrom
<1>2. ASSUME NEW p \in DOMAIN f PROVE f[p] = g[p]
  <2>1. PICK x \in R : Tells(x[2], a) /\ x[1] = p /\ f[p] = Told(x[2], a)
    BY DEF FactsFrom
  <2>2. PICK y \in R : Tells(y[2], a) /\ y[1] = p /\ g[p] = Told(y[2], a)
    BY <1>1 DEF FactsFrom
  <2>3. QED
    BY <2>1, <2>2 DEF OfOneMind
<1>3. QED
  BY <1>1, <1>2

(* A city or country is counted by an aggregate exactly if somebody is     *)
(* found there when it is asked for, provided no resume names two places   *)
(* and all chunks are read.                                                *)
THEOREM FacetsHold == FactsSpec => []FacetsAreCohorts
<1>1. CohortInv => FacetsAreCohorts
  <2> SUFFICES ASSUME CohortInv, facets # None, Cohort, reply.to.about = "location",
                      OfOneMind("location")
               PROVE  FacetsAreCohorts
    BY DEF FacetsAreCohorts
  <2> DEFINE v == reply.to.value
  <2>1. PICK all : all = Found("location", Employees)
    OBVIOUS
  <2>2. reply.to.ids = {} /\ (v.city # None \/ v.country # None)
    BY DEF CohortInv, CohortSaid
  <2>3. Read = all
    BY <2>1, <2>2 DEF Read, Asked
  <2>4. Cardinality(all) <= Limit
    BY <2>1 DEF OfOneMind
  <2>5. PICK f \in FactsFrom(all, "location") : reply.published = Select(reply.to, f)
    BY <2>3, <2>4, CohortReads
  <2>6. PICK S \in Readings(all, Limit) : \E g \in FactsFrom(S, "location") :
           facets.values = {g[p][facets.by] : p \in DOMAIN g} \ {None}
    BY <2>1 DEF CohortInv, FacetSaid
  <2>7. S = all
    BY <2>4, ReadingIs
  <2>8. PICK g \in FactsFrom(all, "location") :
           facets.values = {g[p][facets.by] : p \in DOMAIN g} \ {None}
    BY <2>6, <2>7
  <2>9. DOMAIN f = DOMAIN g /\ \A p \in DOMAIN f : f[p] = g[p]
    BY <2>1, OneMindOneFact
  <2>10. reply.published = {p \in DOMAIN f : IsIn(f[p], v)}
    BY <2>5 DEF Select
  <2>11. ASSUME facets.by = "city", v.country = None
         PROVE  reply.published # {} <=> v.city \in facets.values
    <3>1. reply.published = {p \in DOMAIN f : f[p].city = v.city}
      BY <2>2, <2>10, <2>11 DEF IsIn
    <3>2. facets.values = {g[p].city : p \in DOMAIN g} \ {None}
      BY <2>8, <2>11
    <3>3. QED
      BY <2>2, <2>9, <2>11, <3>1, <3>2
  <2>12. ASSUME facets.by = "country", v.city = None
         PROVE  reply.published # {} <=> v.country \in facets.values
    <3>1. reply.published = {p \in DOMAIN f : f[p].country = v.country}
      BY <2>2, <2>10, <2>12 DEF IsIn
    <3>2. facets.values = {g[p].country : p \in DOMAIN g} \ {None}
      BY <2>8, <2>12
    <3>3. QED
      BY <2>2, <2>9, <2>12, <3>1, <3>2
  <2>13. QED
    BY <2>11, <2>12 DEF FacetsAreCohorts
<1>2. QED
  BY <1>1, CohortAlways, PTL
=============================================================================
