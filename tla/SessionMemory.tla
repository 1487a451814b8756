---------------------------- MODULE SessionMemory ----------------------------
(***************************************************************************)
(* One session in the session store, and the turns that load it, change    *)
(* their own copy of it and save the whole copy, many times each.          *)
(*                                                                         *)
(* Both stores behave alike here.  RedisSessionStore serialises.  The      *)
(* MemorySessionStore returns its own object, but a turn saves right after *)
(* it reads, and the save leaves the store with a copy.                    *)
(*                                                                         *)
(* A turn saves more often than the actions say; the other saves write     *)
(* fields that are left out.  What a field holds is named by the turn that *)
(* wrote it.                                                               *)
(***************************************************************************)
EXTENDS Naturals, Sequences, SequencesExt, FiniteSets

CONSTANTS Turns, Principals, None,
          Speaker,    \* who asks each turn: a user in a role, of a tenant
          Scripts,    \* which kinds of turns there may be
          Trigger,    \* summary_trigger
          Keep        \* max_history // 2

(* A `find` answers about several people, a `person` about one; `shift` is *)
(* a change of topic; `ask` puts a status write to the user, `cancel` and  *)
(* `yes` reply to it.                                                      *)
Kinds == {"find", "person", "shift", "chat", "ask", "cancel", "yes"}

ASSUME SessionAssumption ==
    /\ Speaker \in [Turns -> Principals]
    /\ Scripts \subseteq [Turns -> Kinds]
    /\ None \notin Turns
    /\ Trigger \in Nat /\ Keep \in Nat /\ Keep <= Trigger

Message == Turns \X {"question", "answer"}

Session == [owner: Principals, log: Seq(Message), digest: SUBSET Message,
            cohort: Turns \cup {None}, referent: Turns \cup {None},
            fact: Turns \cup {None}]

Fresh(p) == [owner |-> p, log |-> <<>>, digest |-> {}, cohort |-> None,
             referent |-> None, fact |-> None]

VARIABLES kind,       \* the kind of each turn
          store,      \* at most one session
          readable,   \* the stored text still validates
          step,       \* how far each turn is
          copy,       \* the session object of each turn
          written,    \* the status writes that were made, as <<asked in, yes of>>
          alone,      \* history: the turns that ran with no other
          kept,       \* history: the turns done since the session was lost
          settled,    \* history: what was stored when no turn ran
          held        \* history: the questions that a cancellation missed

vars == <<kind, store, readable, step, copy, written, alone, kept, settled, held>>

Steps == {"waiting", "unreadable", "absent", "loaded", "heard", "prepared",
          "planned", "executed", "half", "committed", "reported", "done",
          "refused", "failed"}
Over == {"done", "refused", "failed"}

(* A turn that asks has been heard, and is not answered yet. *)
Heard == {"heard", "prepared", "planned", "executed", "half", "committed", "reported"}

Init ==
    /\ kind \in Scripts
    /\ store = {} /\ readable = TRUE
    /\ step = [t \in Turns |-> "waiting"]
    /\ copy = [t \in Turns |-> Fresh(Speaker[t])]
    /\ written = {}
    /\ alone = Turns /\ kept = {} /\ settled = {} /\ held = {}

Running == {t \in Turns : step[t] \notin Over \cup {"waiting"}}
Loaded == {t \in Turns : step[t] \in Heard \cup {"loaded"}}

Moves(t, from, to) == step[t] = from /\ step' = [step EXCEPT ![t] = to]

(* SessionStore.save of the whole copy, which is s. *)
Save(t, s) ==
    copy' = [copy EXCEPT ![t] = s] /\ store' = {s} /\ readable' = TRUE

(* What a reader would find. *)
Stored == IF readable THEN store ELSE {}

(* What the cancellation c leaves behind when it is saved: the questions   *)
(* in what others stored, and in the copies that they loaded before.       *)
Missed(c) ==
    {f \in Turns :
        \E s \in (store' \ {copy'[c]}) \cup {copy[t] : t \in Loaded \ {c}} : s.fact = f}
Cancels(c) == kind[c] = "cancel" /\ step[c] = "prepared" /\ step'[c] = "planned"

Observe ==
    /\ alone' = IF Cardinality(Running') > 1 THEN alone \ Running' ELSE alone
    /\ kept' = IF Stored' = {} THEN {}
               ELSE kept \cup {t \in Turns : step[t] # "done" /\ step'[t] = "done"}
    /\ settled' = IF alone' # Turns \/ Running' # {} THEN settled ELSE Stored'
    /\ held' = held \cup UNION {Missed(c) : c \in {d \in Turns : Cancels(d)}}

Rest == UNCHANGED <<kind, written>> /\ Observe
OnlyStep == UNCHANGED <<store, readable, copy>> /\ Rest

-----------------------------------------------------------------------------
(* SessionStore.get, and the test of the owner. *)
GetNothing(t) ==
    /\ store = {}
    /\ Moves(t, "waiting", "absent")
    /\ OnlyStep

GetUnreadable(t) ==
    /\ store # {} /\ ~readable
    /\ Moves(t, "waiting", "unreadable")
    /\ OnlyStep

GetRefused(t) ==
    /\ readable
    /\ \E s \in store : s.owner # Speaker[t]
    /\ Moves(t, "waiting", "refused")
    /\ OnlyStep

(* Mutant of Get: the owner is not looked at. *)
GetAnyones(t) ==
    /\ readable
    /\ \E s \in store : copy' = [copy EXCEPT ![t] = s]
    /\ Moves(t, "waiting", "loaded")
    /\ UNCHANGED <<store, readable>>
    /\ Rest

Get(t) ==
    /\ readable
    /\ \E s \in store : s.owner = Speaker[t] /\ copy' = [copy EXCEPT ![t] = s]
    /\ Moves(t, "waiting", "loaded")
    /\ UNCHANGED <<store, readable>>
    /\ Rest

(* The record that did not validate is deleted, whatever the key holds by then. *)
Discard(t) ==
    /\ Moves(t, "unreadable", "absent")
    /\ store' = {} /\ readable' = TRUE
    /\ UNCHANGED copy
    /\ Rest

Create(t) ==
    /\ Moves(t, "absent", "loaded")
    /\ Save(t, Fresh(Speaker[t]))
    /\ Rest

-----------------------------------------------------------------------------
(* append_user, and _maybe_summarize when the history is too long. *)

(* Mutant of Summarize: what is cut is not digested. *)
SummarizeNothing(s) ==
    IF Len(s.log) <= Trigger THEN s
    ELSE [s EXCEPT !.log = SubSeq(@, Len(@) - Keep + 1, Len(@))]

Summarize(s) ==
    IF Len(s.log) <= Trigger THEN s
    ELSE [s EXCEPT !.log = SubSeq(@, Len(@) - Keep + 1, Len(@)),
                   !.digest = @ \cup ToSet(SubSeq(s.log, 1, Len(s.log) - Keep))]

Hear(t) ==
    /\ Moves(t, "loaded", "heard")
    /\ Save(t, Summarize([copy[t] EXCEPT !.log = Append(@, <<t, "question">>)]))
    /\ Rest

(* Mutant of Prepare: the active referent survives a change of topic. *)
PrepareHalf(t) ==
    /\ Moves(t, "heard", "prepared")
    /\ IF kind[t] = "shift"
       THEN Save(t, [copy[t] EXCEPT !.cohort = None])
       ELSE UNCHANGED <<store, readable, copy>>
    /\ Rest

(* prepare_turn: a change of topic clears the referents, and old facts are *)
(* dropped from the copy (the next save stores that).                      *)
Prepare(t) ==
    /\ Moves(t, "heard", "prepared")
    /\ \E f \in {copy[t].fact, None} :
          IF kind[t] = "shift"
          THEN Save(t, [copy[t] EXCEPT !.cohort = None, !.referent = None, !.fact = f])
          ELSE /\ copy' = [copy EXCEPT ![t].fact = f]
               /\ UNCHANGED <<store, readable>>
    /\ Rest

(* Mutant of FactAfter: a cancellation is only an answer. *)
FactAfterKept(t) ==
    CASE kind[t] = "ask" -> t
      [] kind[t] \in {"find", "person"} -> None
      [] OTHER -> copy[t].fact

(* The facts that the plan leaves: _sync_pending_set_status and            *)
(* _sync_pending_tool_fact.  A yes keeps its fact until the write is made.  *)
FactAfter(t) ==
    CASE kind[t] = "ask" -> t
      [] kind[t] \in {"cancel", "find", "person"} -> None
      [] OTHER -> copy[t].fact

Sync(t) ==
    /\ Moves(t, "prepared", "planned")
    /\ LET s == [copy[t] EXCEPT !.fact = FactAfter(t)]
       IN \/ Save(t, s)
          \/ s = copy[t] /\ UNCHANGED <<store, readable, copy>>
    /\ Rest

(* The plan runs; that of a yes performs the write its copy remembers. *)
Execute(t) ==
    /\ Moves(t, "planned", "executed")
    /\ written' = IF kind[t] = "yes" /\ copy[t].fact # None
                  THEN written \cup {<<copy[t].fact, t>>} ELSE written
    /\ UNCHANGED <<kind, store, readable, copy>>
    /\ Observe

(* commit: first the cohort, then the active referent. *)
CommitCohort(t) ==
    /\ kind[t] = "find"
    /\ Moves(t, "executed", "half")
    /\ Save(t, [copy[t] EXCEPT !.cohort = t])
    /\ Rest

CommitReferent(t) ==
    /\ Moves(t, IF kind[t] = "find" THEN "half" ELSE "executed", "committed")
    /\ IF kind[t] \in {"find", "person"}
       THEN Save(t, [copy[t] EXCEPT !.referent = t])
       ELSE UNCHANGED <<store, readable, copy>>
    /\ Rest

(* A finding that reached nobody, or was refused, commits nothing. *)
CommitNothing(t) ==
    /\ kind[t] \in {"find", "person"}
    /\ Moves(t, "executed", "committed")
    /\ OnlyStep

(* _sync_pending_status_mutation: the write was made. *)
Report(t) ==
    /\ Moves(t, "committed", "reported")
    /\ IF kind[t] = "yes" /\ copy[t].fact # None
       THEN Save(t, [copy[t] EXCEPT !.fact = None])
       ELSE UNCHANGED <<store, readable, copy>>
    /\ Rest

(* Mutant of Reply: the answer is not saved. *)
ReplyUnsaved(t) ==
    /\ Moves(t, "reported", "done")
    /\ copy' = [copy EXCEPT ![t].log = Append(@, <<t, "answer">>)]
    /\ UNCHANGED <<store, readable>>
    /\ Rest

(* append_assistant. *)
Reply(t) ==
    /\ Moves(t, "reported", "done")
    /\ Save(t, [copy[t] EXCEPT !.log = Append(@, <<t, "answer">>)])
    /\ Rest

(* An exception, a save that fails, or the end of the process. *)
Fail(t) ==
    /\ t \in Running
    /\ step' = [step EXCEPT ![t] = "failed"]
    /\ OnlyStep

(* The lifetime of a day passes, or a store in memory ends with its        *)
(* process.  A turn renews the lifetime whenever it reads or saves.        *)
Expire ==
    /\ Running = {} /\ store # {}
    /\ store' = {} /\ readable' = TRUE
    /\ UNCHANGED <<step, copy>>
    /\ Rest

(* A release with another schema reads what this one wrote. *)
Drift ==
    /\ store # {} /\ readable
    /\ readable' = FALSE
    /\ UNCHANGED <<store, step, copy>>
    /\ Rest

Handle(t) ==
    \/ GetNothing(t) \/ GetUnreadable(t) \/ GetRefused(t) \/ Get(t)
    \/ Discard(t) \/ Create(t) \/ Hear(t) \/ Prepare(t) \/ Sync(t)
    \/ Execute(t) \/ CommitCohort(t) \/ CommitReferent(t) \/ CommitNothing(t)
    \/ Report(t) \/ Reply(t)

Next ==
    \/ \E t \in Turns : Handle(t) \/ Fail(t)
    \/ Expire \/ Drift

Spec == Init /\ [][Next]_vars

-----------------------------------------------------------------------------

(* Every variable has its type. *)
TypeOK ==
    /\ kind \in [Turns -> Kinds]
    /\ store \subseteq Session /\ Cardinality(store) <= 1
    /\ readable \in BOOLEAN
    /\ step \in [Turns -> Steps]
    /\ copy \in [Turns -> Session]
    /\ written \subseteq Turns \X Turns
    /\ alone \subseteq Turns /\ kept \subseteq Turns /\ settled \subseteq Session
    /\ held \subseteq Turns

Known(s) == ToSet(s.log) \cup s.digest
Records == store \cup {copy[t] : t \in Turns}

(* A session is a conversation with one user in one role: whatever is      *)
(* lost, recreated or overwritten, get_or_create never shows a turn what   *)
(* somebody else said.                                                     *)
OneOwner ==
    /\ \A s \in Records : \A m \in Known(s) : Speaker[m[1]] = s.owner
    /\ \A t \in Turns : copy[t].owner = Speaker[t]

(* No history holds the answer of a turn without its question, before it   *)
(* or in the summary: summarising and overwriting keep the order.          *)
AnswersFollowQuestions ==
    \A s \in Records : \A i \in DOMAIN s.log :
        s.log[i][2] = "answer" =>
            \/ <<s.log[i][1], "question">> \in s.digest
            \/ \E j \in 1..(i - 1) : s.log[j] = <<s.log[i][1], "question">>

(* The history never exceeds summary_trigger by more than an answer,       *)
(* however many turns break off after their question.                      *)
HistoryBounded == \A s \in Records : Len(s.log) <= Trigger + 1

(* A turn that ran alone is remembered, question and answer, until the     *)
(* session as a whole is lost: only turns that overlap undo each other.    *)
AloneIsKept ==
    \A s \in Stored, t \in alone \cap kept :
        {<<t, "question">>, <<t, "answer">>} \subseteq Known(s)

(* "Cancelled - I won't update anyone's status": a question that a         *)
(* cancellation has seen answered is not acted on any more, unless another *)
(* turn still held it when the cancellation was saved (and may save it     *)
(* back), or had saved it back by then.                                    *)
CancelledStaysCancelled ==
    [][\A w \in written' \ written, c \in Turns :
          /\ kind[c] = "cancel" /\ step[c] = "done"
          /\ <<w[1], "answer">> \in Known(copy[c])
          => w[1] \in held]_written

(* For as long as no two turns have overlapped, turns take effect as a     *)
(* whole or break off.                                                     *)
Abstract ==
    INSTANCE Conversation WITH
        known <- UNION {Known(s) : s \in settled},
        cohort <- IF settled = {} THEN None ELSE (CHOOSE s \in settled : TRUE).cohort,
        referent <- IF settled = {} THEN None ELSE (CHOOSE s \in settled : TRUE).referent

TurnsAreAtomic == Abstract!Spec
=============================================================================
