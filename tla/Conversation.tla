---------------------------- MODULE Conversation ----------------------------
(***************************************************************************)
(* What a session promises to a client that waits for each answer before   *)
(* it asks again: every turn sees all that went before it, and takes       *)
(* effect as a whole, unless it breaks off.                                *)
(***************************************************************************)
CONSTANTS Turns, None

VARIABLES known,      \* the messages in the history or its summary
          cohort,     \* the turn that said who "them" is
          referent    \* the turn that set the active referent

vars == <<known, cohort, referent>>

Message == Turns \X {"question", "answer"}

TypeOK ==
    /\ known \subseteq Message
    /\ cohort \in Turns \cup {None}
    /\ referent \in Turns \cup {None}

Init == known = {} /\ cohort = None /\ referent = None

(* What a turn may make of the cohort and the referent: keep them, move to *)
(* its own answer, to one person, or (on a change of topic) to nobody.     *)
Moves(t) ==
    {<<cohort, referent>>, <<t, t>>, <<cohort, t>>, <<None, None>>}

Turn(t) ==
    /\ <<t, "question">> \notin known
    /\ known' = known \cup {<<t, "question">>, <<t, "answer">>}
    /\ <<cohort', referent'>> \in Moves(t)

(* A turn that breaks off leaves its question, and perhaps half its effect. *)
Break(t) ==
    /\ known' = known \cup {<<t, "question">>}
    /\ <<cohort', referent'>> \in Moves(t) \cup {<<t, referent>>}

Forget == known' = {} /\ cohort' = None /\ referent' = None

Next == (\E t \in Turns : Turn(t) \/ Break(t)) \/ Forget

Spec == Init /\ [][Next]_vars
=============================================================================
