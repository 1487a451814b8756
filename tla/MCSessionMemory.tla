--------------------------- MODULE MCSessionMemory ---------------------------
(* Turns of one user, and one of another who names the same session.       *)
EXTENDS SessionMemory

CONSTANTS t1, t2, t3

MCTurns == {t1, t2, t3}
MCSpeaker == (t1 :> "ann") @@ (t2 :> "ann") @@ (t3 :> "bob")
MCScripts ==
    {(t1 :> "find") @@ (t2 :> "shift") @@ (t3 :> "chat"),
     (t1 :> "ask") @@ (t2 :> "yes") @@ (t3 :> "person")}

(* One user. *)
MCOne == [t \in MCTurns |-> "ann"]
MCOneScripts ==
    {(t1 :> "find") @@ (t2 :> "person") @@ (t3 :> "shift"),
     (t1 :> "ask") @@ (t2 :> "cancel") @@ (t3 :> "yes")}

=============================================================================
