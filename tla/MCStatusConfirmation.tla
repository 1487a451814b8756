------------------------ MODULE MCStatusConfirmation ------------------------
(* Three employees, two of whom share a name.                              *)
EXTENDS StatusConfirmation

CONSTANTS ann, bob, cleo

MCPeople == {ann, bob, cleo}
MCNames == {"kim", "lee"}
MCNameOf == [p \in MCPeople |-> IF p = cleo THEN "lee" ELSE "kim"]

U(kind, name, ids, value, verb) ==
    [kind |-> kind, name |-> name, ids |-> ids, status |-> value, verb |-> verb]
Say(kind) == U(kind, "none", {}, "unset", "flip")

Given ==
    {U("by_name", "kim", {}, v, "flip") : v \in Status}
        \cup {U("by_id", "none", {cleo}, v, "flip") : v \in Status}
        \cup {U("by_place", "none", {}, v, "flip") : v \in Status}
        \cup {U("nobody", "none", {}, "on", "flip")}

Replies ==
    {Say("yes"), Say("no"), Say("query"), Say("chat"), Say("aside"),
     Say("nobody"), Say("valueless")}
        \cup {U("bare", n, {}, "unset", "flip") : n \in MCNames}

(* Novel writes whose subject and polarity are clear. *)
Novel ==
    {U("novel", "kim", {}, "off", "flip"),
     U("novel", "none", {ann, cleo}, "on", "flip"),
     U("novel", "lee", {}, "unset", "deactivate")}

(* ... and one for which they are not. *)
Unclear == {U("novel", "lee", {}, "unset", "flip")}

MCUtterances == Given \cup Replies \cup Novel \cup Unclear
MCUnclear == Novel \cup Unclear \cup Replies
=============================================================================
