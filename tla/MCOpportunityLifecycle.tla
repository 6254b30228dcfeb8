------------------------ MODULE MCOpportunityLifecycle ------------------------
(***************************************************************************)
(* Small instances of the deals of one conversation: the commands that are *)
(* sent, with the arguments an operation does not read left at a default.  *)
(***************************************************************************)
EXTENDS OpportunityLifecycle, TLC

CONSTANTS k, sales, service

MCKey == {k}
MCPipelines == {sales, service}

Blank(op) == [op |-> op, id |-> 0, stage |-> "first", pipe |-> sales,
              mode |-> "automatic", link |-> FALSE, place |-> FALSE,
              actor |-> "user", key |-> NoKey, versioned |-> FALSE]
On(op, cards) == {[Blank(op) EXCEPT !.id = c] : c \in cards}
Moves(cards, stages, actors) ==
    {[m EXCEPT !.stage = s, !.actor = a] :
        m \in On("move", cards), s \in stages, a \in actors}
Creates == {[Blank("create") EXCEPT !.link = b, !.stage = s] :
               b \in BOOLEAN, s \in Stages}
Closes(cards) == {[m EXCEPT !.stage = "won"] : m \in On("status", cards)}
Transfers(cards) ==
    {[m EXCEPT !.pipe = service, !.actor = a] :
        m \in On("transfer", cards), a \in {"user", "auto"}}
Patches(cards) ==
    {[m EXCEPT !.versioned = v] : m \in On("patch", cards), v \in BOOLEAN}
WithKey(sent) == {[m EXCEPT !.key = k] : m \in sent}
ToPlace(sent) == {[m EXCEPT !.place = TRUE] : m \in sent}

\* Every operation; a reconversion, a closing and a placed move also with a
\* key.
MCSent ==
    Creates \cup On("copy", {1}) \cup On("reconvert", Id)
    \cup Moves({1, 2}, Stages, {"user"})
    \cup Moves({1, 2}, Stages, {"override", "auto"})
    \cup Closes(Id) \cup On("status", {1}) \cup Transfers({1})
    \cup On("autonomy", {1}) \cup On("distribute", {1}) \cup Patches({1})
    \cup On("delete", Id)
    \cup ToPlace(Moves({1}, {"first"}, {"user"}))
    \cup WithKey(On("reconvert", {1}) \cup Closes({1})
                   \cup ToPlace(Moves({1}, {"won"}, {"user"})))

MCSymmetry == Permutations(Request)
=============================================================================
