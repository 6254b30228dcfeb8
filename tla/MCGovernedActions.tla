--------------------------- MODULE MCGovernedActions ---------------------------
(***************************************************************************)
(* Small instances of the governed actions: what one decision plans.       *)
(***************************************************************************)
EXTENDS GovernedActions, TLC

Plan(reply, stage, handoff) ==
    [k \in Kind |-> CASE k = "reply" -> reply [] k = "set_stage" -> stage
                      [] k = "handoff" -> handoff]

MCPlans == {Plan("planned", "planned", "none"),
            Plan("none", "requires_human", "planned")}

ReplyAndHandoff == {Plan("planned", "none", "planned")}
=============================================================================
