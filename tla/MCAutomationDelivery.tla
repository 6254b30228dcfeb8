------------------------ MODULE MCAutomationDelivery ------------------------
(***************************************************************************)
(* A small instance of the automation ingress: two automations, with plans *)
(* of two actions and of one.                                              *)
(***************************************************************************)
EXTENDS AutomationDelivery, TLC

CONSTANTS d1, a1, a2

TwoAutomations == {a1, a2}

\* An opportunity action followed by a notification, and a single action.
PlanOfTwo ==
    [a \in TwoAutomations |->
       IF a = a1 THEN <<"move_opportunity_stage", "notify_user">>
                 ELSE <<"schedule_followup">>]
=============================================================================
