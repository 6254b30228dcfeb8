--------------------------- MODULE MCFollowupChain ---------------------------
(***************************************************************************)
(* Small instances of the follow-up cadence: two or three attempts, one or *)
(* two workers.                                                            *)
(***************************************************************************)
EXTENDS FollowupChain, TLC

MCSymmetry == Permutations(Worker)
PlansNone == {{}}
PlansThree == {{1, 2, 3}, {2, 3}}
=============================================================================
