-------------------------- MODULE MCLeadDistribution --------------------------
(***************************************************************************)
(* Small instances of the distribution of a pipeline's leads.              *)
(***************************************************************************)
EXTENDS LeadDistribution, TLC

CONSTANTS ana, bia

MCMember == {ana, bia}
TwoPools == {<<ana, bia>>, <<>>}
=============================================================================
