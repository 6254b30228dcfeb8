------------------------- MODULE MCSchedulerRuntime -------------------------
(***************************************************************************)
(* Small instances of the durable clock: all timer ids belong to one key,  *)
(* because keys do not interact, so that the key can be scheduled, moved,  *)
(* cancelled and scheduled again while two workers poll.                   *)
(***************************************************************************)
EXTENDS SchedulerRuntime, TLC

CONSTANTS t1, t2, k1

MCKey == {k1}

TwoTimers == {t1, t2}
KeyOfTwo  == [t \in TwoTimers |-> k1]

=============================================================================
