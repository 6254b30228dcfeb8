---------------------------- MODULE TimerContract ----------------------------
(***************************************************************************)
(* What the SchedulerRuntime port promises to the rest of the system, with *)
(* no workers, leases, batches or retries in it:                           *)
(*                                                                         *)
(*   - a key has at most one armed timer; scheduling an armed key changes  *)
(*     nothing, moving it retires the old timer and arms the new one in    *)
(*     one step;                                                           *)
(*   - an armed timer is handed to its consumer any number of times, and   *)
(*     is fired only after a hand-over that succeeded;                     *)
(*   - a timer that was fired, cancelled, superseded or given up never     *)
(*     changes again, except that it is forgotten after its retention.     *)
(*                                                                         *)
(* A consumer may be told of a timer after it was cancelled or superseded: *)
(* the hand-over in flight is not recalled.                                *)
(***************************************************************************)
EXTENDS Naturals

CONSTANTS
    Timer,     \* timer ids
    Key,       \* timer keys, each within its tenant, workspace and scope
    KeyOf      \* Timer -> Key

VARIABLES
    phase,     \* Timer -> what the port's user can observe of it
    delivered  \* timers some hand-over of which succeeded

contractVars == <<phase, delivered>>

Over == {"fired", "cancelled", "superseded", "given_up"}

Phase == {"none", "armed", "forgotten"} \cup Over

ContractInit ==
    /\ phase = [t \in Timer |-> "none"]
    /\ delivered = {}

Armed(k) == {t \in Timer : KeyOf[t] = k /\ phase[t] = "armed"}

New(k) == {t \in Timer : KeyOf[t] = k /\ phase[t] = "none"}

Arm(k) ==
    /\ Armed(k) = {}
    /\ \E t \in New(k) : phase' = [phase EXCEPT ![t] = "armed"]
    /\ UNCHANGED delivered

CancelKey(k) ==
    /\ phase' = [t \in Timer |-> IF t \in Armed(k) THEN "cancelled"
                                                   ELSE phase[t]]
    /\ UNCHANGED delivered

Move(k) ==
    /\ \E new \in New(k) :
         phase' = [t \in Timer |-> IF t \in Armed(k) THEN "superseded"
                                   ELSE IF t = new THEN "armed"
                                   ELSE phase[t]]
    /\ UNCHANGED delivered

HandOver(t) ==
    /\ phase[t] # "none"
    /\ delivered' = delivered \cup {t}
    /\ UNCHANGED phase

Fire(t) ==
    /\ phase[t] = "armed"
    /\ t \in delivered
    /\ phase' = [phase EXCEPT ![t] = "fired"]
    /\ UNCHANGED delivered

GiveUp(t) ==
    /\ phase[t] = "armed"
    /\ phase' = [phase EXCEPT ![t] = "given_up"]
    /\ UNCHANGED delivered

Forget(T) ==
    /\ \A t \in T : phase[t] \in Over \cup {"forgotten"}
    /\ phase' = [t \in Timer |-> IF t \in T THEN "forgotten" ELSE phase[t]]
    /\ UNCHANGED delivered

ContractNext ==
    \/ \E k \in Key : Arm(k) \/ CancelKey(k) \/ Move(k)
    \/ \E t \in Timer : HandOver(t) \/ Fire(t) \/ GiveUp(t)
    \/ \E T \in SUBSET Timer : Forget(T)

ContractSpec == ContractInit /\ [][ContractNext]_contractVars
=============================================================================
