------------------------- MODULE AutomationDelivery -------------------------
(***************************************************************************)
(* From a delivered domain event to the effects of the automations it      *)
(* triggers: LeadFlowAutomationEventIngressService drains the deliveries   *)
(* of one consumer (a leased queue), its handler evaluates every matching  *)
(* automation in turn, asks the execution gate, has executors carry out    *)
(* the planned actions, and records what happened as a run.                *)
(*                                                                         *)
(* Executors belong to other domains, which apply an effect at most once   *)
(* per idempotency key (event, automation, action); here an effect is that *)
(* key, `applied' once its domain confirmed it.                            *)
(***************************************************************************)
EXTENDS LeasedQueue, Sequences

CONSTANTS
    Automation,   \* published automations that match a mapped event
    Plan,         \* Automation -> sequence of its planned actions
    MaxPerHour,   \* the gate's cap on live runs of one automation
    Nobody        \* no automation in execution

ASSUME AutomationAssumption ==
    /\ Nobody \notin Automation
    /\ Plan \in [Automation -> Seq(STRING)]
    /\ MaxPerHour \in Nat \ {0}

VARIABLES
    mapped,     \* deliveries whose event is mapped to an automation trigger
    todo,       \* Worker -> automations its loop has not reached
    current,    \* Worker -> the automation it is executing
    position,   \* Worker -> actions of the plan it has confirmed
    live,       \* live runs: <<delivery, automation>>
    shadow,     \* shadow runs: <<delivery, automation>>
    applied     \* effects on the domains: <<delivery, automation, index>>

handlerVars == <<todo, current, position>>
runVars == <<live, shadow, applied>>
autoVars == <<queueVars, handlerVars, runVars, mapped>>

Run == Row \X Automation
Effect ==
    {e \in Row \X Automation \X Nat : e[3] \in 1 .. Len(Plan[e[2]])}

TypeOK ==
    /\ QueueTypeOK
    /\ mapped \subseteq Row
    /\ todo \in [Worker -> SUBSET Automation]
    /\ current \in [Worker -> Automation \cup {Nobody}]
    /\ position \in [Worker -> Nat]
    /\ live \subseteq Run /\ shadow \subseteq Run
    /\ applied \subseteq Effect

Init ==
    /\ QueueInit
    /\ mapped \in SUBSET Row
    /\ todo = [w \in Worker |-> Automation]
    /\ current = [w \in Worker |-> Nobody]
    /\ position = [w \in Worker |-> 0]
    /\ live = {} /\ shadow = {} /\ applied = {}

\* The fan-out trigger inserts one delivery per consumer and source event.
Deliver(r) ==
    /\ status[r] = "unborn"
    /\ status' = [status EXCEPT ![r] = "waiting"]
    /\ ready' = ready \cup {r}
    /\ UNCHANGED <<owner, attempts, stale, expired, batch, job, seen, outcome,
                   doomed, served, abandons, lapses, handlerVars, runVars,
                   mapped>>

-----------------------------------------------------------------------------
(* The handler, evaluateDelivery and execute.                              *)

InLoop(w) == job[w] \in mapped /\ outcome[w] = "running" /\ current[w] = Nobody

\* Every attempt of a delivery starts the loop, and the counts, afresh.
FreshLocals(w) ==
    /\ todo' = [todo EXCEPT ![w] = Automation]
    /\ current' = [current EXCEPT ![w] = Nobody]
    /\ position' = [position EXCEPT ![w] = 0]

\* The verdict is not to act (context changed, automation paused, an executor
\* unavailable), or the gate refuses: a shadow run, once per event and
\* automation.
RecordShadowRun(w, a) ==
    /\ InLoop(w) /\ a \in todo[w]
    /\ shadow' = shadow \cup {<<job[w], a>>}
    /\ todo' = [todo EXCEPT ![w] = @ \ {a}]
    /\ UNCHANGED <<queueVars, current, position, live, applied, mapped>>

RecentLiveRuns(a) == {r \in Row : <<r, a>> \in live}

\* The gate counts the live runs on record, takes no lock, and lets go.
PassGate(w, a) ==
    /\ InLoop(w) /\ a \in todo[w]
    /\ Cardinality(RecentLiveRuns(a)) < MaxPerHour
    /\ current' = [current EXCEPT ![w] = a]
    /\ position' = [position EXCEPT ![w] = 0]
    /\ UNCHANGED <<queueVars, todo, runVars, mapped>>

\* The next action of the plan is confirmed by its domain.
Executing(w) == current[w] # Nobody /\ outcome[w] = "running"

\* Mutant of Confirmed: the sequence goes on after an effect that failed.
ConfirmedOrNot(w) ==
    /\ Executing(w)
    /\ position[w] < Len(Plan[current[w]])
    /\ applied' \in {applied,
                     applied \cup {<<job[w], current[w], position[w] + 1>>}}
    /\ position' = [position EXCEPT ![w] = @ + 1]
    /\ UNCHANGED <<queueVars, todo, current, live, shadow, mapped>>

Confirmed(w) ==
    /\ Executing(w)
    /\ position[w] < Len(Plan[current[w]])
    /\ applied' = applied \cup {<<job[w], current[w], position[w] + 1>>}
    /\ position' = [position EXCEPT ![w] = @ + 1]
    /\ UNCHANGED <<queueVars, todo, current, live, shadow, mapped>>

\* Mutant of RecordLiveRun: the run key leaves the automation out.
RecordLiveRunOfEvent(w) ==
    /\ Executing(w)
    /\ live' = live \cup {<<job[w]>>}
    /\ todo' = [todo EXCEPT ![w] = @ \ {current[w]}]
    /\ current' = [current EXCEPT ![w] = Nobody]
    /\ position' = [position EXCEPT ![w] = 0]
    /\ UNCHANGED <<queueVars, shadow, applied, mapped>>

\* The sequence is over, or stopped at an effect that was refused or failed.
\* What ran is recorded, once per event and automation.
RecordLiveRun(w) ==
    /\ Executing(w)
    /\ live' = live \cup {<<job[w], current[w]>>}
    /\ todo' = [todo EXCEPT ![w] = @ \ {current[w]}]
    /\ current' = [current EXCEPT ![w] = Nobody]
    /\ position' = [position EXCEPT ![w] = 0]
    /\ UNCHANGED <<queueVars, shadow, applied, mapped>>

HandlerStep(w) ==
    \/ \E a \in Automation : RecordShadowRun(w, a) \/ PassGate(w, a)
    \/ Confirmed(w)
    \/ RecordLiveRun(w)

\* Mutant of MayReturn: acknowledged after the first automation that ran.
MayReturnAnyTime(w) ==
    {"failed", IF job[w] \in mapped THEN "ok" ELSE "skip"}

\* An unmapped event is skipped; a mapped one is acknowledged once the loop
\* is through; any query on the way may throw.
MayReturn(w) ==
    {"failed"} \cup (IF job[w] \notin mapped THEN {"skip"}
                     ELSE IF todo[w] = {} THEN {"ok"} ELSE {})

QueueStep ==
    /\ \/ \E w \in Worker :
            /\ WorkerStep(w, MayReturn(w))
            /\ IF job'[w] = job[w] /\ outcome'[w] = outcome[w]
                 THEN UNCHANGED handlerVars
                 ELSE FreshLocals(w)
       \/ TimeStep /\ UNCHANGED handlerVars
    /\ UNCHANGED <<runVars, mapped>>

\* The event catalogue is code: what is mapped stays mapped.
Next ==
    \/ QueueStep
    \/ \E w \in Worker : HandlerStep(w)
    \/ \E r \in Row : Deliver(r)

Spec == Init /\ [][Next]_autoVars

-----------------------------------------------------------------------------
(***************************************************************************)
(* Acknowledged means evaluated: a delivery is settled as delivered only   *)
(* when every matching automation has a run for it, live or shadow, even   *)
(* if attempts of several workers were interleaved or cut short.           *)
(***************************************************************************)
DeliveredIsRecorded ==
    \A r \in Row, a \in Automation :
        status[r] = "done" => <<r, a>> \in live \cup shadow

(***************************************************************************)
(* A later action acts only on landed effects: whatever is retried, an     *)
(* effect is applied only if all earlier actions of its plan were.         *)
(***************************************************************************)
EffectsFollowThePlan ==
    \A e \in applied : \A i \in 1 .. e[3] : <<e[1], e[2], i>> \in applied

(***************************************************************************)
(* A skipped delivery had no effect and left no run.                       *)
(***************************************************************************)
SkippedIsInert ==
    \A r \in Row : status[r] = "skipped" =>
        /\ \A a \in Automation : <<r, a>> \notin live \cup shadow
        /\ \A e \in applied : e[1] # r
=============================================================================
