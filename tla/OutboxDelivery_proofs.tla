------------------------ MODULE OutboxDelivery_proofs ------------------------
(***************************************************************************)
(* The two consumers of the inbox's events, for any number of events,      *)
(* workers, crashes, lapsed leases and requests to put an event back: the  *)
(* relay that publishes them to the realtime bus, and the automation       *)
(* ingress that runs plans on them, for any automations, plans and cap.    *)
(* The queue's part comes from the lemmas on the lease protocol.           *)
(***************************************************************************)
EXTENDS OutboxRelay, AutomationDelivery, LeasedQueue_proofs

USE QueueAssumption, RelayAssumption DEF Terminal, Status, Outcome

(* The relay.  Unlike a timer, an event can come back after it was         *)
(* settled: what the relay adds to the lease protocol has to be shown not  *)
(* to confuse two lives of an event.                                       *)

\* Without cancellation, a row in hand whose lease never ran out under a live
\* worker is held, or was deleted by a prune that had selected it before it
\* was put back.
HeldOrDeleted ==
    lapses = 0 =>
        \A w \in Worker, e \in Row :
            job[w] = e \/ e \in batch[w] =>
                (Holds(w, e) /\ e \notin stale) \/ status[e] = "deleted"

RelayOverlapInv ==
    InHandOnce /\ InHandExists /\ HeldOrDeleted /\ NoOverlapWithoutLapse

FenceInv == LeaseFencing /\ LockedIffProcessing /\ DeadOnlyAtCap

SuccessInv == SuccessNoted /\ DoneOnlyAfterSuccess

RelayInv ==
    RelayTypeOK /\ FenceInv /\ SuccessInv /\ RelayOverlapInv /\ HolderIsCurrent

(***************************************************************************)
(* What publishing may come to is an outcome the protocol knows.           *)
(***************************************************************************)
LEMMA RelayReturns == {"ok", "skip", "failed"} \in SUBSET Outcome
BY DEF Outcome

(***************************************************************************)
(* Until a lease runs out under a live relay, a claimed event is its       *)
(* claimant's until it is settled or deleted.                              *)
(***************************************************************************)
LEMMA RelayOverlapStep ==
    ASSUME QueueTypeOK, NEW Returns \in SUBSET Outcome, QueueNext(Returns),
           RelayOverlapInv
    PROVE  RelayOverlapInv'
<1> USE DEF QueueTypeOK, RelayOverlapInv, InHandOnce, InHandExists,
            HeldOrDeleted, NoOverlapWithoutLapse, Holds
<1>1. CASE \E w \in Worker : WorkerStep(w, Returns)
  <2> SUFFICES ASSUME NEW w \in Worker, WorkerStep(w, Returns)
               PROVE  RelayOverlapInv'
      BY <1>1
  <2>1. CASE \E S \in SUBSET Row : Claim(w, S)
        BY <2>1 DEF Claim, Claimable, Idle
  <2>2. CASE \E e \in Row : Start(w, e) \/ PassOver(w, e)
        BY <2>2 DEF Start, PassOver
  <2>3. CASE \E o \in Returns : HandlerReturns(w, o)
        BY <2>3 DEF HandlerReturns
  <2>4. CASE SettleDone(w) \/ SettleSkipped(w)
        BY <2>4 DEF SettleDone, SettleSkipped, WriteBack, ForgetJob
  <2>5. CASE SettleFailure(w)
    <3>1. CASE WriteBack(w, "dead")
          BY <2>5, <3>1 DEF SettleFailure, WriteBack, ForgetJob
    <3>2. CASE WriteBack(w, "waiting")
          BY <2>5, <3>2 DEF SettleFailure, WriteBack, ForgetJob
    <3> QED
        BY <2>5, <3>1, <3>2 DEF SettleFailure
  <2>6. CASE SettleThrows(w)
        BY <2>6 DEF SettleThrows
  <2>7. CASE Abandon(w)
        BY <2>7 DEF Abandon, ForgetJob
  <2>8. CASE PruneSelect(w) \/ PruneDelete(w)
        BY <2>8 DEF PruneSelect, PruneDelete
  <2> QED
      BY <2>1, <2>2, <2>3, <2>4, <2>5, <2>6, <2>7, <2>8 DEF WorkerStep
<1>2. CASE TimeStep
      BY <1>2 DEF TimeStep, BecomesReady, LeaseOfAbandonedRow,
                  LeaseOfSlowWorker, LeaseRunsOut, RetentionEnds, InHand
<1> QED
    BY <1>1, <1>2 DEF QueueNext

(***************************************************************************)
(* A relay that holds an event read it in its current life: it re-reads    *)
(* the row when it starts, and loses it when the event is put back.        *)
(***************************************************************************)
LEMMA RelayStepKeepsHolder ==
    ASSUME RelayTypeOK, FenceInv', HolderIsCurrent, RelayStep
    PROVE  HolderIsCurrent'
<1> SUFFICES ASSUME NEW w \in Worker, job'[w] # NoOne, Holds(w, job[w])'
             PROVE  /\ seen'[w] = attempts'[job'[w]]
                    /\ round'[w] = requeued'[job'[w]]
    BY DEF HolderIsCurrent
<1>1. seen'[w] = attempts'[job'[w]]
      BY DEF FenceInv, LeaseFencing
<1>2. CASE job[w] = NoOne
      BY <1>1, <1>2 DEF RelayStep
<1>3. CASE job[w] # NoOne
  <2>1. job'[w] = job[w] /\ Holds(w, job[w])
        BY <1>3, HoldStep, RelayReturns DEF RelayStep, RelayTypeOK, Holds
  <2>2. round'[w] = round[w] /\ requeued' = requeued
        BY <1>3, <2>1 DEF RelayStep
  <2> QED
      BY <1>1, <1>3, <2>1, <2>2 DEF HolderIsCurrent
<1> QED
    BY <1>2, <1>3

(***************************************************************************)
(* The inductive invariant holds while the outbox is empty.                *)
(***************************************************************************)
LEMMA RelayInitially == RelayInit => RelayInv
BY QueueInitially
   DEF RelayInit, QueueInit, RelayInv, RelayTypeOK, FenceInv, SuccessInv,
       RelayOverlapInv, HeldOrDeleted, OverlapInv, HolderIsCurrent

(***************************************************************************)
(* Every step of the relays preserves it, by the lemmas on the protocol.   *)
(***************************************************************************)
LEMMA RelayWorkerInductive ==
    ASSUME RelayInv, RelayStep
    PROVE  RelayInv'
<1> QueueNext({"ok", "skip", "failed"})
    BY DEF RelayStep
<1>1. RelayTypeOK'
  <2>1. QueueTypeOK'
        BY TypeStep, RelayReturns DEF RelayInv, RelayTypeOK
  <2>2. round' \in [Worker -> 0 .. MaxReprocess]
        BY <2>1 DEF RelayInv, RelayTypeOK, RelayStep, QueueTypeOK
  <2> QED
      BY <2>1, <2>2 DEF RelayInv, RelayTypeOK, RelayStep
<1>2. FenceInv'
      BY FenceStep, RelayReturns DEF RelayInv, RelayTypeOK, FenceInv
<1>3. SuccessInv'
      BY SuccessStep, RelayReturns DEF RelayInv, RelayTypeOK, SuccessInv
<1>4. RelayOverlapInv'
      BY RelayOverlapStep, RelayReturns DEF RelayInv, RelayTypeOK
<1>5. HolderIsCurrent'
      BY <1>2, RelayStepKeepsHolder DEF RelayInv
<1> QED
    BY <1>1, <1>2, <1>3, <1>4, <1>5 DEF RelayInv

(***************************************************************************)
(* So do emitting an event and putting one back: neither touches an event  *)
(* that somebody may still write back.                                     *)
(***************************************************************************)
LEMMA OthersInductive ==
    ASSUME RelayInv, NEW e \in Row, Emit(e) \/ Reprocess(e)
    PROVE  RelayInv'
<1> USE DEF RelayInv, RelayTypeOK, QueueTypeOK, Holds
<1>1. RelayTypeOK'
      BY DEF Emit, Reprocess
<1>2. FenceInv'
      BY DEF Emit, Reprocess, FenceInv, LeaseFencing, LockedIffProcessing,
             DeadOnlyAtCap
<1>3. SuccessInv'
      BY DEF Emit, Reprocess, SuccessInv, SuccessNoted, DoneOnlyAfterSuccess
<1>4. RelayOverlapInv'
      BY DEF Emit, Reprocess, RelayOverlapInv, InHandOnce, InHandExists,
             HeldOrDeleted, NoOverlapWithoutLapse
<1>5. HolderIsCurrent'
      BY DEF Emit, Reprocess, HolderIsCurrent
<1> QED
    BY <1>1, <1>2, <1>3, <1>4, <1>5

(***************************************************************************)
(* The inductive invariant holds in every reachable state.                 *)
(***************************************************************************)
LEMMA RelayInvariance == RelaySpec => []RelayInv
<1>1. ASSUME RelayInv, [RelayNext]_relayVars
      PROVE  RelayInv'
  <2>1. CASE RelayStep
        BY <1>1, <2>1, RelayWorkerInductive
  <2>2. CASE \E e \in Row : Emit(e) \/ Reprocess(e)
        BY <1>1, <2>2, OthersInductive
  <2>3. CASE UNCHANGED relayVars
        BY <1>1, <2>3
           DEF relayVars, queueVars, RelayInv, RelayTypeOK, QueueTypeOK,
               FenceInv,
               LeaseFencing, LockedIffProcessing, DeadOnlyAtCap, SuccessInv,
               SuccessNoted, DoneOnlyAfterSuccess, RelayOverlapInv,
               InHandOnce, InHandExists, HeldOrDeleted, NoOverlapWithoutLapse,
               HolderIsCurrent, Holds
  <2> QED
      BY <1>1, <2>1, <2>2, <2>3 DEF RelayNext
<1> QED
    BY <1>1, RelayInitially, PTL DEF RelaySpec

-----------------------------------------------------------------------------
(***************************************************************************)
(* Every column and every relay's local keeps its type.                    *)
(***************************************************************************)
THEOREM RelayTypeCorrect == RelaySpec => []RelayTypeOK
<1>1. RelayInv => RelayTypeOK
      BY DEF RelayInv
<1> QED
    BY <1>1, RelayInvariance, PTL

(***************************************************************************)
(* Whoever may write an event back has read its latest attempt in its      *)
(* current round, although attempt numbers repeat.                         *)
(***************************************************************************)
THEOREM HoldersAreCurrent == RelaySpec => []HolderIsCurrent
<1>1. RelayInv => HolderIsCurrent
      BY DEF RelayInv
<1> QED
    BY <1>1, RelayInvariance, PTL

(***************************************************************************)
(* An event is marked published only after the bus took it.                *)
(***************************************************************************)
THEOREM PublishedWasPublished == RelaySpec => []DoneOnlyAfterSuccess
<1>1. RelayInv => DoneOnlyAfterSuccess
      BY DEF RelayInv, SuccessInv
<1> QED
    BY <1>1, RelayInvariance, PTL

(***************************************************************************)
(* Two relays publish the same event at once only if a lease ran out under *)
(* one of them.                                                            *)
(***************************************************************************)
THEOREM RelayExclusion == RelaySpec => []NoOverlapWithoutLapse
<1>1. RelayInv => NoOverlapWithoutLapse
      BY DEF RelayInv, RelayOverlapInv
<1> QED
    BY <1>1, RelayInvariance, PTL

(***************************************************************************)
(* A published event is never taken back into the queue.                   *)
(***************************************************************************)
THEOREM PublishedForGood == RelaySpec => PublishedStays
<1>1. RelayInv /\ [RelayNext]_relayVars =>
        [\A e \in Row : status[e] = "done" =>
                          status'[e] \in {"done", "deleted"}]_relayVars
  <2> SUFFICES ASSUME RelayInv, RelayNext
               PROVE  \A e \in Row : status[e] = "done" =>
                                       status'[e] \in {"done", "deleted"}
      OBVIOUS
  <2>1. CASE RelayStep
    <3>1. QueueTypeOK /\ QueueNext({"ok", "skip", "failed"})
          BY <2>1 DEF RelayInv, RelayTypeOK, RelayStep
    <3> QED
        BY <3>1, SettledStep, RelayReturns
  <2>2. CASE \E e \in Row : Emit(e) \/ Reprocess(e)
        BY <2>2 DEF RelayInv, RelayTypeOK, QueueTypeOK, Emit, Reprocess
  <2> QED
      BY <2>1, <2>2 DEF RelayNext
<1> QED
    BY <1>1, RelayInvariance, PTL DEF RelaySpec, PublishedStays

-----------------------------------------------------------------------------
(* The automation ingress: what the handler's loop leaves behind.          *)

USE AutomationAssumption

\* An automation is in execution only for a mapped event, within its plan.
ExecutingMapped ==
    \A w \in Worker : current[w] # Nobody =>
        job[w] \in mapped /\ position[w] \in 0 .. Len(Plan[current[w]])

\* The actions a worker has gone through have landed.
PrefixApplied ==
    \A w \in Worker : current[w] # Nobody =>
        \A i \in 1 .. position[w] : <<job[w], current[w], i>> \in applied

\* The loop has left a run behind for every automation it is through with.
LoopRecorded ==
    \A w \in Worker, a \in Automation :
        /\ job[w] # NoOne /\ a \notin todo[w] =>
             <<job[w], a>> \in live \cup shadow
        /\ outcome[w] = "ok" => <<job[w], a>> \in live \cup shadow

\* Only unmapped events are skipped, and nothing is done for them.
OnlyMappedAct ==
    /\ \A h \in live \cup shadow : h[1] \in mapped
    /\ \A e \in applied : e[1] \in mapped
    /\ \A w \in Worker : outcome[w] = "skip" => job[w] \notin mapped
    /\ \A r \in Row : status[r] = "skipped" => r \notin mapped

AutomationInv ==
    /\ TypeOK
    /\ ExecutingMapped /\ PrefixApplied /\ LoopRecorded /\ OnlyMappedAct
    /\ DeliveredIsRecorded /\ EffectsFollowThePlan

(***************************************************************************)
(* Whatever the handler may come to is an outcome the protocol knows.      *)
(***************************************************************************)
LEMMA HandlerReturnsKnown == \A w \in Worker : MayReturn(w) \in SUBSET Outcome
BY DEF MayReturn, Outcome

(***************************************************************************)
(* The inductive invariant holds before the first event.                   *)
(***************************************************************************)
LEMMA AutomationInitially == Init => AutomationInv
<1> SUFFICES ASSUME Init
             PROVE  AutomationInv
    OBVIOUS
<1>1. TypeOK
      BY QueueInitially DEF Init, TypeOK
<1>2. /\ ExecutingMapped /\ PrefixApplied /\ LoopRecorded /\ OnlyMappedAct
      /\ DeliveredIsRecorded /\ EffectsFollowThePlan
      BY DEF Init, QueueInit, ExecutingMapped, PrefixApplied, LoopRecorded,
             OnlyMappedAct, DeliveredIsRecorded, EffectsFollowThePlan
<1> QED
    BY <1>1, <1>2 DEF AutomationInv

(***************************************************************************)
(* A shadow run is recorded for a mapped event.                            *)
(***************************************************************************)
LEMMA ShadowRunKeeps ==
    ASSUME AutomationInv, NEW w \in Worker, NEW a \in Automation,
           RecordShadowRun(w, a)
    PROVE  AutomationInv'
<1> USE DEF AutomationInv, TypeOK, QueueTypeOK, RecordShadowRun, InLoop,
            queueVars
<1>1. <<job[w], a>> \in Run
      BY DEF Run
<1>2. TypeOK'
      BY <1>1
<1>3. (ExecutingMapped /\ PrefixApplied /\ EffectsFollowThePlan)'
      BY DEF ExecutingMapped, PrefixApplied, EffectsFollowThePlan
<1>4. (LoopRecorded /\ DeliveredIsRecorded)'
      BY DEF LoopRecorded, DeliveredIsRecorded
<1>5. OnlyMappedAct'
      BY DEF OnlyMappedAct
<1> QED
    BY <1>2, <1>3, <1>4, <1>5

(***************************************************************************)
(* Passing the gate starts a plan at its first action.                     *)
(***************************************************************************)
LEMMA PassGateKeeps ==
    ASSUME AutomationInv, NEW w \in Worker, NEW a \in Automation, PassGate(w, a)
    PROVE  AutomationInv'
<1> USE DEF AutomationInv, TypeOK, QueueTypeOK, PassGate, InLoop, queueVars,
            runVars
<1>1. TypeOK'
      OBVIOUS
<1>2. ExecutingMapped'
  <2>1. Len(Plan[a]) \in Nat
        OBVIOUS
  <2> QED
      BY <2>1 DEF ExecutingMapped
<1>3. (PrefixApplied /\ EffectsFollowThePlan)'
      BY DEF PrefixApplied, EffectsFollowThePlan
<1>4. (LoopRecorded /\ DeliveredIsRecorded /\ OnlyMappedAct)'
      BY DEF LoopRecorded, DeliveredIsRecorded, OnlyMappedAct
<1> QED
    BY <1>1, <1>2, <1>3, <1>4

(***************************************************************************)
(* The next effect lands behind those that have landed.                    *)
(***************************************************************************)
LEMMA ConfirmedKeeps ==
    ASSUME AutomationInv, NEW w \in Worker, Confirmed(w)
    PROVE  AutomationInv'
<1> DEFINE e == <<job[w], current[w], position[w] + 1>>
<1> USE DEF AutomationInv, TypeOK, QueueTypeOK, Confirmed, Executing, queueVars
<1>1. /\ job[w] \in mapped /\ current[w] \in Automation
      /\ position[w] \in Nat /\ e \in Effect
  <2>1. /\ job[w] \in mapped /\ job[w] \in Row
        /\ current[w] \in Automation
        BY DEF ExecutingMapped
  <2>2. position[w] \in Nat /\ Len(Plan[current[w]]) \in Nat
        BY <2>1
  <2>3. position[w] + 1 \in 1 .. Len(Plan[current[w]])
        BY <2>2
  <2> HIDE DEF TypeOK, QueueTypeOK
  <2> QED
      BY <2>1, <2>2, <2>3 DEF Effect
<1>2. TypeOK'
  <2>1. position' \in [Worker -> Nat]
        BY <1>1
  <2>2. applied' = applied \cup {e}
        OBVIOUS
  <2>3. applied' \subseteq Effect
        BY <1>1, <2>2
  <2> QED
      BY <2>1, <2>3
<1>3. ExecutingMapped'
      BY <1>1 DEF ExecutingMapped
<1>4. PrefixApplied'
  <2> SUFFICES ASSUME NEW v \in Worker, current[v] # Nobody,
                      NEW i \in 1 .. position'[v]
               PROVE  <<job[v], current[v], i>> \in applied'
      BY DEF PrefixApplied
  <2>1. CASE v = w /\ i = position[w] + 1
        BY <2>1
  <2>2. CASE i \in 1 .. position[v]
        BY <2>2 DEF PrefixApplied
  <2> QED
      BY <1>1, <2>1, <2>2
<1>5. EffectsFollowThePlan'
  <2> SUFFICES ASSUME NEW f \in applied', NEW i \in 1 .. f[3]
               PROVE  <<f[1], f[2], i>> \in applied'
      BY DEF EffectsFollowThePlan
  <2>1. CASE f \in applied
        BY <2>1 DEF EffectsFollowThePlan
  <2>2. CASE f = e /\ i = position[w] + 1
        BY <2>2
  <2>3. CASE f = e /\ i \in 1 .. position[w]
        BY <2>3 DEF PrefixApplied
  <2> QED
      BY <1>1, <2>1, <2>2, <2>3
<1>6. (LoopRecorded /\ DeliveredIsRecorded)'
      BY DEF LoopRecorded, DeliveredIsRecorded
<1>7. OnlyMappedAct'
      BY <1>1 DEF OnlyMappedAct
<1> QED
    BY <1>2, <1>3, <1>4, <1>5, <1>6, <1>7

(***************************************************************************)
(* What ran is recorded for the event and the automation it ran for.       *)
(***************************************************************************)
LEMMA LiveRunKeeps ==
    ASSUME AutomationInv, NEW w \in Worker, RecordLiveRun(w)
    PROVE  AutomationInv'
<1> USE DEF AutomationInv, TypeOK, QueueTypeOK, RecordLiveRun, Executing,
            queueVars
<1>1. job[w] \in mapped /\ <<job[w], current[w]>> \in Run
      BY DEF ExecutingMapped, Run
<1>2. TypeOK'
      BY <1>1
<1>3. (ExecutingMapped /\ PrefixApplied /\ EffectsFollowThePlan)'
      BY DEF ExecutingMapped, PrefixApplied, EffectsFollowThePlan
<1>4. (LoopRecorded /\ DeliveredIsRecorded)'
      BY DEF LoopRecorded, DeliveredIsRecorded
<1>5. OnlyMappedAct'
      BY <1>1 DEF OnlyMappedAct
<1> QED
    BY <1>2, <1>3, <1>4, <1>5

(***************************************************************************)
(* A new delivery, time and a stutter change no loop and no outcome.       *)
(***************************************************************************)
LEMMA AutomationOtherKeeps ==
    ASSUME AutomationInv,
           \/ \E r \in Row : Deliver(r)
           \/ TimeStep /\ UNCHANGED <<handlerVars, runVars, mapped>>
           \/ UNCHANGED autoVars
    PROVE  AutomationInv'
<1> USE DEF AutomationInv, TypeOK, handlerVars, runVars
<1>1. /\ UNCHANGED <<job, outcome, todo, current, position, live, shadow,
                     applied, mapped>>
      /\ \A r \in Row : status'[r] \in {"done", "skipped"} =>
           status'[r] = status[r]
      BY DEF Deliver, TimeStep, BecomesReady, LeaseOfAbandonedRow,
             LeaseOfSlowWorker, LeaseRunsOut, RetentionEnds, autoVars,
             queueVars, QueueTypeOK
<1>2. QueueTypeOK'
  <2>1. CASE \E r \in Row : Deliver(r)
        BY <2>1 DEF Deliver, QueueTypeOK
  <2>2. CASE TimeStep
        BY <2>2, TypeStep DEF QueueNext
  <2>3. CASE UNCHANGED autoVars
        BY <2>3 DEF autoVars, queueVars, QueueTypeOK
  <2> QED
      BY <2>1, <2>2, <2>3
<1>3. TypeOK'
      BY <1>1, <1>2
<1>4. (ExecutingMapped /\ PrefixApplied /\ EffectsFollowThePlan)'
      BY <1>1 DEF ExecutingMapped, PrefixApplied, EffectsFollowThePlan
<1>5. (LoopRecorded /\ DeliveredIsRecorded)'
      BY <1>1 DEF LoopRecorded, DeliveredIsRecorded
<1>6. OnlyMappedAct'
      BY <1>1 DEF OnlyMappedAct
<1> QED
    BY <1>3, <1>4, <1>5, <1>6

(***************************************************************************)
(* The queue's steps leave runs and effects alone: they end a loop, begin  *)
(* one, or settle what a finished loop has recorded.                       *)
(***************************************************************************)
LEMMA AutomationQueueKeeps ==
    ASSUME AutomationInv, NEW w \in Worker, WorkerStep(w, MayReturn(w)),
           IF job'[w] = job[w] /\ outcome'[w] = outcome[w]
             THEN UNCHANGED handlerVars
             ELSE FreshLocals(w),
           UNCHANGED <<runVars, mapped>>
    PROVE  AutomationInv'
<1> USE DEF AutomationInv, TypeOK, QueueTypeOK, handlerVars, runVars
<1>1. QueueNext(MayReturn(w)) /\ MayReturn(w) \in SUBSET Outcome
      BY HandlerReturnsKnown DEF QueueNext
<1>2. /\ \A r \in Row : status'[r] = "done" =>
            status[r] = "done" \/ (job[w] = r /\ outcome[w] = "ok")
      /\ \A r \in Row : status'[r] = "skipped" =>
            status[r] = "skipped" \/ (job[w] = r /\ outcome[w] = "skip")
      /\ \A v \in Worker : v # w =>
            job'[v] = job[v] /\ outcome'[v] = outcome[v]
      /\ \/ job'[w] = job[w] /\ outcome'[w] = outcome[w]
         \/ outcome'[w] \in {"running", "failed"}
         \/ /\ job'[w] = job[w] /\ job[w] # NoOne
            /\ outcome[w] = "running" /\ outcome'[w] \in MayReturn(w)
      BY <1>1, SettleStep
<1>3. QueueTypeOK'
      BY <1>1, TypeStep
<1>4. /\ todo' \in [Worker -> SUBSET Automation]
      /\ current' \in [Worker -> Automation \cup {Nobody}]
      /\ position' \in [Worker -> Nat]
  <2>1. CASE UNCHANGED handlerVars
        BY <2>1
  <2>2. CASE FreshLocals(w)
        BY <2>2 DEF FreshLocals
  <2> QED
      BY <2>1, <2>2
<1>5. \A v \in Worker :
         \/ /\ job'[v] = job[v] /\ outcome'[v] = outcome[v]
            /\ current'[v] = current[v] /\ position'[v] = position[v]
            /\ todo'[v] = todo[v]
         \/ v = w /\ current'[w] = Nobody /\ todo'[w] = Automation
      BY <1>2 DEF FreshLocals
<1>6. (ExecutingMapped /\ PrefixApplied /\ EffectsFollowThePlan)'
      BY <1>5 DEF ExecutingMapped, PrefixApplied, EffectsFollowThePlan
<1>7. LoopRecorded'
  <2>1. ASSUME NEW v \in Worker, NEW a \in Automation,
               job'[v] # NoOne, a \notin todo'[v]
        PROVE  <<job'[v], a>> \in live \cup shadow
        BY <1>5, <2>1 DEF LoopRecorded
  <2>2. ASSUME NEW v \in Worker, NEW a \in Automation, outcome'[v] = "ok"
        PROVE  <<job'[v], a>> \in live \cup shadow
    <3>1. CASE outcome[v] = "ok" /\ job'[v] = job[v]
          BY <3>1 DEF LoopRecorded
    <3>2. CASE v = w /\ job'[w] = job[w] /\ job[w] # NoOne /\ todo[w] = {}
          BY <3>2 DEF LoopRecorded
    <3> QED
        BY <1>2, <2>2, <3>1, <3>2 DEF MayReturn
  <2> QED
      BY <2>1, <2>2 DEF LoopRecorded
<1>8. DeliveredIsRecorded'
      BY <1>2 DEF LoopRecorded, DeliveredIsRecorded
<1>9. OnlyMappedAct'
  <2>1. \A v \in Worker : outcome'[v] = "skip" => job'[v] \notin mapped
        BY <1>2 DEF OnlyMappedAct, MayReturn
  <2>2. \A r \in Row : status'[r] = "skipped" => r \notin mapped
        BY <1>2 DEF OnlyMappedAct
  <2> QED
      BY <2>1, <2>2 DEF OnlyMappedAct
<1> QED
    BY <1>3, <1>4, <1>6, <1>7, <1>8, <1>9

(***************************************************************************)
(* The inductive invariant holds in every reachable state.                 *)
(***************************************************************************)
LEMMA AutomationInvariance == Spec => []AutomationInv
<1>1. ASSUME AutomationInv, [Next]_autoVars
      PROVE  AutomationInv'
  <2>1. CASE QueueStep
        BY <1>1, <2>1, AutomationQueueKeeps, AutomationOtherKeeps
           DEF QueueStep
  <2>2. CASE \E w \in Worker : HandlerStep(w)
        BY <1>1, <2>2, ShadowRunKeeps, PassGateKeeps, ConfirmedKeeps,
           LiveRunKeeps DEF HandlerStep
  <2>3. CASE (\E r \in Row : Deliver(r)) \/ UNCHANGED autoVars
        BY <1>1, <2>3, AutomationOtherKeeps
  <2> QED
      BY <1>1, <2>1, <2>2, <2>3 DEF Next
<1> QED
    BY <1>1, AutomationInitially, PTL DEF Spec

-----------------------------------------------------------------------------
(***************************************************************************)
(* Every column, local, run and effect keeps its type.                     *)
(***************************************************************************)
THEOREM AutomationTypeCorrect == Spec => []TypeOK
<1>1. AutomationInv => TypeOK
      BY DEF AutomationInv
<1> QED
    BY <1>1, AutomationInvariance, PTL

(***************************************************************************)
(* A delivery is acknowledged only with a run for every automation.        *)
(***************************************************************************)
THEOREM DeliveredRecorded == Spec => []DeliveredIsRecorded
<1>1. AutomationInv => DeliveredIsRecorded
      BY DEF AutomationInv
<1> QED
    BY <1>1, AutomationInvariance, PTL

(***************************************************************************)
(* No effect lands before the earlier effects of its plan.                 *)
(***************************************************************************)
THEOREM PlanOrder == Spec => []EffectsFollowThePlan
<1>1. AutomationInv => EffectsFollowThePlan
      BY DEF AutomationInv
<1> QED
    BY <1>1, AutomationInvariance, PTL

(***************************************************************************)
(* A skipped delivery had no effect and left no run.                       *)
(***************************************************************************)
THEOREM SkippedInert == Spec => []SkippedIsInert
<1>1. AutomationInv => SkippedIsInert
      BY DEF AutomationInv, OnlyMappedAct, SkippedIsInert
<1> QED
    BY <1>1, AutomationInvariance, PTL
=============================================================================
