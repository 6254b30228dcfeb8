----------------------- MODULE SchedulerRuntime_proofs -----------------------
(***************************************************************************)
(* The durable clock is correct for any number of timers, keys, workers    *)
(* and callers.  The poller's part of each proof is a lemma of             *)
(* LeasedQueue_proofs; what is proved here is that schedule, cancel and    *)
(* reschedule preserve the same invariants.                                *)
(***************************************************************************)
EXTENDS SchedulerRuntime, LeasedQueue_proofs

USE SchedulerAssumption

QueueInv ==
    /\ QueueTypeOK
    /\ LeaseFencing /\ LockedIffProcessing /\ DeadOnlyAtCap
    /\ SuccessNoted /\ DoneOnlyAfterSuccess
    /\ CondemnedAreSettled
    /\ OverlapInv

IInv == TypeOK /\ QueueInv /\ OneActivePerKey

(***************************************************************************)
(* What a consumer may return is an outcome the protocol knows.            *)
(***************************************************************************)
LEMMA ReturnsAreOutcomes == {"ok", "failed"} \in SUBSET Outcome
BY DEF Outcome

(***************************************************************************)
(* The poller preserves the protocol's invariants.                         *)
(***************************************************************************)
LEMMA PollerKeepsQueueInv ==
    ASSUME QueueInv, QueueStep
    PROVE  QueueInv'
BY ReturnsAreOutcomes, TypeStep, FenceStep, SuccessStep, CondemnedStep,
   OverlapStep
   DEF QueueStep, QueueInv

(***************************************************************************)
(* The operations of the port preserve them: they touch only rows that are *)
(* unborn or active, and leave workers alone.                              *)
(***************************************************************************)
LEMMA PortKeepsQueueInv ==
    ASSUME TypeOK, QueueInv, PortStep
    PROVE  QueueInv'
<1> USE DEF TypeOK, QueueInv, QueueTypeOK, LeaseFencing, LockedIffProcessing,
            DeadOnlyAtCap, SuccessNoted, DoneOnlyAfterSuccess,
            CondemnedAreSettled, OverlapInv, InHandOnce, InHandExists,
            HeldOrSettled, NoOverlapWithoutLapse, Holds, Terminal, Status,
            Active, ActiveTimers, TimersOf, FreshIds
<1>1. ASSUME NEW c \in Caller, ScheduleInsert(c)
      PROVE  QueueInv'
      BY <1>1 DEF ScheduleInsert, Insert
<1>2. ASSUME NEW c \in Caller,
             (\E k \in Key : ScheduleLookup(c, k)) \/ ScheduleConflict(c)
      PROVE  QueueInv'
      BY <1>2 DEF ScheduleLookup, ScheduleConflict, queueVars
<1>3. ASSUME NEW k \in Key, Cancel(k)
      PROVE  QueueInv'
      BY <1>3 DEF Cancel, Retire, Unlocked
<1>4. ASSUME NEW k \in Key, Reschedule(k)
      PROVE  QueueInv'
      BY <1>4 DEF Reschedule, Insert, Retire, Unlocked
<1> QED
    BY <1>1, <1>2, <1>3, <1>4 DEF PortStep

(***************************************************************************)
(* The inductive invariant holds when the table is empty and no worker has *)
(* anything in hand.                                                       *)
(***************************************************************************)
LEMMA Initially == Init => IInv
BY QueueInitially
   DEF Init, IInv, QueueInv, TypeOK, OneActivePerKey, QueueInit, Active

(***************************************************************************)
(* Every step of the clock, of its callers and of time preserves it: the   *)
(* poller by the lemmas on the protocol; the port because it touches only  *)
(* unborn and active rows, inserts only where the unique index allows it,  *)
(* and a reschedule retires the active timer in the same transaction.      *)
(***************************************************************************)
LEMMA Inductive == IInv /\ [Next]_schedVars => IInv'
<1> SUFFICES ASSUME IInv, [Next]_schedVars
             PROVE  IInv'
    OBVIOUS
<1>1. CASE QueueStep
  <2>1. QueueInv'
        BY <1>1, PollerKeepsQueueInv DEF IInv
  <2>2. TypeOK'
        BY <1>1, <2>1 DEF IInv, TypeOK, QueueInv, QueueStep
  <2>3. OneActivePerKey'
        BY <1>1, ActiveStep, ReturnsAreOutcomes
           DEF IInv, QueueInv, QueueStep, OneActivePerKey
  <2> QED
      BY <2>1, <2>2, <2>3 DEF IInv
<1>2. CASE PortStep
  <2>1. QueueInv'
        BY <1>2, PortKeepsQueueInv DEF IInv
  <2>2. TypeOK'
        BY <1>2, <2>1
           DEF IInv, TypeOK, QueueInv, PortStep, ScheduleLookup,
               ScheduleInsert, ScheduleConflict, Cancel, Reschedule, FreshIds,
               TimersOf
  <2>3. OneActivePerKey'
    <3> USE DEF IInv, TypeOK, QueueTypeOK, OneActivePerKey, ActiveTimers,
                FreshIds, TimersOf, Active
    <3>1. ASSUME NEW c \in Caller, ScheduleInsert(c)
          PROVE  OneActivePerKey'
          BY <3>1 DEF ScheduleInsert, Insert
    <3>2. ASSUME NEW c \in Caller,
                 (\E k \in Key : ScheduleLookup(c, k)) \/ ScheduleConflict(c)
          PROVE  OneActivePerKey'
          BY <3>2 DEF ScheduleLookup, ScheduleConflict, queueVars
    <3>3. ASSUME NEW k \in Key, Cancel(k)
          PROVE  OneActivePerKey'
          BY <3>3 DEF Cancel, Retire
    <3>4. ASSUME NEW k \in Key, Reschedule(k)
          PROVE  OneActivePerKey'
      <4> PICK new \in FreshIds(k) :
                 status' = Insert(new, Retire(k, "superseded"))
          BY <3>4 DEF Reschedule
      <4>1. \A r \in Row : KeyOf[r] = k /\ Active(r)' => r = new
            BY DEF Insert, Retire
      <4>2. \A r \in Row : KeyOf[r] # k => (Active(r)' <=> Active(r))
            BY DEF Insert, Retire
      <4> QED
          BY <4>1, <4>2
    <3> QED
        BY <1>2, <3>1, <3>2, <3>3, <3>4 DEF PortStep
  <2> QED
      BY <2>1, <2>2, <2>3 DEF IInv
<1>3. CASE UNCHANGED schedVars
  <2> USE <1>3 DEF schedVars, queueVars
  <2>1. TypeOK'
        BY DEF IInv, TypeOK, QueueTypeOK
  <2>2. (LeaseFencing /\ LockedIffProcessing /\ DeadOnlyAtCap)'
        BY DEF IInv, QueueInv, LeaseFencing, LockedIffProcessing,
               DeadOnlyAtCap, Holds
  <2>3. (SuccessNoted /\ DoneOnlyAfterSuccess /\ CondemnedAreSettled)'
        BY DEF IInv, QueueInv, SuccessNoted, DoneOnlyAfterSuccess,
               CondemnedAreSettled
  <2>4. OverlapInv'
        BY DEF IInv, QueueInv, OverlapInv, InHandOnce, InHandExists,
               HeldOrSettled, NoOverlapWithoutLapse, Holds
  <2>5. OneActivePerKey'
        BY DEF IInv, OneActivePerKey, Active
  <2> QED
      BY <2>1, <2>2, <2>3, <2>4, <2>5 DEF IInv, QueueInv, TypeOK
<1> QED
    BY <1>1, <1>2, <1>3 DEF Next

(***************************************************************************)
(* So it holds in every reachable state.                                   *)
(***************************************************************************)
LEMMA Invariance == Spec => []IInv
BY Initially, Inductive, PTL DEF Spec

(***************************************************************************)
(* Every column and every worker's local keeps its type.                   *)
(***************************************************************************)
THEOREM TypeCorrect == Spec => []TypeOK
<1>1. IInv => TypeOK
      BY DEF IInv
<1> QED
    BY <1>1, Invariance, PTL

(***************************************************************************)
(* A key never has two active timers.                                      *)
(***************************************************************************)
THEOREM KeysAreExclusive == Spec => []OneActivePerKey
<1>1. IInv => OneActivePerKey
      BY DEF IInv
<1> QED
    BY <1>1, Invariance, PTL

(***************************************************************************)
(* Whoever still holds a timer acts for its latest attempt.                *)
(***************************************************************************)
THEOREM Fencing == Spec => []LeaseFencing
<1>1. IInv => LeaseFencing
      BY DEF IInv, QueueInv
<1> QED
    BY <1>1, Invariance, PTL

(***************************************************************************)
(* A dead-lettered timer has spent its attempts.                           *)
(***************************************************************************)
THEOREM GivenUpLate == Spec => []DeadOnlyAtCap
<1>1. IInv => DeadOnlyAtCap
      BY DEF IInv, QueueInv
<1> QED
    BY <1>1, Invariance, PTL

(***************************************************************************)
(* Two workers run a timer's consumer at once only if a lease ran out      *)
(* under one of them.                                                      *)
(***************************************************************************)
THEOREM Exclusion == Spec => []NoOverlapWithoutLapse
<1>1. IInv => NoOverlapWithoutLapse
      BY DEF IInv, QueueInv, OverlapInv
<1> QED
    BY <1>1, Invariance, PTL

(***************************************************************************)
(* No step takes a settled timer back into service.                        *)
(***************************************************************************)
THEOREM SettledForGood == Spec => SettledStays
<1>1. IInv /\ [Next]_schedVars =>
        [\A r \in Row : status[r] \in Terminal =>
                          status'[r] \in {status[r], "deleted"}]_queueVars
  <2> SUFFICES ASSUME IInv, Next
               PROVE  \A r \in Row : status[r] \in Terminal =>
                                       status'[r] \in {status[r], "deleted"}
      BY DEF schedVars
  <2>1. CASE QueueStep
        BY <2>1, SettledStep, ReturnsAreOutcomes DEF IInv, QueueInv, QueueStep
  <2>2. CASE PortStep
        BY <2>2 DEF IInv, TypeOK, QueueTypeOK, PortStep, ScheduleLookup,
                    ScheduleInsert, ScheduleConflict, Cancel, Reschedule,
                    Retire, Insert, FreshIds, ActiveTimers, TimersOf, Active,
                    Terminal, queueVars
  <2> QED
      BY <2>1, <2>2 DEF Next
<1> QED
    BY <1>1, Invariance, PTL DEF Spec, SettledStays

(***************************************************************************)
(* Retention deletes only settled timers, although it deletes by ids that  *)
(* an earlier statement selected.                                          *)
(***************************************************************************)
THEOREM RetentionIsSafe == Spec => OnlySettledDeleted
<1>1. IInv /\ [Next]_schedVars =>
        [\A r \in Row : Active(r) => status'[r] # "deleted"]_queueVars
  <2> SUFFICES ASSUME IInv, Next
               PROVE  \A r \in Row : Active(r) => status'[r] # "deleted"
      BY DEF schedVars
  <2>1. CASE QueueStep
        BY <2>1, DeleteStep, ReturnsAreOutcomes DEF IInv, QueueInv, QueueStep
  <2>2. CASE PortStep
        BY <2>2 DEF IInv, TypeOK, QueueTypeOK, PortStep, ScheduleLookup,
                    ScheduleInsert, ScheduleConflict, Cancel, Reschedule,
                    Retire, Insert, FreshIds, ActiveTimers, TimersOf, Active,
                    Terminal, Status, queueVars
  <2> QED
      BY <2>1, <2>2 DEF Next
<1> QED
    BY <1>1, Invariance, PTL DEF Spec, OnlySettledDeleted

-----------------------------------------------------------------------------
(***************************************************************************)
(* Refinement.  No consumer skips, so no timer is ever 'skipped'.          *)
(***************************************************************************)
NoSkips ==
    /\ \A w \in Worker : outcome[w] # "skip"
    /\ \A r \in Row : status[r] # "skipped"

(***************************************************************************)
(* The scheduler's handler has no skip, so no timer's status is 'skipped'  *)
(* (which the contract has no phase for).                                  *)
(***************************************************************************)
LEMMA NeverSkips == Spec => [](IInv /\ NoSkips)
<1> USE DEF IInv, TypeOK, QueueTypeOK, NoSkips
<1>1. Init => NoSkips
      BY DEF Init, QueueInit
<1>2. ASSUME IInv, NoSkips, [Next]_schedVars
      PROVE  NoSkips'
  <2>1. CASE \E w \in Worker : WorkerStep(w, {"ok", "failed"})
    <3> PICK w \in Worker : WorkerStep(w, {"ok", "failed"})
        BY <2>1
    <3>1. CASE SettleDone(w) \/ SettleSkipped(w) \/ SettleFailure(w)
          BY <1>2, <3>1 DEF SettleDone, SettleSkipped, SettleFailure,
                            WriteBack, ForgetJob
    <3>2. CASE ~(SettleDone(w) \/ SettleSkipped(w) \/ SettleFailure(w))
          BY <1>2, <3>2 DEF WorkerStep, Claim, Start, PassOver,
             HandlerReturns, SettleThrows, Abandon, ForgetJob, PruneSelect,
             PruneDelete
    <3> QED
        BY <3>1, <3>2
  <2>2. CASE TimeStep
        BY <1>2, <2>2 DEF TimeStep, BecomesReady, LeaseOfAbandonedRow,
           LeaseOfSlowWorker, LeaseRunsOut, RetentionEnds
  <2>3. CASE PortStep
        BY <1>2, <2>3 DEF PortStep, ScheduleLookup, ScheduleInsert,
           ScheduleConflict, Cancel, Reschedule, Retire, Insert, queueVars
  <2>4. CASE UNCHANGED schedVars
        BY <1>2, <2>4 DEF schedVars, queueVars
  <2> QED
      BY <1>2, <2>1, <2>2, <2>3, <2>4 DEF Next, QueueStep, QueueNext
<1> QED
    BY <1>1, <1>2, Invariance, PTL DEF Spec

(***************************************************************************)
(* What the refinement mapping makes of each status.                       *)
(***************************************************************************)
LEMMA PhaseOfStatus ==
    ASSUME NEW s \in Status \ {"skipped"}
    PROVE  /\ PhaseOf(s) = "none" <=> s = "unborn"
           /\ PhaseOf(s) = "armed" <=> s \in {"waiting", "processing"}
           /\ PhaseOf(s) = "fired" <=> s = "done"
           /\ PhaseOf(s) = "given_up" <=> s = "dead"
           /\ PhaseOf(s) = "forgotten" <=> s = "deleted"
           /\ s \in {"cancelled", "superseded"} => PhaseOf(s) = s
BY DEF Status, Terminal, PhaseOf

(***************************************************************************)
(* The mapped phases of all timers, and the sets of timers that the        *)
(* contract speaks of, in terms of the clock's own columns.                *)
(***************************************************************************)
LEMMA PhaseNames ==
    /\ PhaseOf("unborn") = "none"
    /\ PhaseOf("waiting") = "armed" /\ PhaseOf("processing") = "armed"
    /\ PhaseOf("done") = "fired" /\ PhaseOf("dead") = "given_up"
    /\ PhaseOf("cancelled") = "cancelled"
    /\ PhaseOf("superseded") = "superseded"
    /\ PhaseOf("deleted") = "forgotten"
BY DEF PhaseOf

\* The contract's variables, and its step or stutter.
phaseNow == [r \in Row |-> PhaseOf(status[r])]

ContractStep == Contract!ContractNext \/ UNCHANGED Contract!contractVars

(***************************************************************************)
(* Steps that leave every phase and the record of hand-overs alone.        *)
(***************************************************************************)
LEMMA Stutters ==
    ASSUME TypeOK, NoSkips, NoSkips', QueueTypeOK',
           \A r \in Row : PhaseOf(status'[r]) = PhaseOf(status[r]),
           UNCHANGED served
    PROVE  ContractStep
BY DEF ContractStep, Contract!contractVars

(***************************************************************************)
(* A worker's write-back fires its timer, gives it up, or is invisible.    *)
(***************************************************************************)
LEMMA WriteBackRefines ==
    ASSUME IInv, NoSkips, NoSkips', QueueTypeOK',
           NEW w \in Worker, NEW new \in {"done", "dead", "waiting"},
           job[w] # NoOne, WriteBack(w, new),
           new = "done" => job[w] \in served
    PROVE  ContractStep
<1> DEFINE r == job[w]
<1> USE DEF IInv, TypeOK, QueueTypeOK
<1>1. r \in Row /\ UNCHANGED served
      BY DEF WriteBack
<1>2. CASE ~Holds(w, r) \/ new = "waiting"
  <2>1. \A q \in Row : PhaseOf(status'[q]) = PhaseOf(status[q])
        BY <1>1, <1>2, PhaseOfStatus DEF WriteBack, Holds, NoSkips, Status
  <2> QED
      BY <2>1, <1>1, Stutters
<1>3. CASE Holds(w, r) /\ new = "done"
  <2>1. status[r] = "processing" /\ status' = [status EXCEPT ![r] = "done"]
        BY <1>1, <1>3 DEF WriteBack, Holds
  <2>2. phaseNow[r] = "armed" /\ phaseNow' = [phaseNow EXCEPT ![r] = "fired"]
        BY <2>1, <1>1, PhaseNames DEF phaseNow
  <2> QED
      BY <2>2, <1>1, <1>3
         DEF ContractStep, Contract!ContractNext, Contract!Fire, phaseNow
<1>4. CASE Holds(w, r) /\ new = "dead"
  <2>1. status[r] = "processing" /\ status' = [status EXCEPT ![r] = "dead"]
        BY <1>1, <1>4 DEF WriteBack, Holds
  <2>2. /\ phaseNow[r] = "armed"
        /\ phaseNow' = [phaseNow EXCEPT ![r] = "given_up"]
        BY <2>1, <1>1, PhaseNames DEF phaseNow
  <2> QED
      BY <2>2, <1>1, <1>4
         DEF ContractStep, Contract!ContractNext, Contract!GiveUp, phaseNow
<1> QED
    BY <1>2, <1>3, <1>4

(***************************************************************************)
(* Every step of the poller is a hand-over, a firing, a giving up, a       *)
(* forgetting, or invisible to users of the port.                          *)
(***************************************************************************)
LEMMA PollerRefines ==
    ASSUME IInv, NoSkips, NoSkips', QueueTypeOK', QueueStep
    PROVE  ContractStep
<1> USE DEF IInv, TypeOK, QueueInv, QueueTypeOK
<1>1. CASE \E w \in Worker : WorkerStep(w, {"ok", "failed"})
  <2> PICK w \in Worker : WorkerStep(w, {"ok", "failed"})
      BY <1>1
  <2>1. CASE \E S \in SUBSET Row : Claim(w, S)
    <3>1. \A r \in Row : PhaseOf(status'[r]) = PhaseOf(status[r])
          BY <2>1, PhaseNames DEF Claim, Claimable
    <3> QED
        BY <2>1, <3>1, Stutters DEF Claim
  <2>2. CASE HandlerReturns(w, "ok")
    <3>1. phaseNow[job[w]] # "none" /\ job[w] \in Row
          BY <2>2, PhaseOfStatus
             DEF HandlerReturns, OverlapInv, InHandExists, NoSkips, phaseNow
    <3> QED
        BY <2>2, <3>1 DEF HandlerReturns, ContractStep,
           Contract!ContractNext, Contract!HandOver, phaseNow
  <2>3. CASE \/ \E r \in Row : Start(w, r) \/ PassOver(w, r)
             \/ HandlerReturns(w, "failed") \/ SettleThrows(w) \/ Abandon(w)
             \/ PruneSelect(w)
        BY <2>3, Stutters DEF Start, PassOver, HandlerReturns, SettleThrows,
           Abandon, PruneSelect
  <2>4. CASE SettleDone(w)
        BY <2>4, WriteBackRefines DEF SettleDone, SuccessNoted
  <2>5. CASE SettleSkipped(w)
        BY <2>5 DEF SettleSkipped, NoSkips
  <2>6. CASE SettleFailure(w)
    <3>1. WriteBack(w, "dead") \/ WriteBack(w, "waiting")
          BY <2>6 DEF SettleFailure
    <3> QED
        BY <2>6, <3>1, WriteBackRefines DEF SettleFailure
  <2>7. CASE PruneDelete(w)
    <3>1. \A r \in doomed[w] : phaseNow[r] \in Contract!Over \cup {"forgotten"}
          BY PhaseNames
             DEF CondemnedAreSettled, NoSkips, Terminal, Contract!Over,
                 phaseNow
    <3>2. phaseNow' = [r \in Row |-> IF r \in doomed[w] THEN "forgotten"
                                                       ELSE phaseNow[r]]
          BY <2>7, PhaseNames DEF PruneDelete, phaseNow
    <3> QED
        BY <2>7, <3>1, <3>2 DEF PruneDelete, ContractStep,
           Contract!ContractNext, Contract!Forget, phaseNow
  <2> QED
      BY <2>1, <2>2, <2>3, <2>4, <2>5, <2>6, <2>7 DEF WorkerStep
<1>2. CASE TimeStep
      BY <1>2, Stutters DEF TimeStep, BecomesReady, LeaseOfAbandonedRow,
         LeaseOfSlowWorker, LeaseRunsOut, RetentionEnds
<1> QED
    BY <1>1, <1>2 DEF QueueStep, QueueNext

(***************************************************************************)
(* schedule arms, cancel cancels, reschedule moves.                        *)
(***************************************************************************)
LEMMA PortRefines ==
    ASSUME IInv, NoSkips, NoSkips', QueueTypeOK', PortStep
    PROVE  ContractStep
<1> USE DEF IInv, TypeOK, QueueTypeOK
<1>0. ASSUME NEW k \in Key
      PROVE  /\ Contract!Armed(k) = ActiveTimers(k)
             /\ Contract!New(k) = FreshIds(k)
  <2>1. \A r \in Row : /\ PhaseOf(status[r]) = "armed" <=> Active(r)
                       /\ PhaseOf(status[r]) = "none" <=> status[r] = "unborn"
        BY PhaseOfStatus DEF NoSkips, Active
  <2> QED
      BY <2>1 DEF Contract!Armed, Contract!New, ActiveTimers, FreshIds,
                  TimersOf
<1>1. ASSUME NEW c \in Caller, ScheduleInsert(c)
      PROVE  ContractStep
  <2> DEFINE k == missed[c]
  <2>1. k \in Key
        BY <1>1 DEF ScheduleInsert
  <2>2. PICK r \in FreshIds(k) : status' = [status EXCEPT ![r] = "waiting"]
        BY <1>1 DEF ScheduleInsert, Insert
  <2>3. phaseNow' = [phaseNow EXCEPT ![r] = "armed"]
        BY <2>2, PhaseNames DEF phaseNow, FreshIds, TimersOf
  <2>4. Contract!Arm(k)
    <3>1. Contract!Armed(k) = {} /\ r \in Contract!New(k)
          BY <1>0, <1>1, <2>1 DEF ScheduleInsert
    <3>2. UNCHANGED served
          BY <1>1 DEF ScheduleInsert
    <3> QED
        BY <2>3, <3>1, <3>2 DEF Contract!Arm, phaseNow
  <2> QED
      BY <2>1, <2>4 DEF ContractStep, Contract!ContractNext
<1>2. ASSUME NEW c \in Caller,
             (\E k \in Key : ScheduleLookup(c, k)) \/ ScheduleConflict(c)
      PROVE  ContractStep
      BY <1>2, Stutters DEF ScheduleLookup, ScheduleConflict, queueVars
<1>3. ASSUME NEW k \in Key, Cancel(k)
      PROVE  ContractStep
  <2>1. phaseNow' = [r \in Row |-> IF r \in ActiveTimers(k) THEN "cancelled"
                                                           ELSE phaseNow[r]]
        BY <1>3, PhaseNames DEF Cancel, Retire, phaseNow
  <2>2. Contract!CancelKey(k)
        BY <1>0, <1>3, <2>1 DEF Cancel, Contract!CancelKey, phaseNow
  <2> QED
      BY <2>2 DEF ContractStep, Contract!ContractNext
<1>4. ASSUME NEW k \in Key, Reschedule(k)
      PROVE  ContractStep
  <2>1. PICK new \in FreshIds(k) :
               status' = Insert(new, Retire(k, "superseded"))
        BY <1>4 DEF Reschedule
  <2>2. new \in Row /\ new \notin ActiveTimers(k)
        BY DEF FreshIds, TimersOf, ActiveTimers, Active
  <2>3. phaseNow' = [r \in Row |->
                       IF r \in ActiveTimers(k) THEN "superseded"
                       ELSE IF r = new THEN "armed" ELSE phaseNow[r]]
        BY <2>1, <2>2, PhaseNames DEF Insert, Retire, phaseNow
  <2> QED
      BY <1>0, <1>4, <2>3 DEF Reschedule, ContractStep,
         Contract!ContractNext, Contract!Move, phaseNow
<1> QED
    BY <1>1, <1>2, <1>3, <1>4 DEF PortStep

(***************************************************************************)
(* The durable clock implements the contract of the SchedulerRuntime port. *)
(***************************************************************************)
THEOREM Refinement == Spec => ImplementsContract
<1>1. Init => Contract!ContractInit
      BY PhaseNames DEF Init, QueueInit, Contract!ContractInit
<1>2. /\ IInv /\ NoSkips /\ (IInv /\ NoSkips)' /\ [Next]_schedVars
      => [Contract!ContractNext]_(Contract!contractVars)
  <2> SUFFICES ASSUME IInv, NoSkips, (IInv /\ NoSkips)', [Next]_schedVars
               PROVE  ContractStep
      BY DEF ContractStep
  <2>1. QueueTypeOK'
        BY DEF IInv, QueueInv
  <2>2. CASE QueueStep
        BY <2>1, <2>2, PollerRefines
  <2>3. CASE PortStep
        BY <2>1, <2>3, PortRefines
  <2>4. CASE UNCHANGED schedVars
        BY <2>4 DEF schedVars, queueVars, ContractStep, Contract!contractVars
  <2> QED
      BY <2>2, <2>3, <2>4 DEF Next
<1> QED
    BY <1>1, <1>2, NeverSkips, PTL
       DEF Spec, ImplementsContract, Contract!ContractSpec
=============================================================================
