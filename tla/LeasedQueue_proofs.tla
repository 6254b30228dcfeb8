------------------------- MODULE LeasedQueue_proofs -------------------------
(***************************************************************************)
(* What every step of the lease protocol preserves, for any number of      *)
(* rows and workers.  The modules of the individual queues cite these      *)
(* lemmas for their poller and prove only what their own operations do.    *)
(***************************************************************************)
EXTENDS LeasedQueue, TLAPS

USE QueueAssumption DEF Terminal, Status, Outcome

OverlapInv ==
    InHandOnce /\ InHandExists /\ HeldOrSettled /\ NoOverlapWithoutLapse

(***************************************************************************)
(* The initial state satisfies every invariant of the protocol.            *)
(***************************************************************************)
LEMMA QueueInitially ==
    ASSUME QueueInit
    PROVE  /\ QueueTypeOK
           /\ LeaseFencing /\ LockedIffProcessing /\ DeadOnlyAtCap
           /\ SuccessNoted /\ DoneOnlyAfterSuccess
           /\ CondemnedAreSettled
           /\ OverlapInv
BY DEF QueueInit, QueueTypeOK, LeaseFencing, LockedIffProcessing,
       DeadOnlyAtCap, SuccessNoted, DoneOnlyAfterSuccess, CondemnedAreSettled,
       OverlapInv, InHandOnce, InHandExists, HeldOrSettled,
       NoOverlapWithoutLapse, Holds

(***************************************************************************)
(* The columns and the workers' locals keep their types.                   *)
(***************************************************************************)
LEMMA TypeStep ==
    ASSUME QueueTypeOK, NEW Returns \in SUBSET Outcome, QueueNext(Returns)
    PROVE  QueueTypeOK'
<1>1. CASE \E w \in Worker : WorkerStep(w, Returns)
  <2> SUFFICES ASSUME NEW w \in Worker, WorkerStep(w, Returns)
               PROVE  QueueTypeOK'
      BY <1>1
  <2> USE DEF QueueTypeOK
  <2>1. CASE \E S \in SUBSET Row : Claim(w, S)
        BY <2>1 DEF Claim
  <2>2. CASE \E r \in Row : Start(w, r) \/ PassOver(w, r)
        BY <2>2 DEF Start, PassOver
  <2>3. CASE \E o \in Returns : HandlerReturns(w, o)
        BY <2>3 DEF HandlerReturns
  <2>4. ASSUME NEW new \in {"done", "skipped", "dead", "waiting"},
               job[w] # NoOne, WriteBack(w, new)
        PROVE  QueueTypeOK'
        BY <2>4 DEF WriteBack, ForgetJob, Holds
  <2>5. CASE SettleDone(w) \/ SettleSkipped(w) \/ SettleFailure(w)
        BY <2>4, <2>5 DEF SettleDone, SettleSkipped, SettleFailure
  <2>6. CASE SettleThrows(w)
        BY <2>6 DEF SettleThrows
  <2>7. CASE Abandon(w)
        BY <2>7 DEF Abandon, ForgetJob
  <2>8. CASE PruneSelect(w) \/ PruneDelete(w)
        BY <2>8 DEF PruneSelect, PruneDelete
  <2> QED
      BY <2>1, <2>2, <2>3, <2>5, <2>6, <2>7, <2>8 DEF WorkerStep
<1>2. CASE TimeStep
      BY <1>2 DEF TimeStep, BecomesReady, LeaseOfAbandonedRow,
                  LeaseOfSlowWorker, LeaseRunsOut, RetentionEnds, QueueTypeOK
<1> QED
    BY <1>1, <1>2 DEF QueueNext

(***************************************************************************)
(* Fencing and locks. A claim takes a new attempt number only while the    *)
(* claimant has no job in hand, so whoever still holds a row read its      *)
(* latest attempt; hence a failure is judged by the row's real attempt     *)
(* count.                                                                  *)
(***************************************************************************)
LEMMA FenceStep ==
    ASSUME QueueTypeOK, NEW Returns \in SUBSET Outcome, QueueNext(Returns),
           LeaseFencing, LockedIffProcessing, DeadOnlyAtCap
    PROVE  (LeaseFencing /\ LockedIffProcessing /\ DeadOnlyAtCap)'
<1> USE DEF QueueTypeOK, LeaseFencing, LockedIffProcessing, DeadOnlyAtCap,
            Holds
<1>1. CASE \E w \in Worker : WorkerStep(w, Returns)
  <2> SUFFICES ASSUME NEW w \in Worker, WorkerStep(w, Returns)
               PROVE  (LeaseFencing /\ LockedIffProcessing /\ DeadOnlyAtCap)'
      BY <1>1
  <2>1. CASE \E S \in SUBSET Row : Claim(w, S)
        BY <2>1 DEF Claim, Claimable, Idle
  <2>2. CASE \E r \in Row : Start(w, r) \/ PassOver(w, r)
        BY <2>2 DEF Start, PassOver
  <2>3. CASE \E o \in Returns : HandlerReturns(w, o)
        BY <2>3 DEF HandlerReturns
  <2>4. CASE SettleDone(w) \/ SettleSkipped(w)
        BY <2>4 DEF SettleDone, SettleSkipped, WriteBack, ForgetJob
  <2>5. CASE SettleFailure(w)
    <3>1. CASE seen[w] >= MaxAttempts /\ WriteBack(w, "dead")
          BY <2>5, <3>1 DEF SettleFailure, WriteBack, ForgetJob
    <3>2. CASE WriteBack(w, "waiting")
          BY <2>5, <3>2 DEF SettleFailure, WriteBack, ForgetJob
    <3> QED
        BY <2>5, <3>1, <3>2 DEF SettleFailure
  <2>6. CASE SettleThrows(w)
        BY <2>6 DEF SettleThrows
  <2>7. CASE Abandon(w)
        BY <2>7 DEF Abandon, ForgetJob
  <2>8. CASE PruneSelect(w) \/ PruneDelete(w)
        BY <2>8 DEF PruneSelect, PruneDelete
  <2> QED
      BY <2>1, <2>2, <2>3, <2>4, <2>5, <2>6, <2>7, <2>8 DEF WorkerStep
<1>2. CASE TimeStep
      BY <1>2 DEF TimeStep, BecomesReady, LeaseOfAbandonedRow,
                  LeaseOfSlowWorker, LeaseRunsOut, RetentionEnds, InHand
<1> QED
    BY <1>1, <1>2 DEF QueueNext

(***************************************************************************)
(* A success is on record before its row is settled as done.               *)
(***************************************************************************)
LEMMA SuccessStep ==
    ASSUME QueueTypeOK, NEW Returns \in SUBSET Outcome, QueueNext(Returns),
           SuccessNoted, DoneOnlyAfterSuccess
    PROVE  (SuccessNoted /\ DoneOnlyAfterSuccess)'
<1> USE DEF QueueTypeOK, SuccessNoted, DoneOnlyAfterSuccess
<1>1. CASE \E w \in Worker : WorkerStep(w, Returns)
  <2> SUFFICES ASSUME NEW w \in Worker, WorkerStep(w, Returns)
               PROVE  (SuccessNoted /\ DoneOnlyAfterSuccess)'
      BY <1>1
  <2>1. CASE \E S \in SUBSET Row : Claim(w, S)
        BY <2>1 DEF Claim, Claimable, Idle
  <2>2. CASE \E r \in Row : Start(w, r) \/ PassOver(w, r)
        BY <2>2 DEF Start, PassOver
  <2>3. CASE \E o \in Returns : HandlerReturns(w, o)
        BY <2>3 DEF HandlerReturns
  <2>4. CASE SettleDone(w) \/ SettleSkipped(w)
        BY <2>4 DEF SettleDone, SettleSkipped, WriteBack, ForgetJob
  <2>5. CASE SettleFailure(w)
        BY <2>5 DEF SettleFailure, WriteBack, ForgetJob
  <2>6. CASE SettleThrows(w)
        BY <2>6 DEF SettleThrows
  <2>7. CASE Abandon(w)
        BY <2>7 DEF Abandon, ForgetJob
  <2>8. CASE PruneSelect(w) \/ PruneDelete(w)
        BY <2>8 DEF PruneSelect, PruneDelete
  <2> QED
      BY <2>1, <2>2, <2>3, <2>4, <2>5, <2>6, <2>7, <2>8 DEF WorkerStep
<1>2. CASE TimeStep
      BY <1>2 DEF TimeStep, BecomesReady, LeaseOfAbandonedRow,
                  LeaseOfSlowWorker, LeaseRunsOut, RetentionEnds, InHand
<1> QED
    BY <1>1, <1>2 DEF QueueNext

(***************************************************************************)
(* Rows whose retention ended, and rows a prune has selected, are settled. *)
(***************************************************************************)
LEMMA CondemnedStep ==
    ASSUME QueueTypeOK, NEW Returns \in SUBSET Outcome, QueueNext(Returns),
           CondemnedAreSettled
    PROVE  CondemnedAreSettled'
<1> USE DEF QueueTypeOK, CondemnedAreSettled, Holds
<1>1. CASE \E w \in Worker : WorkerStep(w, Returns)
  <2> SUFFICES ASSUME NEW w \in Worker, WorkerStep(w, Returns)
               PROVE  CondemnedAreSettled'
      BY <1>1
  <2>1. CASE \E S \in SUBSET Row : Claim(w, S)
        BY <2>1 DEF Claim, Claimable, Idle
  <2>2. CASE \E r \in Row : Start(w, r) \/ PassOver(w, r)
        BY <2>2 DEF Start, PassOver
  <2>3. CASE \E o \in Returns : HandlerReturns(w, o)
        BY <2>3 DEF HandlerReturns
  <2>4. CASE SettleDone(w) \/ SettleSkipped(w)
        BY <2>4 DEF SettleDone, SettleSkipped, WriteBack, ForgetJob
  <2>5. CASE SettleFailure(w)
        BY <2>5 DEF SettleFailure, WriteBack, ForgetJob
  <2>6. CASE SettleThrows(w)
        BY <2>6 DEF SettleThrows
  <2>7. CASE Abandon(w)
        BY <2>7 DEF Abandon, ForgetJob
  <2>8. CASE PruneSelect(w) \/ PruneDelete(w)
        BY <2>8 DEF PruneSelect, PruneDelete
  <2> QED
      BY <2>1, <2>2, <2>3, <2>4, <2>5, <2>6, <2>7, <2>8 DEF WorkerStep
<1>2. CASE TimeStep
      BY <1>2 DEF TimeStep, BecomesReady, LeaseOfAbandonedRow,
                  LeaseOfSlowWorker, LeaseRunsOut, RetentionEnds, InHand
<1> QED
    BY <1>1, <1>2 DEF QueueNext

(***************************************************************************)
(* Until a lease runs out under a live worker, a claimed row stays its     *)
(* claimant's, so nobody else starts it.                                   *)
(***************************************************************************)
LEMMA OverlapStep ==
    ASSUME QueueTypeOK, NEW Returns \in SUBSET Outcome, QueueNext(Returns),
           OverlapInv
    PROVE  OverlapInv'
<1> USE DEF QueueTypeOK, OverlapInv, InHandOnce, InHandExists, HeldOrSettled,
            NoOverlapWithoutLapse, Holds
<1>1. CASE \E w \in Worker : WorkerStep(w, Returns)
  <2> SUFFICES ASSUME NEW w \in Worker, WorkerStep(w, Returns)
               PROVE  OverlapInv'
      BY <1>1
  <2>1. CASE \E S \in SUBSET Row : Claim(w, S)
        BY <2>1 DEF Claim, Claimable, Idle
  <2>2. CASE \E r \in Row : Start(w, r) \/ PassOver(w, r)
        BY <2>2 DEF Start, PassOver
  <2>3. CASE \E o \in Returns : HandlerReturns(w, o)
        BY <2>3 DEF HandlerReturns
  <2>4. CASE SettleDone(w) \/ SettleSkipped(w)
        BY <2>4 DEF SettleDone, SettleSkipped, WriteBack, ForgetJob
  <2>5. CASE SettleFailure(w)
    <3>1. CASE WriteBack(w, "dead")
          BY <2>5, <3>1 DEF SettleFailure, WriteBack, ForgetJob
    <3>2. CASE WriteBack(w, "waiting")
          BY <2>5, <3>2 DEF SettleFailure, WriteBack, ForgetJob
    <3> QED
        BY <2>5, <3>1, <3>2 DEF SettleFailure
  <2>6. CASE SettleThrows(w)
        BY <2>6 DEF SettleThrows
  <2>7. CASE Abandon(w)
        BY <2>7 DEF Abandon, ForgetJob
  <2>8. CASE PruneSelect(w) \/ PruneDelete(w)
        BY <2>8 DEF PruneSelect, PruneDelete
  <2> QED
      BY <2>1, <2>2, <2>3, <2>4, <2>5, <2>6, <2>7, <2>8 DEF WorkerStep
<1>2. CASE TimeStep
      BY <1>2 DEF TimeStep, BecomesReady, LeaseOfAbandonedRow,
                  LeaseOfSlowWorker, LeaseRunsOut, RetentionEnds, InHand
<1> QED
    BY <1>1, <1>2 DEF QueueNext

(***************************************************************************)
(* No step of the protocol brings a settled row back.                      *)
(***************************************************************************)
LEMMA SettledStep ==
    ASSUME QueueTypeOK, NEW Returns \in SUBSET Outcome, QueueNext(Returns)
    PROVE  \A r \in Row : status[r] \in Terminal =>
                            status'[r] \in {status[r], "deleted"}
<1> USE DEF QueueTypeOK, Holds
<1>1. CASE \E w \in Worker : WorkerStep(w, Returns)
  <2> SUFFICES ASSUME NEW w \in Worker, WorkerStep(w, Returns)
               PROVE  \A r \in Row : status[r] \in Terminal =>
                            status'[r] \in {status[r], "deleted"}
      BY <1>1
  <2>1. CASE \E S \in SUBSET Row : Claim(w, S)
        BY <2>1 DEF Claim, Claimable, Idle
  <2>2. CASE \E r \in Row : Start(w, r) \/ PassOver(w, r)
        BY <2>2 DEF Start, PassOver
  <2>3. CASE \E o \in Returns : HandlerReturns(w, o)
        BY <2>3 DEF HandlerReturns
  <2>4. CASE SettleDone(w) \/ SettleSkipped(w)
        BY <2>4 DEF SettleDone, SettleSkipped, WriteBack, ForgetJob
  <2>5. CASE SettleFailure(w)
        BY <2>5 DEF SettleFailure, WriteBack, ForgetJob
  <2>6. CASE SettleThrows(w)
        BY <2>6 DEF SettleThrows
  <2>7. CASE Abandon(w)
        BY <2>7 DEF Abandon, ForgetJob
  <2>8. CASE PruneSelect(w) \/ PruneDelete(w)
        BY <2>8 DEF PruneSelect, PruneDelete
  <2> QED
      BY <2>1, <2>2, <2>3, <2>4, <2>5, <2>6, <2>7, <2>8 DEF WorkerStep
<1>2. CASE TimeStep
      BY <1>2 DEF TimeStep, BecomesReady, LeaseOfAbandonedRow,
                  LeaseOfSlowWorker, LeaseRunsOut, RetentionEnds, InHand
<1> QED
    BY <1>1, <1>2 DEF QueueNext

(***************************************************************************)
(* No step of the protocol deletes a row that has work to do.              *)
(***************************************************************************)
LEMMA DeleteStep ==
    ASSUME QueueTypeOK, NEW Returns \in SUBSET Outcome, QueueNext(Returns),
           CondemnedAreSettled
    PROVE  \A r \in Row : Active(r) => status'[r] # "deleted"
<1> USE DEF QueueTypeOK, CondemnedAreSettled, Active, Holds
<1>1. CASE \E w \in Worker : WorkerStep(w, Returns)
  <2> SUFFICES ASSUME NEW w \in Worker, WorkerStep(w, Returns)
               PROVE  \A r \in Row : Active(r) => status'[r] # "deleted"
      BY <1>1
  <2>1. CASE \E S \in SUBSET Row : Claim(w, S)
        BY <2>1 DEF Claim, Claimable, Idle
  <2>2. CASE \E r \in Row : Start(w, r) \/ PassOver(w, r)
        BY <2>2 DEF Start, PassOver
  <2>3. CASE \E o \in Returns : HandlerReturns(w, o)
        BY <2>3 DEF HandlerReturns
  <2>4. CASE SettleDone(w) \/ SettleSkipped(w)
        BY <2>4 DEF SettleDone, SettleSkipped, WriteBack, ForgetJob
  <2>5. CASE SettleFailure(w)
        BY <2>5 DEF SettleFailure, WriteBack, ForgetJob
  <2>6. CASE SettleThrows(w)
        BY <2>6 DEF SettleThrows
  <2>7. CASE Abandon(w)
        BY <2>7 DEF Abandon, ForgetJob
  <2>8. CASE PruneSelect(w) \/ PruneDelete(w)
        BY <2>8 DEF PruneSelect, PruneDelete
  <2> QED
      BY <2>1, <2>2, <2>3, <2>4, <2>5, <2>6, <2>7, <2>8 DEF WorkerStep
<1>2. CASE TimeStep
      BY <1>2 DEF TimeStep, BecomesReady, LeaseOfAbandonedRow,
                  LeaseOfSlowWorker, LeaseRunsOut, RetentionEnds, InHand
<1> QED
    BY <1>1, <1>2 DEF QueueNext

(***************************************************************************)
(* No step of the protocol makes a row active that was not.                *)
(***************************************************************************)
LEMMA ActiveStep ==
    ASSUME QueueTypeOK, NEW Returns \in SUBSET Outcome, QueueNext(Returns)
    PROVE  \A r \in Row : Active(r)' => Active(r)
<1> USE DEF QueueTypeOK, Active, Holds
<1>1. CASE \E w \in Worker : WorkerStep(w, Returns)
  <2> SUFFICES ASSUME NEW w \in Worker, WorkerStep(w, Returns)
               PROVE  \A r \in Row : Active(r)' => Active(r)
      BY <1>1
  <2>1. CASE \E S \in SUBSET Row : Claim(w, S)
        BY <2>1 DEF Claim, Claimable, Idle
  <2>2. CASE \E r \in Row : Start(w, r) \/ PassOver(w, r)
        BY <2>2 DEF Start, PassOver
  <2>3. CASE \E o \in Returns : HandlerReturns(w, o)
        BY <2>3 DEF HandlerReturns
  <2>4. CASE SettleDone(w) \/ SettleSkipped(w)
        BY <2>4 DEF SettleDone, SettleSkipped, WriteBack, ForgetJob
  <2>5. CASE SettleFailure(w)
        BY <2>5 DEF SettleFailure, WriteBack, ForgetJob
  <2>6. CASE SettleThrows(w)
        BY <2>6 DEF SettleThrows
  <2>7. CASE Abandon(w)
        BY <2>7 DEF Abandon, ForgetJob
  <2>8. CASE PruneSelect(w) \/ PruneDelete(w)
        BY <2>8 DEF PruneSelect, PruneDelete
  <2> QED
      BY <2>1, <2>2, <2>3, <2>4, <2>5, <2>6, <2>7, <2>8 DEF WorkerStep
<1>2. CASE TimeStep
      BY <1>2 DEF TimeStep, BecomesReady, LeaseOfAbandonedRow,
                  LeaseOfSlowWorker, LeaseRunsOut, RetentionEnds, InHand
<1> QED
    BY <1>1, <1>2 DEF QueueNext

(***************************************************************************)
(* A job in hand is finished before the next is taken up, and nothing that *)
(* happens meanwhile gives a worker back a row it has lost.                *)
(***************************************************************************)
LEMMA HoldStep ==
    ASSUME QueueTypeOK, NEW Returns \in SUBSET Outcome, QueueNext(Returns),
           NEW v \in Worker, job[v] # NoOne, job'[v] # NoOne
    PROVE  /\ job'[v] = job[v]
           /\ Holds(v, job[v])' => Holds(v, job[v])
<1> USE DEF QueueTypeOK, Holds
<1>1. CASE \E w \in Worker : WorkerStep(w, Returns)
  <2> PICK w \in Worker : WorkerStep(w, Returns)
      BY <1>1
  <2>1. CASE \E S \in SUBSET Row : Claim(w, S)
        BY <2>1 DEF Claim, Claimable, Idle
  <2>2. CASE \E r \in Row : Start(w, r) \/ PassOver(w, r)
        BY <2>2 DEF Start, PassOver
  <2>3. CASE \E o \in Returns : HandlerReturns(w, o)
        BY <2>3 DEF HandlerReturns
  <2>4. CASE SettleDone(w) \/ SettleSkipped(w) \/ SettleFailure(w)
        BY <2>4 DEF SettleDone, SettleSkipped, SettleFailure, WriteBack,
                    ForgetJob
  <2>5. CASE SettleThrows(w)
        BY <2>5 DEF SettleThrows
  <2>6. CASE Abandon(w)
        BY <2>6 DEF Abandon, ForgetJob
  <2>7. CASE PruneSelect(w) \/ PruneDelete(w)
        BY <2>7 DEF PruneSelect, PruneDelete
  <2> QED
      BY <2>1, <2>2, <2>3, <2>4, <2>5, <2>6, <2>7 DEF WorkerStep
<1>2. CASE TimeStep
      BY <1>2 DEF TimeStep, BecomesReady, LeaseOfAbandonedRow,
                  LeaseOfSlowWorker, LeaseRunsOut, RetentionEnds, InHand
<1> QED
    BY <1>1, <1>2 DEF QueueNext
(***************************************************************************)
(* A row becomes done or skipped only by the write of the worker whose     *)
(* handler came to that, and an outcome comes from what the handler may    *)
(* return; the other workers' jobs are left alone.                         *)
(***************************************************************************)
LEMMA SettleStep ==
    ASSUME QueueTypeOK, NEW Returns \in SUBSET Outcome, NEW w \in Worker,
           WorkerStep(w, Returns)
    PROVE  /\ \A r \in Row : status'[r] = "done" =>
                 status[r] = "done" \/ (job[w] = r /\ outcome[w] = "ok")
           /\ \A r \in Row : status'[r] = "skipped" =>
                 status[r] = "skipped" \/ (job[w] = r /\ outcome[w] = "skip")
           /\ \A v \in Worker : v # w =>
                 job'[v] = job[v] /\ outcome'[v] = outcome[v]
           /\ \/ job'[w] = job[w] /\ outcome'[w] = outcome[w]
              \/ outcome'[w] \in {"running", "failed"}
              \/ /\ job'[w] = job[w] /\ job[w] # NoOne
                 /\ outcome[w] = "running" /\ outcome'[w] \in Returns
<1> USE DEF QueueTypeOK, Holds
<1>1. CASE \E S \in SUBSET Row : Claim(w, S)
      BY <1>1 DEF Claim
<1>2. CASE \E r \in Row : Start(w, r) \/ PassOver(w, r)
      BY <1>2 DEF Start, PassOver
<1>3. CASE \E o \in Returns : HandlerReturns(w, o)
      BY <1>3 DEF HandlerReturns
<1>4. CASE SettleDone(w) \/ SettleSkipped(w)
      BY <1>4 DEF SettleDone, SettleSkipped, WriteBack, ForgetJob
<1>5. CASE SettleFailure(w)
      BY <1>5 DEF SettleFailure, WriteBack, ForgetJob
<1>6. CASE SettleThrows(w)
      BY <1>6 DEF SettleThrows
<1>7. CASE Abandon(w)
      BY <1>7 DEF Abandon, ForgetJob
<1>8. CASE PruneSelect(w) \/ PruneDelete(w)
      BY <1>8 DEF PruneSelect, PruneDelete
<1> QED
    BY <1>1, <1>2, <1>3, <1>4, <1>5, <1>6, <1>7, <1>8 DEF WorkerStep
=============================================================================
