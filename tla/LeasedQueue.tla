---------------------------- MODULE LeasedQueue ----------------------------
(***************************************************************************)
(* The claim / lease / settle protocol by which the PostgreSQL tables of   *)
(* this system are drained by interval workers.  The durable clock, the    *)
(* outbox relay and the event ingresses each hold a copy of it; the copy   *)
(* translated here is that of PostgresSchedulerRuntime, with the row       *)
(* statuses named                                                          *)
(*                                                                         *)
(*   waiting     'scheduled' / 'pending'                                   *)
(*   processing  'processing'                                              *)
(*   done        'fired' / 'published' / 'delivered'                       *)
(*   skipped     'skipped'                                                 *)
(*   dead        'dead_letter'                                             *)
(*                                                                         *)
(* plus "unborn" (the id is not drawn yet) and "deleted" (pruned).  Ids    *)
(* are uuids, so a deleted id never comes back.                            *)
(*                                                                         *)
(* Time is abstracted to what the queries compare: a row is in `ready'     *)
(* once its available_at (and fire_at) has passed, in `stale' once its     *)
(* locked_at is more than a minute old, in `expired' once its retain_until *)
(* has passed.                                                             *)
(***************************************************************************)
EXTENDS Naturals, FiniteSets

CONSTANTS
    Row,           \* ids of the table
    Worker,        \* worker processes (hostname:pid), one tick at a time each
    NoOne,         \* SQL NULL in locked_by; also "no job"
    MaxAttempts,   \* attempts at which a failure becomes a dead letter
    MaxAbandons,   \* bound: workers that die or drop their batch
    MaxLapses      \* bound: leases that run out under a live worker

ASSUME QueueAssumption ==
    /\ NoOne \notin Worker
    /\ NoOne \notin Row
    /\ MaxAttempts \in Nat \ {0}
    /\ MaxAbandons \in Nat
    /\ MaxLapses \in Nat

VARIABLES
    status,     \* Row -> status column
    owner,      \* Row -> locked_by
    attempts,   \* Row -> attempts column
    ready,      \* rows whose available_at has passed
    stale,      \* rows whose locked_at is over a minute old
    expired,    \* rows whose retain_until has passed
    batch,      \* Worker -> claimed ids it has not looked at yet
    job,        \* Worker -> row whose handler it runs
    seen,       \* Worker -> attempts of that row when it was read
    outcome,    \* Worker -> what the handler returned
    doomed,     \* Worker -> ids its prune query selected
    served,     \* history: rows whose handler returned normally
    abandons, lapses

queueVars == <<status, owner, attempts, ready, stale, expired, batch, job,
               seen, outcome, doomed, served, abandons, lapses>>

Terminal == {"done", "skipped", "cancelled", "superseded", "dead"}
Status   == {"unborn", "waiting", "processing", "deleted"} \cup Terminal
Outcome  == {"running", "ok", "skip", "failed"}

\* The partial unique index and every fenced update speak of these rows.
Active(r) == status[r] \in {"waiting", "processing"}

(***************************************************************************)
(* The type invariant of the queue's columns and of its workers.           *)
(***************************************************************************)
QueueTypeOK ==
    /\ status \in [Row -> Status]
    /\ owner \in [Row -> Worker \cup {NoOne}]
    /\ attempts \in [Row -> Nat]
    /\ ready \subseteq Row /\ stale \subseteq Row /\ expired \subseteq Row
    /\ batch \in [Worker -> SUBSET Row]
    /\ job \in [Worker -> Row \cup {NoOne}]
    /\ seen \in [Worker -> Nat]
    /\ outcome \in [Worker -> Outcome]
    /\ doomed \in [Worker -> SUBSET Row]
    /\ served \subseteq Row
    /\ abandons \in Nat /\ lapses \in Nat

QueueInit ==
    /\ status = [r \in Row |-> "unborn"]
    /\ owner = [r \in Row |-> NoOne]
    /\ attempts = [r \in Row |-> 0]
    /\ ready = {} /\ stale = {} /\ expired = {} /\ served = {}
    /\ batch = [w \in Worker |-> {}]
    /\ job = [w \in Worker |-> NoOne]
    /\ seen = [w \in Worker |-> 0]
    /\ outcome = [w \in Worker |-> "running"]
    /\ doomed = [w \in Worker |-> {}]
    /\ abandons = 0 /\ lapses = 0

-----------------------------------------------------------------------------
(* The claim: one transaction, SELECT ... FOR UPDATE SKIP LOCKED followed  *)
(* by the UPDATE of the selected ids.                                      *)

\* Mutants of Claimable: without the lease test on processing rows, and
\* without the reclaim of processing rows.
ClaimableIgnoringLease ==
    {r \in Row : \/ status[r] = "waiting" /\ r \in ready
                 \/ status[r] = "processing"}

ClaimableWithoutReclaim ==
    {r \in Row : status[r] = "waiting" /\ r \in ready}

Claimable ==
    {r \in Row : \/ status[r] = "waiting" /\ r \in ready
                 \/ status[r] = "processing" /\ r \in stale}

\* Mutant of Idle: no `running' flag.
IdleWithoutFlag(w) == w \in Worker

\* The `running' flag: a tick that is still in its batch, its handler or its
\* prune returns at once when the interval fires again.
Idle(w) == job[w] = NoOne /\ batch[w] = {} /\ doomed[w] = {}

\* Rows locked by another open transaction are skipped, so any non-empty part
\* of the claimable rows may be the one this worker gets.
Claim(w, S) ==
    /\ Idle(w)
    /\ S # {} /\ S \subseteq Claimable
    /\ status' = [r \in Row |-> IF r \in S THEN "processing" ELSE status[r]]
    /\ owner' = [r \in Row |-> IF r \in S THEN w ELSE owner[r]]
    /\ attempts' = [r \in Row |-> IF r \in S THEN attempts[r] + 1
                                             ELSE attempts[r]]
    /\ ready' = ready \ S
    /\ stale' = stale \ S
    /\ batch' = [batch EXCEPT ![w] = S]
    /\ UNCHANGED <<expired, job, seen, outcome, doomed, served, abandons,
                   lapses>>

-----------------------------------------------------------------------------
(* One claimed row: re-read it, run its handler, write the outcome back.   *)

\* Mutant of Holds: the WHERE does not name the worker.
HoldsByStatus(w, r) == w \in Worker /\ status[r] = "processing"

\* Is the row still this worker's?  The WHERE of the read and of each update.
Holds(w, r) == status[r] = "processing" /\ owner[r] = w

Start(w, r) ==
    /\ job[w] = NoOne
    /\ r \in batch[w]
    /\ Holds(w, r)
    /\ batch' = [batch EXCEPT ![w] = @ \ {r}]
    /\ job' = [job EXCEPT ![w] = r]
    /\ seen' = [seen EXCEPT ![w] = attempts[r]]
    /\ outcome' = [outcome EXCEPT ![w] = "running"]
    /\ UNCHANGED <<status, owner, attempts, ready, stale, expired, doomed,
                   served, abandons, lapses>>

\* The row was cancelled, settled or reclaimed while it waited in the batch.
PassOver(w, r) ==
    /\ job[w] = NoOne
    /\ r \in batch[w]
    /\ ~Holds(w, r)
    /\ batch' = [batch EXCEPT ![w] = @ \ {r}]
    /\ UNCHANGED <<status, owner, attempts, ready, stale, expired, job, seen,
                   outcome, doomed, served, abandons, lapses>>

HandlerReturns(w, o) ==
    /\ job[w] # NoOne
    /\ outcome[w] = "running"
    /\ outcome' = [outcome EXCEPT ![w] = o]
    /\ served' = IF o = "ok" THEN served \cup {job[w]} ELSE served
    /\ UNCHANGED <<status, owner, attempts, ready, stale, expired, batch, job,
                   seen, doomed, abandons, lapses>>

\* The locals of processOne go out of scope.
ForgetJob(w) ==
    /\ job' = [job EXCEPT ![w] = NoOne]
    /\ seen' = [seen EXCEPT ![w] = 0]
    /\ outcome' = [outcome EXCEPT ![w] = "running"]

\* UPDATE ... WHERE id = :job AND status = 'processing' AND locked_by = :w
WriteBack(w, newStatus) ==
    LET r == job[w] IN
    /\ IF Holds(w, r)
         THEN /\ status' = [status EXCEPT ![r] = newStatus]
              /\ owner' = [owner EXCEPT ![r] = NoOne]
              /\ stale' = stale \ {r}
         ELSE UNCHANGED <<status, owner, stale>>
    /\ ForgetJob(w)
    /\ UNCHANGED <<attempts, ready, expired, batch, doomed, served, abandons,
                   lapses>>

SettleDone(w) ==
    /\ job[w] # NoOne /\ outcome[w] = "ok"
    /\ WriteBack(w, "done")

SettleSkipped(w) ==
    /\ job[w] # NoOne /\ outcome[w] = "skip"
    /\ WriteBack(w, "skipped")

\* A retry waits out its backoff: the claim took it out of `ready'.
SettleFailure(w) ==
    /\ job[w] # NoOne /\ outcome[w] = "failed"
    /\ WriteBack(w, IF seen[w] >= MaxAttempts THEN "dead" ELSE "waiting")

\* The success update sits inside the try block: if the database rejects it,
\* the handler's success is treated as a failure.
SettleThrows(w) ==
    /\ job[w] # NoOne /\ outcome[w] \in {"ok", "skip"}
    /\ outcome' = [outcome EXCEPT ![w] = "failed"]
    /\ UNCHANGED <<status, owner, attempts, ready, stale, expired, batch, job,
                   seen, doomed, served, abandons, lapses>>

\* The process dies, or the failure update throws and tick() drops what is
\* left of the batch.  The rows stay in 'processing' until the lease lapses.
Abandon(w) ==
    /\ ~Idle(w)
    /\ abandons < MaxAbandons
    /\ abandons' = abandons + 1
    /\ batch' = [batch EXCEPT ![w] = {}]
    /\ ForgetJob(w)
    /\ doomed' = [doomed EXCEPT ![w] = {}]
    /\ UNCHANGED <<status, owner, attempts, ready, stale, expired, served,
                   lapses>>

-----------------------------------------------------------------------------
(* The passing of time.                                                    *)

BecomesReady(r) ==
    /\ status[r] = "waiting" /\ r \notin ready
    /\ ready' = ready \cup {r}
    /\ UNCHANGED <<status, owner, attempts, stale, expired, batch, job, seen,
                   outcome, doomed, served, abandons, lapses>>

\* Does a live worker still have the row in hand?
InHand(r) == \E w \in Worker : owner[r] = w /\ (job[w] = r \/ r \in batch[w])

LeaseRunsOut(r) ==
    /\ status[r] = "processing" /\ r \notin stale
    /\ stale' = stale \cup {r}
    /\ UNCHANGED <<status, owner, attempts, ready, expired, batch, job, seen,
                   outcome, doomed, served, abandons>>

LeaseOfAbandonedRow(r) == ~InHand(r) /\ LeaseRunsOut(r) /\ UNCHANGED lapses

\* A handler slower than a minute, or a row late in a slow batch.
LeaseOfSlowWorker(r) ==
    /\ InHand(r)
    /\ lapses < MaxLapses
    /\ LeaseRunsOut(r)
    /\ lapses' = lapses + 1

RetentionEnds(r) ==
    /\ status[r] \in Terminal /\ r \notin expired
    /\ expired' = expired \cup {r}
    /\ UNCHANGED <<status, owner, attempts, ready, stale, batch, job, seen,
                   outcome, doomed, served, abandons, lapses>>

-----------------------------------------------------------------------------
(* pruneExpired: two statements, without a transaction around them.        *)

PruneSelect(w) ==
    /\ Idle(w)
    /\ \E r \in expired : status[r] \in Terminal
    /\ doomed' = [doomed EXCEPT
                    ![w] = {r \in expired : status[r] \in Terminal}]
    /\ UNCHANGED <<status, owner, attempts, ready, stale, expired, batch, job,
                   seen, outcome, served, abandons, lapses>>

PruneDelete(w) ==
    /\ doomed[w] # {}
    /\ status' = [r \in Row |-> IF r \in doomed[w] THEN "deleted"
                                                   ELSE status[r]]
    /\ owner' = [r \in Row |-> IF r \in doomed[w] THEN NoOne ELSE owner[r]]
    /\ ready' = ready \ doomed[w]
    /\ stale' = stale \ doomed[w]
    /\ expired' = expired \ doomed[w]
    /\ doomed' = [doomed EXCEPT ![w] = {}]
    /\ UNCHANGED <<attempts, batch, job, seen, outcome, served, abandons,
                   lapses>>

-----------------------------------------------------------------------------
\* What one worker does with its rows; Returns says how its handler may end.
WorkerStep(w, Returns) ==
    \/ \E S \in SUBSET Row : Claim(w, S)
    \/ \E r \in Row : Start(w, r) \/ PassOver(w, r)
    \/ \E o \in Returns : HandlerReturns(w, o)
    \/ SettleDone(w) \/ SettleSkipped(w) \/ SettleFailure(w)
    \/ SettleThrows(w)
    \/ Abandon(w)
    \/ PruneSelect(w) \/ PruneDelete(w)

TimeStep ==
    \E r \in Row : \/ BecomesReady(r)
                   \/ LeaseOfAbandonedRow(r)
                   \/ LeaseOfSlowWorker(r)
                   \/ RetentionEnds(r)

QueueNext(Returns) == (\E w \in Worker : WorkerStep(w, Returns)) \/ TimeStep

(***************************************************************************)
(* Fairness: the interval keeps firing and a handler returns or throws     *)
(* (weak fairness of a worker's steps on what it has in hand), leases,     *)
(* backoffs and due times run out, and no ready row is passed over for     *)
(* ever, because the claim takes the oldest rows first (strong fairness    *)
(* of claiming each row).  Abandon, pruning and slow leases are not fair.  *)
(***************************************************************************)
QueueFairness ==
    /\ \A w \in Worker :
         /\ WF_queueVars(\E r \in Row : Start(w, r) \/ PassOver(w, r))
         /\ WF_queueVars(\E o \in Outcome \ {"running", "skip"} :
                            HandlerReturns(w, o))
         /\ WF_queueVars(SettleDone(w) \/ SettleSkipped(w) \/ SettleFailure(w))
         /\ WF_queueVars(PruneDelete(w))
    /\ \A r \in Row :
         /\ WF_queueVars(BecomesReady(r))
         /\ WF_queueVars(LeaseOfAbandonedRow(r))
         /\ SF_queueVars(\E w \in Worker, S \in SUBSET Row :
                            r \in S /\ Claim(w, S))

-----------------------------------------------------------------------------
(***************************************************************************)
(* Fencing.  A worker that still holds a row it is handling acts for the   *)
(* latest claim of it: the attempt number it read is the row's current     *)
(* one.  This is what keeps the outcome of an overtaken attempt, or a      *)
(* second claim by the same locked_by, from being written over a newer one *)
(* (the WHERE clauses of processOne).                                      *)
(***************************************************************************)
LeaseFencing ==
    \A w \in Worker :
        job[w] # NoOne /\ Holds(w, job[w]) => seen[w] = attempts[job[w]]

(***************************************************************************)
(* A row is 'done' only after some run of its handler returned normally,   *)
(* whichever worker settled it and however many leases lapsed on the way   *)
(* (at-least-once delivery, the class comment of the runtime).             *)
(***************************************************************************)
DoneOnlyAfterSuccess == \A r \in Row : status[r] = "done" => r \in served

(***************************************************************************)
(* A row is given up only when its attempt budget was really spent.        *)
(***************************************************************************)
DeadOnlyAtCap ==
    \A r \in Row : status[r] = "dead" => attempts[r] >= MaxAttempts

(***************************************************************************)
(* A row's handler runs in two workers at once only after a lease ran out  *)
(* under a live worker: a crash, a restart, a retry or a cancellation      *)
(* alone never produces two concurrent runs, and neither does the row's    *)
(* re-read between the claim and the handler.                              *)
(***************************************************************************)
NoOverlapWithoutLapse ==
    lapses = 0 =>
        \A w1, w2 \in Worker :
            job[w1] # NoOne /\ job[w1] = job[w2] => w1 = w2

(***************************************************************************)
(* No path leaves a lock behind on a settled row, and none drops it from a *)
(* claimed one (else the row would be stuck, or settled by nobody).        *)
(***************************************************************************)
LockedIffProcessing ==
    \A r \in Row : owner[r] # NoOne <=> status[r] = "processing"

(***************************************************************************)
(* The facts the properties above and below rest on.  A handler that       *)
(* returned normally is on record; rows awaiting deletion are settled; a   *)
(* worker has a row in hand once, and the row exists; and while no lease   *)
(* has run out under a live worker, a row in hand is held or was settled   *)
(* by another.                                                             *)
(***************************************************************************)
SuccessNoted == \A w \in Worker : outcome[w] = "ok" => job[w] \in served

CondemnedAreSettled ==
    \A r \in Row :
        r \in expired \/ (\E w \in Worker : r \in doomed[w])
        => status[r] \in Terminal \cup {"deleted"}

InHandOnce == \A w \in Worker : job[w] \notin batch[w]

InHandExists ==
    \A w \in Worker, r \in Row :
        job[w] = r \/ r \in batch[w] => status[r] # "unborn"

HeldOrSettled ==
    lapses = 0 =>
        \A w \in Worker, r \in Row :
            job[w] = r \/ r \in batch[w] =>
                \/ Holds(w, r) /\ r \notin stale
                \/ status[r] \in Terminal \cup {"deleted"}

(***************************************************************************)
(* A settled row stays settled: a late worker, a lapsed lease or a retry   *)
(* never moves it again; only retention may delete it.                     *)
(***************************************************************************)
SettledStays ==
    [][\A r \in Row : status[r] \in Terminal =>
                        status'[r] \in {status[r], "deleted"}]_queueVars

(***************************************************************************)
(* Retention never deletes a row that still has work to do: the delete by  *)
(* id hits only rows that were settled when it runs, although the ids come *)
(* from an earlier statement.                                              *)
(***************************************************************************)
OnlySettledDeleted ==
    [][\A r \in Row : Active(r) => status'[r] # "deleted"]_queueVars
=============================================================================
