-------------------------- MODULE SchedulerRuntime --------------------------
(***************************************************************************)
(* PostgresSchedulerRuntime: the durable clock of the automations.  Its    *)
(* poller is the leased queue; this module adds the three operations of    *)
(* the SchedulerRuntime port, called by executors and consumers while the  *)
(* poller runs.                                                            *)
(*                                                                         *)
(* A key stands for (tenant, workspace, dedupe scope, timer key).  Timer   *)
(* ids are fresh uuids, so the ids a key may draw are fixed up front.      *)
(***************************************************************************)
EXTENDS LeasedQueue

CONSTANTS
    Key,       \* timer keys
    KeyOf,     \* Row -> Key: the key an id will be drawn for
    Caller,    \* concurrent schedule() calls
    NoKey

ASSUME SchedulerAssumption ==
    /\ KeyOf \in [Row -> Key]
    /\ NoKey \notin Key

VARIABLE
    missed    \* Caller -> key its SELECT FOR UPDATE found no active timer for

schedVars == <<queueVars, missed>>

TypeOK ==
    /\ QueueTypeOK
    /\ missed \in [Caller -> Key \cup {NoKey}]

Init ==
    /\ QueueInit
    /\ missed = [c \in Caller |-> NoKey]

TimersOf(k) == {r \in Row : KeyOf[r] = k}
ActiveTimers(k) == {r \in TimersOf(k) : Active(r)}
FreshIds(k) == {r \in TimersOf(k) : status[r] = "unborn"}

\* Mutant of Insert: the status vocabulary of another queue.
InsertAsPending(r, st) == [st EXCEPT ![r] = "pending"]

\* The columns a new timer is inserted with; due or not is for the clock.
Insert(r, st) == [st EXCEPT ![r] = "waiting"]

-----------------------------------------------------------------------------
\* schedule(), first half: no active timer to return.  (When there is one,
\* the call returns its handle and changes nothing.)
ScheduleLookup(c, k) ==
    /\ missed[c] = NoKey
    /\ ActiveTimers(k) = {}
    /\ missed' = [missed EXCEPT ![c] = k]
    /\ UNCHANGED queueVars

\* Second half: the insert, which the partial unique index lets through only
\* if no active timer of the key appeared meanwhile.
ScheduleInsert(c) ==
    LET k == missed[c] IN
    /\ k # NoKey
    /\ ActiveTimers(k) = {}
    /\ \E r \in FreshIds(k) : status' = Insert(r, status)
    /\ missed' = [missed EXCEPT ![c] = NoKey]
    /\ UNCHANGED <<owner, attempts, ready, stale, expired, batch, job, seen,
                   outcome, doomed, served, abandons, lapses>>

\* 23505: the winner's timer is read back and returned (or the error is
\* rethrown if it has left the active states by then); nothing is written.
ScheduleConflict(c) ==
    /\ missed[c] # NoKey
    /\ ActiveTimers(missed[c]) # {}
    /\ missed' = [missed EXCEPT ![c] = NoKey]
    /\ UNCHANGED queueVars

\* Mutant of Retire: a timer in the hands of a worker is not retired.
RetireScheduledOnly(k, how) ==
    [r \in Row |-> IF r \in ActiveTimers(k) /\ status[r] = "waiting"
                     THEN how ELSE status[r]]

\* Retire the active timer of a key: SET status, locked_by = NULL.
Retire(k, how) ==
    [r \in Row |-> IF r \in ActiveTimers(k) THEN how ELSE status[r]]

Unlocked(k) ==
    [r \in Row |-> IF r \in ActiveTimers(k) THEN NoOne ELSE owner[r]]

Cancel(k) ==
    /\ ActiveTimers(k) # {}
    /\ status' = Retire(k, "cancelled")
    /\ owner' = Unlocked(k)
    /\ stale' = stale \ ActiveTimers(k)
    /\ ready' = ready \ ActiveTimers(k)
    /\ UNCHANGED <<attempts, expired, batch, job, seen, outcome, doomed,
                   served, abandons, lapses, missed>>

\* Supersede and insert in one transaction; with no timer to supersede it is
\* a plain insert.
Reschedule(k) ==
    /\ \E r \in FreshIds(k) : status' = Insert(r, Retire(k, "superseded"))
    /\ owner' = Unlocked(k)
    /\ stale' = stale \ ActiveTimers(k)
    /\ ready' = ready \ ActiveTimers(k)
    /\ UNCHANGED <<attempts, expired, batch, job, seen, outcome, doomed,
                   served, abandons, lapses, missed>>

-----------------------------------------------------------------------------
\* A consumer returns or throws; the scheduler has no skip.
QueueStep == QueueNext({"ok", "failed"}) /\ UNCHANGED missed

PortStep ==
    \/ \E c \in Caller : \/ \E k \in Key : ScheduleLookup(c, k)
                         \/ ScheduleInsert(c)
                         \/ ScheduleConflict(c)
    \/ \E k \in Key : Cancel(k) \/ Reschedule(k)

Next == QueueStep \/ PortStep

Spec == Init /\ [][Next]_schedVars

FairSpec == Spec /\ QueueFairness

-----------------------------------------------------------------------------
(***************************************************************************)
(* At most one timer of a key is scheduled or processing, across racing    *)
(* schedule() calls, reschedules, retries and late workers.  The database  *)
(* enforces it on inserts; that no update of an overtaken worker brings a  *)
(* superseded timer back is up to the fencing of processOne.               *)
(***************************************************************************)
OneActivePerKey ==
    \A r1, r2 \in Row :
        Active(r1) /\ Active(r2) /\ KeyOf[r1] = KeyOf[r2] => r1 = r2

(***************************************************************************)
(* Refinement: what callers and consumers of the port see of this machine  *)
(* of workers, leases and retries is the abstract contract.  Scheduled and *)
(* processing are both "armed"; every retry and reclaim is a stutter.      *)
(***************************************************************************)
PhaseOf(s) ==
    CASE s = "unborn"     -> "none"
      [] s = "done"       -> "fired"
      [] s = "cancelled"  -> "cancelled"
      [] s = "superseded" -> "superseded"
      [] s = "dead"       -> "given_up"
      [] s = "deleted"    -> "forgotten"
      [] OTHER            -> "armed"

Contract == INSTANCE TimerContract
              WITH Timer <- Row,
                   phase <- [r \in Row |-> PhaseOf(status[r])],
                   delivered <- served

ImplementsContract == Contract!ContractSpec

(***************************************************************************)
(* Every timer that is armed is eventually fired, cancelled, superseded or *)
(* dead-lettered, whatever its consumer does and whichever workers die.    *)
(***************************************************************************)
TimersSettle == \A r \in Row : Active(r) ~> ~Active(r)
=============================================================================
