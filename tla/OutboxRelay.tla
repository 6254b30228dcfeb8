---------------------------- MODULE OutboxRelay ----------------------------
(***************************************************************************)
(* InboxOutboxRelayService: every domain event of the inbox is a row of    *)
(* inbox_domain_outbox, written in the transaction that changed the state; *)
(* the relay drains the table into the realtime bus.  Its worker is the    *)
(* leased queue with a skip (realtime switched off in this process), plus  *)
(* two operations of other actors: emitting an event, and an administrator *)
(* putting a skipped or dead-lettered event back.                          *)
(***************************************************************************)
EXTENDS LeasedQueue

CONSTANT MaxReprocess     \* bound: reprocess requests

ASSUME RelayAssumption == MaxReprocess \in Nat

VARIABLES
    requeued,     \* history: how many times each event was put back
    round         \* history: Worker -> that count when it read its row

relayVars == <<queueVars, requeued, round>>

RelayTypeOK ==
    /\ QueueTypeOK
    /\ requeued \in [Row -> 0 .. MaxReprocess]
    /\ round \in [Worker -> 0 .. MaxReprocess]

RelayInit ==
    /\ QueueInit
    /\ requeued = [e \in Row |-> 0]
    /\ round = [w \in Worker |-> 0]

\* Mutant of Emit: the status vocabulary of the scheduler.
EmitAsScheduled(e) ==
    /\ status[e] = "unborn"
    /\ status' = [status EXCEPT ![e] = "scheduled"]
    /\ ready' = ready \cup {e}
    /\ UNCHANGED <<owner, attempts, stale, expired, batch, job, seen, outcome,
                   doomed, served, abandons, lapses, requeued,
                   round>>

\* available_at defaults to now(): a new event is ready at once.
Emit(e) ==
    /\ status[e] = "unborn"
    /\ status' = [status EXCEPT ![e] = "waiting"]
    /\ ready' = ready \cup {e}
    /\ UNCHANGED <<owner, attempts, stale, expired, batch, job, seen, outcome,
                   doomed, served, abandons, lapses, requeued,
                   round>>

\* The attempt budget starts over and the row leaves retention; the update
\* and its audit row are one transaction.
Reprocess(e) ==
    /\ status[e] \in {"skipped", "dead"}
    /\ requeued[e] < MaxReprocess
    /\ status' = [status EXCEPT ![e] = "waiting"]
    /\ attempts' = [attempts EXCEPT ![e] = 0]
    /\ owner' = [owner EXCEPT ![e] = NoOne]
    /\ ready' = ready \cup {e}
    /\ expired' = expired \ {e}
    /\ requeued' = [requeued EXCEPT ![e] = @ + 1]
    /\ UNCHANGED <<stale, batch, job, seen, outcome, doomed, served, abandons,
                   lapses, round>>

\* publish() reaches the bus or throws; with the gateway off it is not tried.
RelayStep ==
    /\ QueueNext({"ok", "skip", "failed"})
    /\ round' = [w \in Worker |->
                   IF job'[w] = NoOne THEN 0
                   ELSE IF job[w] = NoOne THEN requeued[job'[w]] ELSE round[w]]
    /\ UNCHANGED requeued

RelayNext == RelayStep \/ \E e \in Row : Emit(e) \/ Reprocess(e)

RelaySpec == RelayInit /\ [][RelayNext]_relayVars

FairRelaySpec == RelaySpec /\ QueueFairness

-----------------------------------------------------------------------------
(***************************************************************************)
(* A published event stays published, whatever late workers and            *)
(* administrators do; only a skipped or dead-lettered one is put back.     *)
(***************************************************************************)
PublishedStays ==
    [][\A e \in Row : status[e] = "done" =>
                        status'[e] \in {"done", "deleted"}]_relayVars

(***************************************************************************)
(* Although reprocess() starts the attempt count over, so that attempt     *)
(* numbers repeat, whoever may still write an event's outcome back has     *)
(* read the row since it was last put back, and read its latest attempt:   *)
(* no overtaken publish settles the new round.                             *)
(***************************************************************************)
HolderIsCurrent ==
    \A w \in Worker :
        job[w] # NoOne /\ Holds(w, job[w]) =>
            /\ seen[w] = attempts[job[w]]
            /\ round[w] = requeued[job[w]]

(***************************************************************************)
(* Every event, emitted or put back, is eventually published, skipped or   *)
(* dead-lettered.                                                          *)
(***************************************************************************)
EventsSettle == \A e \in Row : Active(e) ~> ~Active(e)
=============================================================================
