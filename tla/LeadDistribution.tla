--------------------------- MODULE LeadDistribution ---------------------------
(***************************************************************************)
(* Distributing the leads of one pipeline to its participants: the         *)
(* executor of assign_opportunity_owner and the CRM's                      *)
(* distributeOpportunityOwner, run by several workers at once, next to     *)
(* people who take or close leads and edit the pipeline.                   *)
(*                                                                         *)
(* A transaction locks the lead FOR UPDATE and then the pipeline FOR SHARE *)
(* and holds both until it commits.  The rotation's cursor is in the       *)
(* pipeline's metadata, so a round-robin distribution also updates the     *)
(* pipeline: it must wait for the other holders of the shared lock, and    *)
(* when two wait for each other PostgreSQL aborts one of them.             *)
(***************************************************************************)
EXTENDS Naturals, Sequences, FiniteSets

CONSTANTS
    Worker,      \* automation workers
    Lead,        \* open opportunities of the pipeline
    Member,      \* users
    Nobody,      \* no owner, no cursor
    Pools,       \* participant lists the pipeline is given, duplicates left out
    Strategies,  \* strategies of the automation
    Edits,       \* what a patch of the pipeline names
    MaxByPeople, \* bound: what people do
    MaxCrashes   \* bound: worker crashes

ASSUME DistributionAssumption ==
    /\ Nobody \notin Member /\ Lead # {}
    /\ Pools \subseteq Seq(Member) /\ Pools # {}
    /\ \A p \in Pools : \A i, j \in DOMAIN p : p[i] = p[j] => i = j
    /\ Strategies \subseteq {"round_robin", "least_volume", "by_channel"}
    /\ Edits \subseteq {"name", "participants", "metadata"}
    /\ MaxByPeople \in Nat /\ MaxCrashes \in Nat

VARIABLES
    lead,     \* Lead -> its owner and whether it is open
    pipeline, \* the pipeline's participants and rotation cursor
    job,      \* Worker -> the distribution it is running
    draft,    \* the pipeline as a patch in progress has read it
    event,    \* Lead -> whom the event of its distribution names, by key
    settled,  \* Lead -> how its automation's delivery ended
    told,     \* notices sent: [lead, user]
    people, crashes,
    taken,    \* history: leads a person gave another owner
    shared,   \* history: leads that two workers ran at once
    quiet,    \* history: leads whose notice was dropped, or whose delivery
              \* ended without a run
    last,     \* history: the member the rotation gave a lead to last
    patched,  \* history: a patch was saved since
    slips     \* history: patched, at the times the rotation lost its place

vars == <<lead, pipeline, job, draft, event, settled, told, people, crashes,
          taken, shared, quiet, last, patched, slips>>

Owner == Member \cup {Nobody}

Row == [pool : Pools, cursor : Owner]

Job == [pc : {"rest", "asked", "locked", "chosen", "done"}, lead : Lead,
        turn : BOOLEAN, choice : Owner]

Idle == [pc |-> "rest", lead |-> CHOOSE l \in Lead : TRUE,
         turn |-> FALSE, choice |-> Nobody]

NoDraft == [reading |-> FALSE,
            row |-> [pool |-> CHOOSE p \in Pools : TRUE, cursor |-> Nobody]]

TypeOK ==
    /\ lead \in [Lead -> [owner : Owner, open : BOOLEAN]]
    /\ pipeline \in Row
    /\ job \in [Worker -> Job]
    /\ \A w \in Worker : job[w].pc = "chosen" => job[w].choice \in Member
    /\ draft \in [reading : BOOLEAN, row : Row]
    /\ event \in [Lead -> Owner]
    /\ settled \in [Lead -> {"no", "confirmed", "refused", "failed",
                            "shadow"}]
    /\ told \subseteq [lead : Lead, user : Member]
    /\ people \in 0..MaxByPeople /\ crashes \in 0..MaxCrashes
    /\ {taken, shared, quiet} \subseteq SUBSET Lead
    /\ last \in Owner /\ patched \in BOOLEAN /\ slips \subseteq BOOLEAN

Init ==
    /\ lead = [l \in Lead |-> [owner |-> Nobody, open |-> TRUE]]
    /\ pipeline \in [pool : Pools, cursor : {Nobody}]
    /\ job = [w \in Worker |-> Idle]
    /\ draft = NoDraft
    /\ event = [l \in Lead |-> Nobody]
    /\ settled = [l \in Lead |-> "no"]
    /\ told = {}
    /\ people = 0 /\ crashes = 0
    /\ taken = {} /\ shared = {} /\ quiet = {}
    /\ last = Nobody /\ patched = FALSE /\ slips = {}

-----------------------------------------------------------------------------
(* chooseAssignee                                                          *)

\* pool.indexOf(cursor), if it is there.
PlaceOf(pool, cursor) == {i \in DOMAIN pool : pool[i] = cursor}

\* Mutant of NextInRotation: a cursor that is not in the pool is kept.
NextOrCursor(pool, cursor) ==
    LET at == PlaceOf(pool, cursor) IN
    IF at = {} THEN cursor
    ELSE pool[((CHOOSE i \in at : TRUE) % Len(pool)) + 1]

\* The next after the cursor, wrapping; an unknown cursor starts over.
NextInRotation(pool, cursor) ==
    LET at == PlaceOf(pool, cursor) IN
    IF at = {} THEN pool[1]
    ELSE pool[((CHOOSE i \in at : TRUE) % Len(pool)) + 1]

Load(m) == Cardinality({l \in Lead : lead[l].open /\ lead[l].owner = m})

\* The fewest open leads; the earlier in the pool's order on a tie.
LeastLoaded(pool) ==
    {pool[i] : i \in {k \in DOMAIN pool : \A j \in DOMAIN pool :
                         \/ Load(pool[k]) < Load(pool[j])
                         \/ Load(pool[k]) = Load(pool[j]) /\ k <= j}}

\* by_channel: the user the lead's channel is mapped to, or the fallback.
Choices(strategy) ==
    LET pool == pipeline.pool IN
    CASE strategy = "round_robin" -> {NextInRotation(pool, pipeline.cursor)}
      [] strategy = "least_volume" -> LeastLoaded(pool)
      [] strategy = "by_channel" -> {pool[i] : i \in DOMAIN pool}

-----------------------------------------------------------------------------
(* The locks: a row is held from the statement that locks it to the end of *)
(* the transaction.                                                        *)

\* Mutant of RowFree: the lead is read without a lock.
RowFreeAlways(l) == TRUE

RowFree(l) ==
    \A w \in Worker : job[w].lead = l => job[w].pc \notin {"locked", "chosen"}

\* The transactions that hold the pipeline FOR SHARE.
Sharers == {w \in Worker : job[w].pc = "chosen"}

\* Those that wait for the others, to update it.
Upgraders == {w \in Sharers : job[w].turn}

-----------------------------------------------------------------------------
(* A worker's distribution.                                                *)

\* Mutant of Replayed: the key of an earlier run is not looked for.
ReplayedNever(l) == FALSE

\* findReplay: an earlier run of the automation's key assigned this lead.
Replayed(l) == event[l] # Nobody

\* A delivery (or one whose worker is slow or gone) is executed.  A replay
\* answers with the lead's owner of now.
Ask(w, l) ==
    /\ job[w].pc = "rest" /\ settled[l] = "no"
    /\ job' = [job EXCEPT ![w] =
                [pc |-> IF Replayed(l) THEN "done" ELSE "asked",
                 lead |-> l, turn |-> FALSE,
                 choice |-> IF Replayed(l) THEN lead[l].owner ELSE Nobody]]
    /\ shared' = IF \E v \in Worker : job[v].pc # "rest" /\ job[v].lead = l
                 THEN shared \cup {l} ELSE shared
    /\ UNCHANGED <<lead, pipeline, draft, event, settled, told, people,
                   crashes, taken, quiet, last, patched, slips>>

\* The conditions, the gate and the caps are asked each time a delivery is
\* executed, before any earlier run is looked for.  Where one says no, a shadow
\* run is recorded and the delivery acknowledged.
Decline(l) ==
    /\ \E w \in Worker : job[w].pc = "rest"
    /\ settled[l] = "no"
    /\ settled' = [settled EXCEPT ![l] = "shadow"]
    /\ quiet' = quiet \cup {l}
    /\ UNCHANGED <<lead, pipeline, job, draft, event, told, people, crashes,
                   taken, shared, last, patched, slips>>

\* The automation's delivery ends, unless another attempt ended it.
Settle(w, how) ==
    /\ job' = [job EXCEPT ![w] = Idle]
    /\ settled' = [settled EXCEPT ![job[w].lead] =
                     IF @ = "no" THEN how ELSE @]

\* Mutant of Available: an owned lead is taken.
AvailableToAll(l) == lead[l].open

\* Only an open lead that nobody owns is distributed.
Available(l) == lead[l].open /\ lead[l].owner = Nobody

LockLead(w) ==
    /\ job[w].pc = "asked" /\ RowFree(job[w].lead)
    /\ IF Available(job[w].lead)
         THEN /\ job' = [job EXCEPT ![w].pc = "locked"]
              /\ UNCHANGED settled
         ELSE Settle(w, "refused")
    /\ UNCHANGED <<lead, pipeline, draft, event, told, people, crashes, taken,
                   shared, quiet, last, patched, slips>>

\* The pipeline is read FOR SHARE and somebody in its pool is chosen.
Choose(w) ==
    /\ job[w].pc = "locked"
    /\ IF pipeline.pool = <<>> THEN Settle(w, "refused")
       ELSE /\ \E s \in Strategies : \E m \in Choices(s) :
                 job' = [job EXCEPT ![w].pc = "chosen", ![w].choice = m,
                                    ![w].turn = s = "round_robin"]
            /\ UNCHANGED settled
    /\ UNCHANGED <<lead, pipeline, draft, event, told, people, crashes, taken,
                   shared, quiet, last, patched, slips>>

\* Mutant of MayUpdate: the pipeline was read without a lock.
MayUpdateAny(w) == TRUE

\* The update of the cursor waits for every other holder of the shared lock.
MayUpdate(w) == Sharers = {w}

Assign(w) ==
    /\ lead' = [lead EXCEPT ![job[w].lead].owner = job[w].choice]
    /\ event' = [event EXCEPT ![job[w].lead] = job[w].choice]
    /\ job' = [job EXCEPT ![w].pc = "done"]
    /\ UNCHANGED <<draft, settled, told, people, crashes, taken, shared,
                   quiet>>

\* Round robin moves the pipeline's cursor in the same transaction.
CommitTurn(w) ==
    LET m == job[w].choice IN
    /\ job[w].pc = "chosen" /\ job[w].turn
    /\ MayUpdate(w)
    /\ Assign(w)
    /\ pipeline' = [pipeline EXCEPT !.cursor = m]
    /\ last' = m /\ patched' = FALSE
    /\ slips' = IF m = NextInRotation(pipeline.pool, last) THEN slips
                ELSE slips \cup {patched}

CommitOther(w) ==
    /\ job[w].pc = "chosen" /\ ~job[w].turn
    /\ Assign(w)
    /\ UNCHANGED <<pipeline, last, patched, slips>>

\* The owner is told, if the automation names a channel that reaches them and
\* the notice can be published.  The delivery is confirmed either way: a notice
\* that failed is not tried again.
Announce(w) ==
    LET l == job[w].lead
        m == job[w].choice IN
    /\ job[w].pc = "done"
    /\ \/ /\ m # Nobody
          /\ told' = told \cup {[lead |-> l, user |-> m]}
          /\ UNCHANGED quiet
       \/ quiet' = quiet \cup {l} /\ UNCHANGED told
    /\ Settle(w, "confirmed")
    /\ UNCHANGED <<lead, pipeline, draft, event, people, crashes, taken,
                   shared, last, patched, slips>>

\* PostgreSQL ends a deadlock: the executor answers failed, and the delivery
\* is acknowledged all the same.
DeadlockVictim(w) ==
    /\ w \in Upgraders /\ Cardinality(Upgraders) > 1
    /\ Settle(w, "failed")
    /\ UNCHANGED <<lead, pipeline, draft, event, told, people, crashes, taken,
                   shared, quiet, last, patched, slips>>

\* A worker is lost, and what it had not committed with it; its delivery is
\* executed again when the lease has run out.
Crash(w) ==
    /\ job[w].pc # "rest"
    /\ crashes < MaxCrashes /\ crashes' = crashes + 1
    /\ job' = [job EXCEPT ![w] = Idle]
    /\ UNCHANGED <<lead, pipeline, draft, event, settled, told, people, taken,
                   shared, quiet, last, patched, slips>>

-----------------------------------------------------------------------------
(* People.                                                                 *)

\* A person gives the lead an owner, or none.
Reassign(l, m) ==
    /\ people < MaxByPeople /\ people' = people + 1
    /\ RowFree(l) /\ m # lead[l].owner
    /\ lead' = [lead EXCEPT ![l].owner = m]
    /\ taken' = taken \cup {l}
    /\ UNCHANGED <<pipeline, job, draft, event, settled, told, crashes, shared,
                   quiet, last, patched, slips>>

Close(l) ==
    /\ people < MaxByPeople /\ people' = people + 1
    /\ RowFree(l) /\ lead[l].open
    /\ lead' = [lead EXCEPT ![l].open = FALSE]
    /\ UNCHANGED <<pipeline, job, draft, event, settled, told, crashes, taken,
                   shared, quiet, last, patched, slips>>

\* patchPipeline reads the pipeline without a lock ...
ReadPipeline ==
    /\ ~draft.reading
    /\ people < MaxByPeople /\ people' = people + 1
    /\ draft' = [reading |-> TRUE, row |-> pipeline]
    /\ UNCHANGED <<lead, pipeline, job, event, settled, told, crashes, taken,
                   shared, quiet, last, patched, slips>>

\* ... and saves every column as it read it, except those the patch names.
SavePipeline(e, p) ==
    /\ draft.reading /\ Sharers = {}
    /\ pipeline' = [pool |-> IF e = "participants" THEN p
                             ELSE draft.row.pool,
                    cursor |-> IF e = "metadata" THEN Nobody
                               ELSE draft.row.cursor]
    /\ draft' = NoDraft
    /\ patched' = TRUE
    /\ UNCHANGED <<lead, job, event, settled, told, people, crashes, taken,
                   shared, quiet, last, slips>>

-----------------------------------------------------------------------------

WorkerStep(w) == LockLead(w) \/ Choose(w) \/ CommitTurn(w) \/ CommitOther(w)
                   \/ Announce(w) \/ DeadlockVictim(w)

Next ==
    \/ \E w \in Worker :
         \/ \E l \in Lead : Ask(w, l)
         \/ WorkerStep(w)
         \/ Crash(w)
    \/ \E l \in Lead : Decline(l)
    \/ \E l \in Lead : Close(l) \/ \E m \in Owner : Reassign(l, m)
    \/ ReadPipeline
    \/ \E e \in Edits, p \in Pools : SavePipeline(e, p)

Spec == Init /\ [][Next]_vars

\* A transaction that has begun goes on, PostgreSQL ends its deadlocks, and
\* the queue hands a delivery out again.  People need do nothing.
FairSpec ==
    /\ Spec
    /\ \A w \in Worker :
         /\ SF_vars(WorkerStep(w))
         /\ SF_vars(\E l \in Lead : Ask(w, l))

-----------------------------------------------------------------------------
(***************************************************************************)
(* The rotation never loses its place by distributions alone: whatever     *)
(* they interleave, crash in or abort, each turn is the next of the ring   *)
(* after the member who had the last one.                                  *)
(***************************************************************************)
TurnsInOrder == FALSE \notin slips

(***************************************************************************)
(* A lead that has an owner is never given another one by a distribution,  *)
(* though two workers may run it and a person may take it meanwhile; and a *)
(* closed lead is never distributed.                                       *)
(***************************************************************************)
OwnerKept ==
    [][\A l \in Lead :
         lead'[l].owner # lead[l].owner
           => \/ lead[l].owner = Nobody /\ lead[l].open
              \/ \E m \in Owner : Reassign(l, m)]_vars

(***************************************************************************)
(* A worker that is lost between giving a lead its owner and telling them  *)
(* does not cost the notice: the delivery is executed again, finds the     *)
(* earlier run by its key and tells the owner.  What does cost it: a       *)
(* notice that was dropped (no channel, no recipient, a failed publish), a *)
(* condition or gate that says no the second time, a person who gave the   *)
(* lead another owner, who is told instead, or two workers at it at once,  *)
(* where the second is refused and ends the delivery for the first too.    *)
(***************************************************************************)
OwnerIsTold ==
    \A l \in Lead : event[l] # Nobody ~>
        \/ [lead |-> l, user |-> event[l]] \in told
        \/ l \in quiet \cup shared \cup taken
=============================================================================
