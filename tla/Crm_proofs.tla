------------------------------ MODULE Crm_proofs ------------------------------
(***************************************************************************)
(* The two parts of the CRM: the distribution of leads, for any number of  *)
(* leads, workers and members, any pools and any number of crashes and     *)
(* edits; and the deals of a conversation, for any requests, keys, cards   *)
(* and commands.                                                           *)
(***************************************************************************)
EXTENDS LeadDistribution, OpportunityLifecycle, TLAPS, WellFoundedInduction

(* The distribution: the rotation's place and the ownership of a lead rest *)
(* on the row locks alone.                                                 *)

USE DistributionAssumption

Holding(w) == job[w].pc \in {"locked", "chosen"}

\* A lead is locked by one worker, and stays available to it.
LockedIsAvailable ==
    /\ \A w \in Worker : Holding(w) => Available(job[w].lead)
    /\ \A v, w \in Worker :
         Holding(v) /\ Holding(w) /\ job[v].lead = job[w].lead => v = w

\* Whoever holds the pipeline has chosen from the row as it still is.
TurnIsNext ==
    \A w \in Worker : job[w].pc = "chosen" /\ job[w].turn =>
        job[w].choice = NextInRotation(pipeline.pool, pipeline.cursor)

\* Only a patch that wrote its own copy back moves the rotation's place.
CursorIsLast == ~patched => last = pipeline.cursor

DistributionInv ==
    /\ TypeOK
    /\ LockedIsAvailable /\ TurnIsNext /\ CursorIsLast
    /\ TurnsInOrder

(***************************************************************************)
(* Whom a strategy chooses belongs to the pool, if there is one.           *)
(***************************************************************************)
LEMMA RotationStaysInPool ==
    ASSUME NEW pool \in Pools, pool # <<>>, NEW cursor
    PROVE  NextInRotation(pool, cursor) \in Member
<1> DEFINE at == PlaceOf(pool, cursor)
<1>1. /\ pool \in Seq(Member) /\ Len(pool) \in Nat \ {0}
      /\ DOMAIN pool = 1 .. Len(pool)
      /\ \A i \in 1 .. Len(pool) : pool[i] \in Member
      OBVIOUS
<1>2. CASE at = {}
      BY <1>1, <1>2 DEF NextInRotation
<1>3. CASE at # {}
  <2> DEFINE i == CHOOSE j \in at : TRUE
  <2>1. i \in 1 .. Len(pool)
        BY <1>1, <1>3 DEF PlaceOf
  <2>2. (i % Len(pool)) + 1 \in 1 .. Len(pool)
        BY <1>1, <2>1
  <2>3. NextInRotation(pool, cursor) = pool[(i % Len(pool)) + 1]
        BY <1>3 DEF NextInRotation
  <2> QED
      BY <1>1, <2>2, <2>3
<1> QED
    BY <1>2, <1>3

LEMMA ChoicesInPool ==
    ASSUME pipeline \in Row, pipeline.pool # <<>>, NEW s \in Strategies
    PROVE  Choices(s) \subseteq Member
<1>1. /\ pipeline.pool \in Pools
      /\ \A i \in DOMAIN pipeline.pool : pipeline.pool[i] \in Member
      BY DEF Row
<1>2. s \in {"round_robin", "least_volume", "by_channel"}
      OBVIOUS
<1>3. NextInRotation(pipeline.pool, pipeline.cursor) \in Member
      BY <1>1, RotationStaysInPool
<1>4. LeastLoaded(pipeline.pool) \subseteq Member
      BY <1>1 DEF LeastLoaded
<1> QED
    BY <1>1, <1>2, <1>3, <1>4 DEF Choices

(***************************************************************************)
(* The inductive invariant holds at the start.                             *)
(***************************************************************************)
LEMMA DistributionInitially == Init => DistributionInv
<1> SUFFICES ASSUME Init
             PROVE  DistributionInv
    OBVIOUS
<1>1. Idle \in Job
      BY DEF Idle, Job, Owner
<1>2. NoDraft \in [reading : BOOLEAN, row : Row]
      BY DEF NoDraft, Row, Owner
<1>3. lead \in [Lead -> [owner : Owner, open : BOOLEAN]]
      BY DEF Init, Owner
<1>4. pipeline \in Row /\ last \in Owner
      BY DEF Init, Row, Owner
<1>5. people \in 0..MaxByPeople /\ crashes \in 0..MaxCrashes
      BY DEF Init
<1>6. TypeOK
  <2>1. event \in [Lead -> Owner]
        BY DEF Init, Owner
  <2> QED
      BY <1>1, <1>2, <1>3, <1>4, <1>5, <2>1 DEF Init, TypeOK, Idle
<1>7. LockedIsAvailable /\ TurnIsNext /\ CursorIsLast /\ TurnsInOrder
      BY DEF Init, LockedIsAvailable, Holding, TurnIsNext, CursorIsLast,
             TurnsInOrder, Idle
<1> QED
    BY <1>6, <1>7 DEF DistributionInv

(***************************************************************************)
(* A worker asks for a lead, or gets the answer of an earlier run.         *)
(***************************************************************************)
LEMMA AskKeeps ==
    ASSUME DistributionInv, NEW w \in Worker, NEW l \in Lead, Ask(w, l)
    PROVE  DistributionInv'
<1> USE DEF DistributionInv, Ask
<1>1. lead[l].owner \in Owner
      BY DEF TypeOK
<1>2. job' \in [Worker -> Job]
      BY <1>1 DEF TypeOK, Job, Owner
<1>3. TypeOK'
  <2>1. shared' \subseteq Lead
        BY DEF TypeOK
  <2>2. \A v \in Worker : job'[v].pc = "chosen" => job'[v].choice \in Member
        BY DEF TypeOK
  <2> QED
      BY <1>2, <2>1, <2>2 DEF TypeOK
<1>4. \A v \in Worker : ~(job'[v].pc \in {"locked", "chosen"})
                          \/ job'[v] = job[v]
      BY DEF TypeOK
<1>5. (LockedIsAvailable /\ TurnIsNext /\ CursorIsLast /\ TurnsInOrder)'
      BY <1>4 DEF LockedIsAvailable, Holding, Available, TurnIsNext,
                  CursorIsLast, TurnsInOrder
<1> QED
    BY <1>3, <1>5

(***************************************************************************)
(* A delivery that ends leaves no lock behind.                             *)
(***************************************************************************)
LEMMA SettleKeeps ==
    ASSUME DistributionInv, NEW w \in Worker,
           NEW how \in {"confirmed", "refused", "failed"},
           Settle(w, how), told' \subseteq [lead : Lead, user : Member],
           quiet' \subseteq Lead,
           UNCHANGED <<lead, pipeline, draft, event, people, crashes, taken,
                       shared, last, patched, slips>>
    PROVE  DistributionInv'
<1> USE DEF DistributionInv, Settle
<1>1. Idle \in Job
      BY DEF Idle, Job, Owner
<1>2. settled' \in [Lead -> {"no", "confirmed", "refused", "failed", "shadow"}]
      BY DEF TypeOK
<1>3. \A v \in Worker : job'[v] = job[v] \/ job'[v] = Idle
      BY DEF TypeOK
<1>4. Idle.pc = "rest"
      BY DEF Idle
<1>5. TypeOK'
      BY <1>1, <1>2, <1>3, <1>4 DEF TypeOK
<1>6. (LockedIsAvailable /\ TurnIsNext /\ CursorIsLast /\ TurnsInOrder)'
      BY <1>3, <1>4 DEF LockedIsAvailable, Holding, Available, TurnIsNext,
                        CursorIsLast, TurnsInOrder
<1> QED
    BY <1>5, <1>6

(***************************************************************************)
(* Locking the lead: nobody else holds it, and it is checked under lock.   *)
(***************************************************************************)
LEMMA LockLeadKeeps ==
    ASSUME DistributionInv, NEW w \in Worker, LockLead(w)
    PROVE  DistributionInv'
<1> USE DEF DistributionInv, LockLead
<1>1. CASE ~Available(job[w].lead)
      BY <1>1, SettleKeeps DEF TypeOK
<1>2. CASE Available(job[w].lead)
  <2> USE <1>2
  <2>1. /\ job[w] \in Job
        /\ job' = [job EXCEPT ![w] = [job[w] EXCEPT !.pc = "locked"]]
        /\ [job[w] EXCEPT !.pc = "locked"] \in Job
        BY DEF TypeOK, Job
  <2>2. TypeOK'
        BY <2>1 DEF TypeOK
  <2>3. \A v \in Worker : \/ job'[v] = job[v] /\ v # w
                          \/ /\ v = w /\ job'[w].pc = "locked"
                             /\ job'[w].lead = job[w].lead
        BY <2>1 DEF TypeOK, Job
  <2>4. lead' = lead /\ RowFree(job[w].lead)
        OBVIOUS
  <2>5. \A v \in Worker : Holding(v) => job[v].lead # job[w].lead
        BY <2>4 DEF RowFree, Holding
  <2>6. \A v \in Worker : v # w => job'[v] = job[v]
        BY <2>3
  <2>7. LockedIsAvailable'
    <3>1. \A v \in Worker : Holding(v)' => Available(job[v].lead)'
          BY <1>2, <2>3, <2>4 DEF LockedIsAvailable, Holding, Available
    <3>2. ASSUME NEW u \in Worker, NEW v \in Worker, Holding(u)', Holding(v)',
                 job'[u].lead = job'[v].lead
          PROVE  u = v
          BY <2>3, <2>5, <2>6, <3>2 DEF LockedIsAvailable, Holding
    <3> QED
        BY <3>1, <3>2 DEF LockedIsAvailable, Available
  <2>8. (TurnIsNext /\ CursorIsLast /\ TurnsInOrder)'
        BY <2>3 DEF TurnIsNext, CursorIsLast, TurnsInOrder
  <2> QED
      BY <2>2, <2>7, <2>8
<1> QED
    BY <1>1, <1>2

(***************************************************************************)
(* The choice is made from the pipeline's row as it is.                    *)
(***************************************************************************)
LEMMA ChooseKeeps ==
    ASSUME DistributionInv, NEW w \in Worker, Choose(w)
    PROVE  DistributionInv'
<1> USE DEF DistributionInv
<1>1. CASE pipeline.pool = <<>>
      BY <1>1, SettleKeeps DEF TypeOK, Choose
<1>2. CASE pipeline.pool # <<>>
  <2>0. PICK s \in Strategies : \E m \in Choices(s) :
            job' = [job EXCEPT ![w].pc = "chosen", ![w].choice = m,
                               ![w].turn = s = "round_robin"]
        BY <1>2 DEF Choose
  <2>1. PICK m \in Choices(s) :
            job' = [job EXCEPT ![w].pc = "chosen", ![w].choice = m,
                               ![w].turn = s = "round_robin"]
        BY <2>0
  <2>2. m \in Member
        BY <1>2, ChoicesInPool DEF TypeOK
  <2>3. /\ job[w] \in Job /\ job[w].pc = "locked"
        /\ UNCHANGED <<lead, pipeline, draft, event, settled, told, people,
                       crashes, taken, shared, quiet, last, patched, slips>>
        BY <1>2 DEF TypeOK, Choose
  <2>4. /\ job'[w].pc = "chosen" /\ job'[w].choice = m
        /\ job'[w].turn = (s = "round_robin") /\ job'[w].lead = job[w].lead
        /\ job'[w] \in Job
        /\ \A v \in Worker : v # w => job'[v] = job[v]
        BY <2>1, <2>2, <2>3 DEF TypeOK, Job, Owner
  <2>5. job' \in [Worker -> Job]
        BY <2>1, <2>4 DEF TypeOK
  <2>6. TypeOK'
        BY <2>2, <2>3, <2>4, <2>5 DEF TypeOK
  <2>7. LockedIsAvailable'
        BY <2>3, <2>4 DEF LockedIsAvailable, Holding, Available
  <2>8. TurnIsNext'
    <3>1. s = "round_robin" =>
            m = NextInRotation(pipeline.pool, pipeline.cursor)
          BY DEF Choices
    <3> QED
        BY <2>3, <2>4, <3>1 DEF TurnIsNext
  <2>9. (CursorIsLast /\ TurnsInOrder)'
        BY <2>3 DEF CursorIsLast, TurnsInOrder
  <2> QED
      BY <2>6, <2>7, <2>8, <2>9
<1> QED
    BY <1>1, <1>2

(***************************************************************************)
(* What a commit does to the lead and the job.                             *)
(***************************************************************************)
LEMMA AssignFacts ==
    ASSUME TypeOK, LockedIsAvailable, NEW w \in Worker,
           job[w].pc = "chosen", Assign(w)
    PROVE  /\ job[w].choice \in Member /\ job[w].lead \in Lead
           /\ lead' \in [Lead -> [owner : Owner, open : BOOLEAN]]
           /\ event' \in [Lead -> Owner]
           /\ job' \in [Worker -> Job] /\ job'[w].pc = "done"
           /\ \A v \in Worker : v # w => job'[v] = job[v]
           /\ \A l \in Lead : l # job[w].lead => lead'[l] = lead[l]
           /\ LockedIsAvailable'
<1>1. job[w].choice \in Member /\ job[w] \in Job /\ job[w].choice \in Owner
      BY DEF TypeOK, Owner
<1>2. job[w].lead \in Lead
      BY <1>1 DEF Job
<1>3. \A l \in Lead : lead[l] \in [owner : Owner, open : BOOLEAN]
      BY DEF TypeOK
<1>4. lead' \in [Lead -> [owner : Owner, open : BOOLEAN]]
  <2> DEFINE row == [lead[job[w].lead] EXCEPT !.owner = job[w].choice]
  <2>1. row \in [owner : Owner, open : BOOLEAN]
        BY <1>1, <1>2, <1>3
  <2>2. lead' = [lead EXCEPT ![job[w].lead] = row]
        BY DEF Assign
  <2> HIDE DEF row
  <2> QED
      BY <2>1, <2>2 DEF TypeOK
<1>5. event' \in [Lead -> Owner]
      BY <1>1 DEF TypeOK, Assign
<1>6. job' \in [Worker -> Job] /\ job'[w].pc = "done"
      BY <1>1 DEF TypeOK, Assign, Job
<1>7. \A v \in Worker : v # w => job'[v] = job[v]
      BY DEF TypeOK, Assign
<1>8. \A l \in Lead : l # job[w].lead => lead'[l] = lead[l]
      BY DEF TypeOK, Assign
<1>9. LockedIsAvailable'
  <2>1. \A v \in Worker : Holding(v)' =>
            v # w /\ Holding(v) /\ job[v].lead # job[w].lead
        BY <1>6, <1>7 DEF LockedIsAvailable, Holding
  <2>2. \A v \in Worker : job[v].lead \in Lead
        BY DEF TypeOK, Job
  <2> QED
      BY <1>7, <1>8, <2>1, <2>2 DEF LockedIsAvailable, Holding, Available
<1> QED
    BY <1>1, <1>2, <1>4, <1>5, <1>6, <1>7, <1>8, <1>9

(***************************************************************************)
(* A turn is taken while nobody else holds the pipeline.                   *)
(***************************************************************************)
LEMMA CommitTurnKeeps ==
    ASSUME DistributionInv, NEW w \in Worker, CommitTurn(w)
    PROVE  DistributionInv'
<1> USE DEF DistributionInv, CommitTurn
<1>1. /\ job[w].choice \in Member /\ job[w].lead \in Lead
      /\ lead' \in [Lead -> [owner : Owner, open : BOOLEAN]]
      /\ event' \in [Lead -> Owner]
      /\ job' \in [Worker -> Job] /\ job'[w].pc = "done"
      /\ \A v \in Worker : v # w => job'[v] = job[v]
      /\ LockedIsAvailable'
      BY AssignFacts
<1>2. pipeline' \in Row /\ pipeline'.cursor = job[w].choice
      BY <1>1 DEF TypeOK, Row, Owner
<1>3. UNCHANGED <<draft, settled, told, people, crashes, taken, shared, quiet>>
      BY DEF Assign
<1>4. job[w].choice = NextInRotation(pipeline.pool, pipeline.cursor)
      BY DEF TurnIsNext
<1>5. FALSE \notin slips' /\ slips' \subseteq BOOLEAN
      BY <1>4 DEF TypeOK, CursorIsLast, TurnsInOrder
<1>6. TypeOK'
      BY <1>1, <1>2, <1>3, <1>5 DEF TypeOK, Owner
<1>7. \A v \in Worker : job'[v].pc # "chosen"
      BY <1>1 DEF MayUpdate, Sharers
<1>8. (TurnIsNext /\ CursorIsLast /\ TurnsInOrder)'
      BY <1>2, <1>5, <1>7 DEF TurnIsNext, CursorIsLast, TurnsInOrder
<1> QED
    BY <1>1, <1>6, <1>8

(***************************************************************************)
(* The other strategies leave the pipeline as it is.                       *)
(***************************************************************************)
LEMMA CommitOtherKeeps ==
    ASSUME DistributionInv, NEW w \in Worker, CommitOther(w)
    PROVE  DistributionInv'
<1> USE DEF DistributionInv, CommitOther
<1>1. /\ lead' \in [Lead -> [owner : Owner, open : BOOLEAN]]
      /\ event' \in [Lead -> Owner]
      /\ job' \in [Worker -> Job] /\ job'[w].pc = "done"
      /\ \A v \in Worker : v # w => job'[v] = job[v]
      /\ LockedIsAvailable'
      BY AssignFacts
<1>2. TypeOK'
      BY <1>1 DEF Assign, TypeOK
<1>3. (TurnIsNext /\ CursorIsLast /\ TurnsInOrder)'
      BY <1>1 DEF TurnIsNext, CursorIsLast, TurnsInOrder
<1> QED
    BY <1>1, <1>2, <1>3

(***************************************************************************)
(* The end of a delivery: announced, aborted, or lost with its worker.     *)
(***************************************************************************)
LEMMA EndKeeps ==
    ASSUME DistributionInv, NEW w \in Worker,
           Announce(w) \/ DeadlockVictim(w) \/ Crash(w)
    PROVE  DistributionInv'
<1>1. CASE Announce(w)
  <2>1. /\ job[w].lead \in Lead /\ job[w].choice \in Owner
        /\ told \subseteq [lead : Lead, user : Member] /\ quiet \subseteq Lead
        BY DEF DistributionInv, TypeOK, Job
  <2>2. told' \subseteq [lead : Lead, user : Member] /\ quiet' \subseteq Lead
        BY <1>1, <2>1 DEF Announce, Owner
  <2> QED
      BY <1>1, <2>2, SettleKeeps DEF Announce
<1>2. CASE DeadlockVictim(w)
      BY <1>2, SettleKeeps DEF DeadlockVictim, DistributionInv, TypeOK
<1>3. CASE Crash(w)
  <2> USE <1>3 DEF Crash, DistributionInv
  <2>1. Idle \in Job /\ Idle.pc = "rest"
        BY DEF Idle, Job, Owner
  <2>2. \A v \in Worker : job'[v] = job[v] \/ job'[v] = Idle
        BY DEF TypeOK
  <2>3. job' \in [Worker -> Job] /\ crashes' \in 0..MaxCrashes
        BY <2>1 DEF TypeOK
  <2>4. TypeOK'
        BY <2>1, <2>2, <2>3 DEF TypeOK
  <2>5. (LockedIsAvailable /\ TurnIsNext /\ CursorIsLast /\ TurnsInOrder)'
        BY <2>1, <2>2 DEF LockedIsAvailable, Holding, Available, TurnIsNext,
                          CursorIsLast, TurnsInOrder
  <2> QED
      BY <2>4, <2>5
<1> QED
    BY <1>1, <1>2, <1>3

(***************************************************************************)
(* A delivery that is not executed touches no lead.                        *)
(***************************************************************************)
LEMMA DeclineKeeps ==
    ASSUME DistributionInv, NEW l \in Lead, Decline(l)
    PROVE  DistributionInv'
<1> USE DEF DistributionInv, Decline
<1>1. TypeOK'
      BY DEF TypeOK
<1>2. (LockedIsAvailable /\ TurnIsNext /\ CursorIsLast /\ TurnsInOrder)'
      BY DEF LockedIsAvailable, Holding, Available, TurnIsNext, CursorIsLast,
             TurnsInOrder
<1> QED
    BY <1>1, <1>2

(***************************************************************************)
(* People change a lead only while no transaction holds its row.           *)
(***************************************************************************)
LEMMA PeopleKeep ==
    ASSUME DistributionInv, NEW l \in Lead,
           Close(l) \/ \E m \in Owner : Reassign(l, m)
    PROVE  DistributionInv'
<1> USE DEF DistributionInv, Close, Reassign
<1>1. /\ RowFree(l) /\ people' \in 0..MaxByPeople
      /\ \A k \in Lead : k # l => lead'[k] = lead[k]
      /\ taken' \subseteq Lead
      /\ UNCHANGED <<pipeline, job, draft, event, settled, told, crashes,
                     shared, quiet, last, patched, slips>>
      BY DEF TypeOK
<1>2. lead' \in [Lead -> [owner : Owner, open : BOOLEAN]]
  <2>1. lead[l] \in [owner : Owner, open : BOOLEAN]
        BY DEF TypeOK
  <2>2. PICK row \in [owner : Owner, open : BOOLEAN] :
            lead' = [lead EXCEPT ![l] = row]
    <3>1. CASE Close(l)
          BY <2>1, <3>1
    <3>2. CASE \E m \in Owner : Reassign(l, m)
          BY <2>1, <3>2
    <3> QED
        BY <3>1, <3>2
  <2> QED
      BY <2>2 DEF TypeOK
<1>3. TypeOK'
      BY <1>1, <1>2 DEF TypeOK
<1>4. LockedIsAvailable'
  <2>1. \A v \in Worker : job[v].lead \in Lead
        BY DEF TypeOK, Job
  <2> QED
      BY <1>1, <2>1 DEF LockedIsAvailable, Holding, Available, RowFree
<1>5. (TurnIsNext /\ CursorIsLast /\ TurnsInOrder)'
      BY <1>1 DEF TurnIsNext, CursorIsLast, TurnsInOrder
<1> QED
    BY <1>3, <1>4, <1>5

(***************************************************************************)
(* A patch of the pipeline waits for those who have chosen from it.        *)
(***************************************************************************)
LEMMA PatchKeeps ==
    ASSUME DistributionInv,
           ReadPipeline \/ \E e \in Edits, p \in Pools : SavePipeline(e, p)
    PROVE  DistributionInv'
<1> USE DEF DistributionInv
<1>1. CASE ReadPipeline
  <2> USE <1>1 DEF ReadPipeline
  <2>1. TypeOK'
        BY DEF TypeOK
  <2>2. (LockedIsAvailable /\ TurnIsNext /\ CursorIsLast /\ TurnsInOrder)'
        BY DEF LockedIsAvailable, Holding, Available, TurnIsNext,
               CursorIsLast, TurnsInOrder
  <2> QED
      BY <2>1, <2>2
<1>2. ASSUME NEW e \in Edits, NEW p \in Pools, SavePipeline(e, p)
      PROVE  DistributionInv'
  <2> USE <1>2 DEF SavePipeline
  <2>1. draft.row \in Row
        BY DEF TypeOK
  <2>2. pipeline' \in Row
        BY <2>1 DEF Row, Owner
  <2>3. NoDraft \in [reading : BOOLEAN, row : Row]
        BY DEF NoDraft, Row, Owner
  <2>4. TypeOK'
        BY <2>2, <2>3 DEF TypeOK
  <2>5. LockedIsAvailable'
        BY DEF LockedIsAvailable, Holding, Available
  <2>6. (TurnIsNext /\ CursorIsLast /\ TurnsInOrder)'
        BY DEF TurnIsNext, CursorIsLast, TurnsInOrder, Sharers
  <2> QED
      BY <2>4, <2>5, <2>6
<1> QED
    BY <1>1, <1>2

(***************************************************************************)
(* The inductive invariant holds in every reachable state.                 *)
(***************************************************************************)
LEMMA DistributionInvariance == Spec => []DistributionInv
<1>1. ASSUME DistributionInv, [Next]_vars
      PROVE  DistributionInv'
  <2>1. CASE \E w \in Worker : \/ \E l \in Lead : Ask(w, l)
                               \/ WorkerStep(w)
                               \/ Crash(w)
        BY <1>1, <2>1, AskKeeps, LockLeadKeeps, ChooseKeeps, CommitTurnKeeps,
           CommitOtherKeeps, EndKeeps DEF WorkerStep
  <2>2. CASE \E l \in Lead : Close(l) \/ \E m \in Owner : Reassign(l, m)
        BY <1>1, <2>2, PeopleKeep
  <2>3. CASE ReadPipeline \/ \E e \in Edits, p \in Pools : SavePipeline(e, p)
        BY <1>1, <2>3, PatchKeeps
  <2>5. CASE \E l \in Lead : Decline(l)
        BY <1>1, <2>5, DeclineKeeps
  <2>4. CASE UNCHANGED vars
        BY <1>1, <2>4 
         DEF vars, DistributionInv, TypeOK, LockedIsAvailable, Holding,
           Available, TurnIsNext, CursorIsLast, TurnsInOrder
  <2> QED
      BY <1>1, <2>1, <2>2, <2>3, <2>4, <2>5 DEF Next
<1> QED
    BY <1>1, DistributionInitially, PTL DEF Spec

-----------------------------------------------------------------------------
(***************************************************************************)
(* Every column, job and notice keeps its type.                            *)
(***************************************************************************)
THEOREM DistributionTypeCorrect == Spec => []TypeOK
<1>1. DistributionInv => TypeOK
      BY DEF DistributionInv
<1> QED
    BY <1>1, DistributionInvariance, PTL

(***************************************************************************)
(* Distributions alone never lose the rotation's place.                    *)
(***************************************************************************)
THEOREM RotationInOrder == Spec => []TurnsInOrder
<1>1. DistributionInv => TurnsInOrder
      BY DEF DistributionInv
<1> QED
    BY <1>1, DistributionInvariance, PTL

(***************************************************************************)
(* No distribution takes a lead from its owner or gives a closed one away: *)
(* it writes only what it has found available under the lead's lock.       *)
(***************************************************************************)
THEOREM OwnersAreKept == Spec => OwnerKept
<1> DEFINE Kept == \A l \in Lead :
                     lead'[l].owner # lead[l].owner
                       => \/ lead[l].owner = Nobody /\ lead[l].open
                          \/ \E m \in Owner : Reassign(l, m)
<1>1. ASSUME DistributionInv, [Next]_vars
      PROVE  [Kept]_vars
  <2> SUFFICES ASSUME NEW l \in Lead, lead'[l].owner # lead[l].owner
               PROVE  \/ lead[l].owner = Nobody /\ lead[l].open
                      \/ \E m \in Owner : Reassign(l, m)
      OBVIOUS
  <2>1. CASE \E w \in Worker : CommitTurn(w) \/ CommitOther(w)
    <3>1. PICK w \in Worker : job[w].pc = "chosen" /\ Assign(w)
          BY <2>1 DEF CommitTurn, CommitOther
    <3>2. l = job[w].lead
          BY <1>1, <3>1, AssignFacts DEF DistributionInv
    <3>3. Available(job[w].lead)
          BY <1>1, <3>1 DEF DistributionInv, LockedIsAvailable, Holding
    <3> QED
        BY <3>2, <3>3 DEF Available
  <2>2. CASE \E k \in Lead : Close(k) \/ \E m \in Owner : Reassign(k, m)
    <3>1. lead \in [Lead -> [owner : Owner, open : BOOLEAN]]
          BY <1>1 DEF DistributionInv, TypeOK
    <3>2. ASSUME NEW k \in Lead, Close(k)
          PROVE  FALSE
          BY <3>1, <3>2 DEF Close
    <3>3. ASSUME NEW k \in Lead, NEW m \in Owner, Reassign(k, m)
          PROVE  k = l
          BY <3>1, <3>3 DEF Reassign
    <3> QED
        BY <2>2, <3>2, <3>3
  <2>3. CASE lead' = lead
        BY <2>3
  <2>4. \/ \E w \in Worker : CommitTurn(w) \/ CommitOther(w)
        \/ \E k \in Lead : Close(k) \/ \E m \in Owner : Reassign(k, m)
        \/ lead' = lead
        BY <1>1 DEF Next, WorkerStep, Ask, Decline, LockLead, Choose,
                    Announce, DeadlockVictim, Crash, ReadPipeline,
                    SavePipeline, vars
  <2> QED
      BY <2>1, <2>2, <2>3, <2>4
<1> QED
    BY <1>1, DistributionInvariance, PTL DEF Spec, OwnerKept

-----------------------------------------------------------------------------
(* The deals: the line of cycles, the keys and the patches each have a     *)
(* part of the invariant, which no other part needs.                       *)

USE LifecycleAssumption, SentAssumption

EventType == {"created", "derived", "updated", "stage", "status", "transfer",
              "mode", "owner"}

\* Rows come to be in the order of their ids, and are blank before.
RowsInOrder ==
    /\ \A c, d \in Id : d < c /\ card[c].row # "none" => card[d].row # "none"
    /\ \A c \in Id : card[c].row = "none" => card[c] = NoCard

StatusOfStage == \A c \in Id : card[c].status = Status(card[c].stage)

VersionsCounted == \A c \in Id : card[c].version <= commands

\* The conversation goes on to ever newer deals.
PointerIsNewest ==
    marks = {} =>
        \A c \in Id : card[c].linked => c <= pointer /\ card[c].source < c

DealInv == /\ RowsInOrder /\ StatusOfStage /\ VersionsCounted
           /\ PointerIsNewest /\ OpenIsPrimary /\ OneLineOfCycles

\* The type of event that a command writes whenever it changes something.
Principal(op) ==
    CASE op = "create" -> "created"
      [] op \in {"reconvert", "copy"} -> "derived"
      [] op = "move" -> "stage"
      [] op = "status" -> "status"
      [] op = "transfer" -> "transfer"
      [] op = "autonomy" -> "mode"
      [] op = "distribute" -> "owner"
      [] op \in {"patch", "delete"} -> "updated"

Begun == {r \in Request : req[r].pc = "begun"}

\* Requests under way with one key are one command, and an earlier run of the
\* key that acted has left the event that any of them would write.
KeyInv ==
    /\ \A r \in Begun : req[r].cmd.key # NoKey
    /\ \A q, r \in Begun :
         req[q].cmd.key = req[r].cmd.key => req[q].cmd = req[r].cmd
    /\ \A r \in Begun :
         req[r].cmd.key \in Key /\ effects[req[r].cmd.key] > 0 =>
           [key |-> req[r].cmd.key, type |-> Principal(req[r].cmd.op)]
             \in events
    /\ \A k \in Key : effects[k] > 0 => Answered(k)
    /\ KeyActsOnce

\* The owner a patch has read is the row's, unless the row has a newer version
\* or was projected since.
PatchInv ==
    /\ \A r \in Request : req[r].pc # "rest" /\ req[r].cmd.op = "patch" =>
         /\ req[r].cmd.id \in Id /\ card[req[r].cmd.id].row # "none"
         /\ req[r].snap.version <= card[req[r].cmd.id].version
         /\ \/ req[r].snap.version # card[req[r].cmd.id].version
            \/ req[r].snap.owner = card[req[r].cmd.id].owner
            \/ card[req[r].cmd.id].ownerBy = "projection"
    /\ VersionedPatchKeeps

LifecycleInv == LifecycleTypeOK /\ DealInv /\ KeyInv /\ PatchInv

-----------------------------------------------------------------------------

\* The transaction of m writes this row over the card's and pushes others on.
Rewrites(m, row, pushed) ==
    /\ m.id \in Id /\ Live(m.id)
    /\ row \in Card /\ row.row # "none"
    /\ row.linked = card[m.id].linked /\ row.source = card[m.id].source
    /\ row.status = Status(row.stage)
    /\ row.version = card[m.id].version + 1
    /\ row.status = "open" =>
         card[m.id].status = "open" \/ marks' # {}
    /\ pushed \subseteq Id \ {m.id} /\ \A c \in pushed : Live(c)
    /\ card' = [c \in Id |-> IF c = m.id THEN row
                             ELSE IF c \in pushed THEN Bump(card[c])
                             ELSE card[c]]
    /\ pointer' = pointer /\ copies' = copies
    /\ marks \subseteq marks' /\ marks' \subseteq {"reopened", "rewound"}
    /\ commands' = commands + 1 /\ commands < MaxCommands

\* It inserts a row, which becomes the conversation's if it is linked.
Inserts(c, linked, source, to) ==
    \E stage \in Stages, pipe \in Pipelines :
      /\ c \in NewId
      /\ linked \in BOOLEAN
      /\ source # 0 => source \in Id /\ card[source].row # "none"
      /\ to = (IF linked THEN c ELSE pointer)
      /\ linked => /\ \A d \in Linked : ~Open(d)
                   /\ source # 0 => pointer \in {0, source}
      /\ linked /\ source # 0 => card[source].linked
      /\ card' = [card EXCEPT ![c] =
                    NewCard(linked, source, stage, pipe, "automatic")]
      /\ pointer' = to /\ copies' = copies
      /\ marks' = marks
      /\ commands' = commands + 1 /\ commands < MaxCommands

\* It appends its events, the principal one among them if it acts.
Appends(r, m) ==
    /\ r \in Request /\ m \in Sent /\ Runs(r, m)
    /\ \E types \in SUBSET EventType, acts \in BOOLEAN :
         /\ acts => Principal(m.op) \in types
         /\ AppendHistory(m.key, types)
         /\ effects' = [k \in Key |-> IF k = m.key /\ acts
                                        THEN effects[k] + 1 ELSE effects[k]]
    /\ commands < MaxCommands
    /\ req' = [req EXCEPT ![r] = Resting]

(***************************************************************************)
(* A set of numbers up to a bound has a highest one: there is a newest     *)
(* deal.                                                                   *)
(***************************************************************************)
LEMMA HighestOf ==
    ASSUME NEW n \in Nat, NEW S \in SUBSET (1..n), S # {}
    PROVE  \E x \in S : \A y \in S : y <= x
<1> DEFINE below == {n - x : x \in S}
<1>1. \A x \in S : x \in Nat /\ n - x \in Nat
      OBVIOUS
<1>2. below \subseteq Nat /\ below # {}
  <2>1. \A b \in below : b \in Nat
        BY <1>1
  <2>2. PICK x \in S : TRUE
        OBVIOUS
  <2>3. n - x \in below
        OBVIOUS
  <2> QED
      BY <2>1, <2>3
<1>3. PICK b \in below : \A a \in below : ~(<<a, b>> \in OpToRel(<, Nat))
  <2> HIDE DEF below
  <2> QED
      BY <1>2, NatLessThanWellFounded, WFMin
<1>4. \A a \in below : ~(a < b)
      BY <1>2, <1>3 DEF OpToRel
<1>5. PICK x \in S : b = n - x
      OBVIOUS
<1>6. \A y \in S : ~(n - y < n - x)
      BY <1>4, <1>5
<1> QED
    BY <1>1, <1>6

(***************************************************************************)
(* The next version of a row is a row, within the bound on commands.       *)
(***************************************************************************)
LEMMA BumpedRow ==
    ASSUME LifecycleTypeOK, VersionsCounted, commands < MaxCommands,
           NEW c \in Id, NEW row \in Card, row.version = card[c].version
    PROVE  /\ Bump(row) \in Card /\ Bump(row).version = card[c].version + 1
           /\ Bump(row).row = row.row /\ Bump(row).linked = row.linked
           /\ Bump(row).source = row.source /\ Bump(row).stage = row.stage
           /\ Bump(row).status = row.status
<1>1. /\ card[c].version \in Nat /\ card[c].version <= commands
      BY DEF VersionsCounted, LifecycleTypeOK, Card
<1>2. card[c].version + 1 \in 0..MaxCommands
      BY <1>1 DEF LifecycleTypeOK
<1> QED
    BY <1>2 DEF Bump, Card

(***************************************************************************)
(* A row written over a deal of the same conversation, under a new         *)
(* version, leaves the deals in line: what was open stays the primary.     *)
(***************************************************************************)
LEMMA RewriteKeepsDeals ==
    ASSUME LifecycleTypeOK, DealInv, NEW m, NEW row, NEW pushed,
           Rewrites(m, row, pushed)
    PROVE  DealInv' /\ card' \in [Id -> Card]
<1> DEFINE kept(c) == /\ card'[c].row = card[c].row
                      /\ card'[c].linked = card[c].linked
                      /\ card'[c].source = card[c].source
                      /\ card'[c].stage = card[c].stage
                      /\ card'[c].status = card[c].status
                      /\ card'[c].version \in
                           {card[c].version, card[c].version + 1}
                      /\ card[c].row = "none" => card'[c] = card[c]
<1>1. \A c \in Id : card'[c] \in Card /\ (c # m.id => kept(c))
  <2> SUFFICES ASSUME NEW c \in Id
               PROVE  card'[c] \in Card /\ (c # m.id => kept(c))
      OBVIOUS
  <2>1. CASE c = m.id
        BY <2>1 DEF Rewrites
  <2>2. CASE c # m.id /\ c \in pushed
    <3>1. card'[c] = Bump(card[c]) /\ card[c].row = "live"
          BY <2>2 DEF Rewrites, Live
    <3>2. card[c] \in Card
          BY DEF LifecycleTypeOK
    <3>3. /\ Bump(card[c]) \in Card
          /\ Bump(card[c]).version = card[c].version + 1
          /\ Bump(card[c]).row = card[c].row
          /\ Bump(card[c]).linked = card[c].linked
          /\ Bump(card[c]).source = card[c].source
          /\ Bump(card[c]).stage = card[c].stage
          /\ Bump(card[c]).status = card[c].status
          BY <3>2, BumpedRow DEF Rewrites, DealInv
    <3> QED
        BY <3>1, <3>3
  <2>3. CASE c # m.id /\ c \notin pushed
        BY <2>3 DEF Rewrites, LifecycleTypeOK
  <2> QED
      BY <2>1, <2>2, <2>3
<1>2. card'[m.id] = row /\ card' \in [Id -> Card]
      BY <1>1 DEF Rewrites
<1>3. card[m.id].row = "live" /\ m.id \in Id
      BY DEF Rewrites, Live
<1>4. RowsInOrder'
  <2>1. \A c \in Id : (card'[c].row = "none") <=> (card[c].row = "none")
        BY <1>1, <1>2, <1>3 DEF Rewrites
  <2> QED
      BY <1>1, <1>3, <2>1 DEF RowsInOrder, DealInv
<1>5. StatusOfStage'
      BY <1>1, <1>2 DEF Rewrites, StatusOfStage, DealInv
<1>6. VersionsCounted'
  <2>1. \A c \in Id : card[c].version \in Nat /\ card[c].version <= commands
        BY DEF LifecycleTypeOK, Card, DealInv, VersionsCounted
  <2> QED
      BY <1>1, <1>2, <2>1 DEF Rewrites, VersionsCounted, LifecycleTypeOK
<1>7. \A c \in Id : /\ card'[c].linked = card[c].linked
                    /\ card'[c].source = card[c].source
      BY <1>1, <1>2 DEF Rewrites
<1> HIDE DEF kept
<1>8. PointerIsNewest'
      BY <1>7 DEF Rewrites, PointerIsNewest, DealInv
<1>9. OneLineOfCycles'
  <2>1. CASE marks' = {}
    <3>1. marks = {} /\ OneLineOfCycles
          BY <2>1 DEF Rewrites, DealInv
    <3> QED
        BY <1>7, <3>1 DEF OneLineOfCycles
  <2>2. CASE marks' # {}
        BY <2>2 DEF OneLineOfCycles
  <2> QED
      BY <2>1, <2>2
<1>10. OpenIsPrimary'
  <2> SUFFICES ASSUME NEW c \in Linked', Open(c)', marks' = {}
               PROVE  pointer' = c
      BY DEF OpenIsPrimary
  <2>1. c \in Linked /\ Open(c)
    <3>1. CASE c = m.id
          BY <3>1, <1>2, <1>3, <1>7 DEF Linked, Open, Live, Rewrites
    <3>2. CASE c # m.id
          BY <3>2, <1>1, <1>7 DEF kept, Linked, Open, Live
    <3> QED
        BY <3>1, <3>2
  <2> QED
      BY <2>1 DEF DealInv, OpenIsPrimary, Rewrites
<1> QED
    BY <1>2, <1>4, <1>5, <1>6, <1>8, <1>9, <1>10 DEF DealInv

(***************************************************************************)
(* A new deal of the conversation is the newest, the only open one and the *)
(* primary, and continues a deal that no other one continues.              *)
(***************************************************************************)
LEMMA InsertKeepsDeals ==
    ASSUME LifecycleTypeOK, DealInv,
           NEW c, NEW linked, NEW source, NEW to, Inserts(c, linked, source, to)
    PROVE  DealInv' /\ card' \in [Id -> Card] /\ pointer' \in 0..MaxCards
<1>1. PICK stage \in Stages, pipe \in Pipelines :
        /\ card' = [card EXCEPT ![c] =
                      NewCard(linked, source, stage, pipe, "automatic")]
        /\ linked => \A d \in Linked : ~Open(d)
        /\ linked /\ source # 0 =>
             pointer \in {0, source} /\ card[source].linked
      BY DEF Inserts
<1> DEFINE new == NewCard(linked, source, stage, pipe, "automatic")
<1>2. /\ c \in Id /\ linked \in BOOLEAN
      /\ source \in 0..MaxCards
      /\ source # 0 => source \in Id /\ card[source].row # "none"
      /\ pointer' = (IF linked THEN c ELSE pointer)
      /\ marks' = marks /\ commands' = commands + 1
      /\ commands < MaxCommands
      /\ card[c].row = "none" /\ \A d \in Id : d < c => card[d].row # "none"
      BY DEF Inserts, NewId, Id
<1>3. /\ new.row = "live" /\ new.linked = linked /\ new.source = source
      /\ new.stage = stage /\ new.status = Status(stage) /\ new.pipe = pipe
      /\ new.mode = "automatic" /\ new.version = 1 /\ new.owner = "nobody"
      /\ new.ownerBy = "command"
      BY DEF NewCard, NoCard
<1>4. new \in Card
  <2>1. 1 \in 0..MaxCommands
        BY <1>2 DEF LifecycleTypeOK
  <2>2. Status(stage) \in {"open", "won", "lost"}
        BY DEF Status
  <2> QED
      BY <1>2, <2>1, <2>2 DEF NewCard, NoCard, Card
<1>5. card' \in [Id -> Card]
      BY <1>1, <1>4 DEF LifecycleTypeOK
<1>6. \A d \in Id : card'[d] = IF d = c THEN new ELSE card[d]
      BY <1>1 DEF LifecycleTypeOK
<1> HIDE DEF new
<1>7. \A d \in Id : c < d => card[d].row = "none" /\ card[d] = NoCard
  <2> SUFFICES ASSUME NEW d \in Id, c < d
               PROVE  card[d].row = "none"
      BY DEF DealInv, RowsInOrder
  <2> QED
      BY <1>2 DEF DealInv, RowsInOrder
<1>8. \A d \in Id : card[d].linked => d < c
  <2> SUFFICES ASSUME NEW d \in Id, card[d].linked, ~(d < c)
               PROVE  FALSE
      OBVIOUS
  <2>1. d = c \/ c < d
        BY <1>2 DEF Id
  <2>2. card[d] = NoCard
        BY <1>2, <1>7, <2>1 DEF DealInv, RowsInOrder
  <2> QED
      BY <2>2 DEF NoCard
<1>9. RowsInOrder'
  <2>1. \A b, d \in Id : d < b /\ card'[b].row # "none" => card'[d].row # "none"
    <3> SUFFICES ASSUME NEW b \in Id, NEW d \in Id, d < b,
                        card'[b].row # "none"
                 PROVE  card'[d].row # "none"
        OBVIOUS
    <3>1. CASE b = c
          BY <3>1, <1>2, <1>3, <1>6
    <3>2. CASE b # c
          BY <3>2, <1>3, <1>6 DEF DealInv, RowsInOrder
    <3> QED
        BY <3>1, <3>2
  <2>2. \A d \in Id : card'[d].row = "none" => card'[d] = NoCard
        BY <1>3, <1>6 DEF DealInv, RowsInOrder
  <2> QED
      BY <2>1, <2>2 DEF RowsInOrder
<1>10. StatusOfStage'
       BY <1>3, <1>6 DEF DealInv, StatusOfStage
<1>11. VersionsCounted'
  <2>1. \A d \in Id : card[d].version \in Nat /\ card[d].version <= commands
        BY DEF LifecycleTypeOK, Card, DealInv, VersionsCounted
  <2> QED
      BY <1>2, <1>3, <1>6, <2>1 DEF VersionsCounted, LifecycleTypeOK
<1>12. linked /\ marks = {} /\ source # 0 => source < c
       BY <1>1, <1>2, <1>8
<1>13. PointerIsNewest'
  <2> SUFFICES ASSUME marks = {}, NEW d \in Id, card'[d].linked
               PROVE  d <= pointer' /\ card'[d].source < d
      BY <1>2 DEF PointerIsNewest
  <2>1. CASE d = c
        BY <2>1, <1>2, <1>3, <1>6, <1>12 DEF Id
  <2>2. CASE d # c
    <3>1. card[d].linked /\ card'[d].source = card[d].source
          BY <2>2, <1>6
    <3>2. d <= pointer /\ card[d].source < d
          BY <3>1 DEF DealInv, PointerIsNewest
    <3>3. d < c
          BY <3>1, <1>8
    <3> QED
        BY <3>1, <3>2, <3>3, <1>2 DEF Id
  <2> QED
      BY <2>1, <2>2
<1>14. OpenIsPrimary'
  <2> SUFFICES ASSUME NEW d \in Linked', Open(d)', marks = {}
               PROVE  pointer' = d
      BY <1>2 DEF OpenIsPrimary
  <2>1. CASE d = c
        BY <2>1, <1>2, <1>3, <1>6 DEF Linked
  <2>2. CASE d # c
    <3>1. d \in Linked /\ Open(d)
          BY <2>2, <1>6 DEF Linked, Open, Live
    <3> QED
        BY <3>1, <1>1, <1>2 DEF DealInv, OpenIsPrimary
  <2> QED
      BY <2>1, <2>2
<1>15. OneLineOfCycles'
  <2> SUFFICES ASSUME NEW a \in Id, NEW b \in Id,
                      card'[a].linked, card'[b].linked,
                      card'[a].source # 0, card'[a].source = card'[b].source,
                      marks = {}, a # b
               PROVE  FALSE
      BY <1>2 DEF OneLineOfCycles
  \* The source of a deal that exists lies behind the conversation's pointer.
  <2>1. ASSUME NEW d \in Id, d # c, card'[d].linked, card'[d].source # 0,
               linked, card'[d].source = source
        PROVE  FALSE
    <3>1. card[d].linked /\ card[d].source = source
          BY <2>1, <1>6
    <3>2. d <= pointer /\ source < d
          BY <3>1 DEF DealInv, PointerIsNewest
    <3>3. pointer \in {0, source}
          BY <1>1, <2>1
    <3> QED
        BY <3>2, <3>3, <1>2 DEF Id
  <2>2. CASE a # c /\ b # c
        BY <2>2, <1>6 DEF DealInv, OneLineOfCycles
  <2>3. CASE a = c
        BY <2>3, <2>1, <1>3, <1>6
  <2>4. CASE b = c
        BY <2>4, <2>1, <1>3, <1>6
  <2> QED
      BY <2>2, <2>3, <2>4
<1>16. pointer' \in 0..MaxCards
       BY <1>2 DEF LifecycleTypeOK, Id
<1> QED
    BY <1>5, <1>9, <1>10, <1>11, <1>13, <1>14, <1>15, <1>16 DEF DealInv

-----------------------------------------------------------------------------

(***************************************************************************)
(* What is sent is a command, and any but a creation names a card.         *)
(***************************************************************************)
LEMMA SentIsCommand ==
    ASSUME NEW m \in Sent
    PROVE  /\ m \in Command /\ m.id \in 0..MaxCards
           /\ m.op # "create" => m.id \in Id
<1>1. m \in Command /\ (m.op # "create" => m.id # 0)
      OBVIOUS
<1>2. m.id \in 0..MaxCards
      BY <1>1 DEF Command
<1> QED
    BY <1>1, <1>2 DEF Id

(***************************************************************************)
(* A request at rest has the type of a request.                            *)
(***************************************************************************)
LEMMA RestingTyped ==
    /\ Resting.pc = "rest" /\ Resting.cmd = NoCommand
    /\ Resting \in [pc : {"rest", "read", "begun"}, cmd : Command,
                    snap : Snapshot]
<1>1. (CHOOSE p \in Pipelines : TRUE) \in Pipelines
      OBVIOUS
<1>2. NoCommand \in Command
      BY <1>1 DEF NoCommand, Command, Op
<1>3. [owner |-> "nobody", version |-> 0] \in Snapshot
      BY DEF Snapshot
<1> QED
    BY <1>2, <1>3 DEF Resting

(***************************************************************************)
(* A transaction appends the event its kind of command always writes: a    *)
(* second run of its key meets the unique index, so the key acts once.     *)
(***************************************************************************)
LEMMA AppendsKeepsKeys ==
    ASSUME LifecycleTypeOK, KeyInv, NEW r, NEW m, Appends(r, m)
    PROVE  /\ KeyInv'
           /\ events' \subseteq [key : Key, type : EventType]
           /\ effects' \in [Key -> 0..MaxCommands]
<1>1. PICK types \in SUBSET EventType, acts \in BOOLEAN :
        /\ acts => Principal(m.op) \in types
        /\ AppendHistory(m.key, types)
        /\ effects' = [k \in Key |-> IF k = m.key /\ acts
                                       THEN effects[k] + 1 ELSE effects[k]]
      BY DEF Appends
<1>2. /\ r \in Request /\ m \in Command /\ Runs(r, m)
      /\ m.key \in Key \cup {NoKey}
      /\ commands < MaxCommands /\ req' = [req EXCEPT ![r] = Resting]
      BY SentIsCommand DEF Appends, Command
<1>3. \A q \in Request : req'[q] = IF q = r THEN Resting ELSE req[q]
      BY <1>2 DEF LifecycleTypeOK
<1>4. \A q \in Begun' : q \in Begun /\ q # r /\ req'[q] = req[q]
      BY <1>3, RestingTyped DEF Begun
<1>5. \A k \in Key : effects[k] \in 0..1 /\ effects[k] \in Nat
      BY DEF LifecycleTypeOK, KeyInv, KeyActsOnce
<1>6. 0..1 \subseteq 0..MaxCommands
      BY <1>2 DEF LifecycleTypeOK
<1>7. events \subseteq [key : Key, type : EventType]
      BY DEF LifecycleTypeOK, EventType
<1>8. CASE m.key = NoKey
  <2>1. events' = events
        BY <1>1, <1>8 DEF AppendHistory
  <2>2. \A k \in Key : effects'[k] = effects[k]
        BY <1>1, <1>8
  <2>3. effects' \in [Key -> 0..MaxCommands]
        BY <1>1, <1>5, <1>6, <2>2
  <2>4. \A k : Answered(k)' = Answered(k)
        BY <2>1 DEF Answered
  <2>5. KeyInv'
        BY <1>4, <2>1, <2>2, <2>4 DEF KeyInv, KeyActsOnce
  <2> QED
      BY <1>7, <2>1, <2>3, <2>5
<1>9. CASE m.key # NoKey
  <2> DEFINE own == [key |-> m.key, type |-> Principal(m.op)]
  <2>1. r \in Begun /\ m = req[r].cmd /\ m.key \in Key
        BY <1>2, <1>9 DEF Runs, Begun
  <2>2. /\ TypesFree(m.key, types)
        /\ events' = events \cup [key : {m.key}, type : types]
        BY <1>1, <1>9 DEF AppendHistory
  <2>3. acts => own \notin events /\ own \in events'
        BY <1>1, <2>2 DEF TypesFree
  <2>4. acts => effects[m.key] = 0
        BY <1>5, <2>1, <2>3 DEF KeyInv
  <2>5. \A k \in Key : effects'[k] = IF k = m.key /\ acts THEN 1
                                     ELSE effects[k]
        BY <1>1, <2>4
  <2>6. effects' \in [Key -> 0..MaxCommands]
    <3>1. \A k \in Key : effects'[k] \in 0..1
          BY <1>5, <2>5
    <3> QED
        BY <1>1, <1>6, <3>1
  <2>7. events' \subseteq [key : Key, type : EventType]
        BY <1>7, <2>1, <2>2
  <2>8. \A k : Answered(k) => Answered(k)'
        BY <2>2 DEF Answered
  <2>9. acts => Answered(m.key)'
        BY <2>3 DEF Answered
  <2>10. \A q \in Begun' :
           req'[q].cmd.key \in Key /\ effects'[req'[q].cmd.key] > 0 =>
             [key |-> req'[q].cmd.key, type |-> Principal(req'[q].cmd.op)]
               \in events'
    <3> SUFFICES ASSUME NEW q \in Begun', req[q].cmd.key \in Key,
                        effects'[req[q].cmd.key] > 0
                 PROVE  [key |-> req[q].cmd.key,
                         type |-> Principal(req[q].cmd.op)] \in events'
        BY <1>4
    <3>1. CASE req[q].cmd.key = m.key /\ acts
      <4>1. req[q].cmd = m
            BY <1>4, <2>1, <3>1 DEF KeyInv
      <4> QED
          BY <2>3, <3>1, <4>1
    <3>2. CASE ~(req[q].cmd.key = m.key /\ acts)
          BY <1>4, <2>2, <2>5, <3>2 DEF KeyInv
    <3> QED
        BY <3>1, <3>2
  <2>11. \A k \in Key : effects'[k] > 0 => Answered(k)'
         BY <2>5, <2>8, <2>9 DEF KeyInv
  <2>12. KeyActsOnce'
         BY <1>5, <2>5 DEF KeyActsOnce
  <2>13. KeyInv'
         BY <1>4, <2>10, <2>11, <2>12 DEF KeyInv, Principal
  <2> QED
      BY <2>6, <2>7, <2>13
<1> QED
    BY <1>8, <1>9

(***************************************************************************)
(* A row with a new version does not escape a patch that has read the old  *)
(* one.                                                                    *)
(***************************************************************************)
LEMMA RewriteKeepsPatches ==
    ASSUME LifecycleTypeOK, DealInv, PatchInv, NEW r \in Request,
           NEW m, NEW row, NEW pushed, Rewrites(m, row, pushed),
           req' = [req EXCEPT ![r] = Resting],
           VersionedPatchKeeps'
    PROVE  PatchInv'
<1>1. \A c \in Id : card'[c] = IF c = m.id THEN row
                              ELSE IF c \in pushed THEN Bump(card[c])
                              ELSE card[c]
      BY DEF Rewrites
<1>2. \A q \in Request : req'[q] = IF q = r THEN Resting ELSE req[q]
      BY DEF LifecycleTypeOK
<1>3. /\ m.id \in Id /\ row.row # "none"
      /\ row.version = card[m.id].version + 1
      /\ card[m.id].version \in Nat
      BY DEF Rewrites, LifecycleTypeOK, Card
<1>4. ASSUME NEW q \in Request, req'[q].pc # "rest", req'[q].cmd.op = "patch"
      PROVE  /\ req'[q].cmd.id \in Id /\ card'[req'[q].cmd.id].row # "none"
             /\ req'[q].snap.version <= card'[req'[q].cmd.id].version
             /\ \/ req'[q].snap.version # card'[req'[q].cmd.id].version
                \/ req'[q].snap.owner = card'[req'[q].cmd.id].owner
                \/ card'[req'[q].cmd.id].ownerBy = "projection"
  <2>1. q # r /\ req'[q] = req[q]
        BY <1>2, <1>4, RestingTyped
  <2>2. /\ req[q].cmd.id \in Id /\ card[req[q].cmd.id].row # "none"
        /\ req[q].snap.version <= card[req[q].cmd.id].version
        /\ \/ req[q].snap.version # card[req[q].cmd.id].version
           \/ req[q].snap.owner = card[req[q].cmd.id].owner
           \/ card[req[q].cmd.id].ownerBy = "projection"
        BY <1>4, <2>1 DEF PatchInv
  <2>3. req[q].snap.version \in Nat
        BY DEF LifecycleTypeOK, Snapshot
  <2>4. CASE req[q].cmd.id = m.id
        BY <2>1, <2>2, <2>3, <2>4, <1>1, <1>3
  <2>5. CASE req[q].cmd.id # m.id /\ req[q].cmd.id \in pushed
    <3>1. card'[req[q].cmd.id] = Bump(card[req[q].cmd.id])
          BY <1>1, <2>2, <2>5
    <3>2. card[req[q].cmd.id] \in Card
          BY <2>2 DEF LifecycleTypeOK
    <3>3. /\ card'[req[q].cmd.id].version = card[req[q].cmd.id].version + 1
          /\ card'[req[q].cmd.id].row = card[req[q].cmd.id].row
          BY <2>2, <3>1, <3>2, BumpedRow DEF Rewrites, DealInv
    <3>4. card[req[q].cmd.id].version \in Nat
          BY <3>2 DEF Card
    <3> QED
        BY <2>1, <2>2, <2>3, <3>3, <3>4
  <2>6. CASE req[q].cmd.id # m.id /\ req[q].cmd.id \notin pushed
        BY <2>1, <2>2, <2>6, <1>1
  <2> QED
      BY <2>4, <2>5, <2>6
<1> QED
    BY <1>4 DEF PatchInv

(***************************************************************************)
(* A new row is none that a patch has read.                                *)
(***************************************************************************)
LEMMA InsertKeepsPatches ==
    ASSUME LifecycleTypeOK, PatchInv,
           NEW c, NEW linked, NEW source, NEW to,
           Inserts(c, linked, source, to),
           \A q \in Request : req'[q] = req[q] \/ req'[q] = Resting,
           lost' = lost
    PROVE  PatchInv'
<1>1. \A d \in Id : card[d].row # "none" => card'[d] = card[d]
  <2>1. \E stage \in Stages, pipe \in Pipelines :
          card' = [card EXCEPT ![c] =
                     NewCard(linked, source, stage, pipe, "automatic")]
        BY DEF Inserts
  <2>2. card[c].row = "none"
        BY DEF Inserts, NewId
  <2> QED
      BY <2>1, <2>2 DEF LifecycleTypeOK
<1>2. \A q \in Request : req'[q].pc # "rest" => req'[q] = req[q]
      BY RestingTyped
<1>3. ASSUME NEW q \in Request, req'[q].pc # "rest", req'[q].cmd.op = "patch"
      PROVE  /\ req'[q].cmd.id \in Id
             /\ card'[req'[q].cmd.id] = card[req[q].cmd.id]
             /\ card[req[q].cmd.id].row # "none"
             /\ req'[q] = req[q]
      BY <1>1, <1>2, <1>3 DEF PatchInv
<1> QED
    BY <1>2, <1>3 DEF PatchInv, VersionedPatchKeeps

-----------------------------------------------------------------------------

(***************************************************************************)
(* A transaction that commits appends its events.                          *)
(***************************************************************************)
LEMMA CommitAppends ==
    ASSUME NEW r \in Request, NEW m \in Sent, Runs(r, m),
           NEW cards, NEW to, NEW types \in SUBSET EventType,
           Acts(m, cards) => Principal(m.op) \in types,
           Commit(r, m, cards, to, types)
    PROVE  Appends(r, m)
<1>1. Acts(m, cards) \in BOOLEAN
      BY DEF Acts
<1> QED
    BY <1>1 DEF Commit, Appends

(***************************************************************************)
(* A transaction that writes over a deal keeps the invariant.              *)
(***************************************************************************)
LEMMA RewriteKeepsAll ==
    ASSUME LifecycleInv, NEW r, NEW m, NEW row, NEW pushed,
           Rewrites(m, row, pushed), Appends(r, m), VersionedPatchKeeps',
           lost' \subseteq [versioned : BOOLEAN, by : {"command", "projection"}]
    PROVE  LifecycleInv'
<1>1. DealInv' /\ card' \in [Id -> Card]
      BY RewriteKeepsDeals DEF LifecycleInv
<1>2. /\ KeyInv' /\ events' \subseteq [key : Key, type : EventType]
      /\ effects' \in [Key -> 0..MaxCommands]
      BY AppendsKeepsKeys DEF LifecycleInv
<1>3. PatchInv'
      BY RewriteKeepsPatches DEF LifecycleInv, Appends
<1>4. req' \in [Request -> [pc : {"rest", "read", "begun"}, cmd : Command,
                           snap : Snapshot]]
      BY RestingTyped DEF Appends, LifecycleInv, LifecycleTypeOK
<1>5. LifecycleTypeOK'
  <2>1. /\ pointer' \in 0..MaxCards /\ commands' \in 0..MaxCommands
        /\ copies' \subseteq 0..MaxCards
        /\ marks' \subseteq {"reopened", "rewound"}
        BY DEF LifecycleInv, LifecycleTypeOK, Rewrites
  <2> QED
      BY <1>1, <1>2, <1>4, <2>1 DEF LifecycleTypeOK, EventType
<1> QED
    BY <1>1, <1>2, <1>3, <1>5 DEF LifecycleInv

(***************************************************************************)
(* A transaction that inserts a deal keeps the invariant.                  *)
(***************************************************************************)
LEMMA InsertKeepsAll ==
    ASSUME LifecycleInv, NEW r, NEW m, NEW c, NEW linked, NEW source, NEW to,
           Inserts(c, linked, source, to), Appends(r, m), lost' = lost
    PROVE  LifecycleInv'
<1>1. DealInv' /\ card' \in [Id -> Card] /\ pointer' \in 0..MaxCards
      BY InsertKeepsDeals DEF LifecycleInv
<1>2. /\ KeyInv' /\ events' \subseteq [key : Key, type : EventType]
      /\ effects' \in [Key -> 0..MaxCommands]
      BY AppendsKeepsKeys DEF LifecycleInv
<1>3. req' = [req EXCEPT ![r] = Resting]
      BY DEF Appends
<1>4. \A q \in Request : req'[q] = req[q] \/ req'[q] = Resting
      BY <1>3 DEF LifecycleInv, LifecycleTypeOK
<1>5. PatchInv'
      BY <1>4, InsertKeepsPatches DEF LifecycleInv
<1>6. req' \in [Request -> [pc : {"rest", "read", "begun"}, cmd : Command,
                           snap : Snapshot]]
      BY <1>3, RestingTyped DEF LifecycleInv, LifecycleTypeOK
<1>7. LifecycleTypeOK'
  <2>1. /\ commands' \in 0..MaxCommands /\ copies' \subseteq 0..MaxCards
        /\ marks' \subseteq {"reopened", "rewound"}
        /\ lost' \subseteq [versioned : BOOLEAN, by : {"command", "projection"}]
        BY DEF LifecycleInv, LifecycleTypeOK, Inserts
  <2> QED
      BY <1>1, <1>2, <1>6, <2>1 DEF LifecycleTypeOK, EventType
<1> QED
    BY <1>1, <1>2, <1>5, <1>7 DEF LifecycleInv

-----------------------------------------------------------------------------

(***************************************************************************)
(* A command on a card keeps the invariant if the row it commits has the   *)
(* status of its stage and opens nothing unmarked, whichever live cards it *)
(* pushes on.                                                              *)
(***************************************************************************)
LEMMA PlacedCommits ==
    ASSUME LifecycleInv, NEW r \in Request, NEW m \in Sent,
           m.op # "create", Runs(r, m), Live(m.id),
           NEW row \in Card, row.row # "none",
           row.linked = card[m.id].linked, row.source = card[m.id].source,
           row.version = card[m.id].version, row.status = Status(row.stage),
           row.status = "open" =>
             card[m.id].status = "open" \/ marks' # {},
           marks \subseteq marks', marks' \subseteq {"reopened", "rewound"},
           NEW pushed \in SUBSET (Id \ {m.id}), \A c \in pushed : Live(c),
           NEW types \in SUBSET EventType,
           Acts(m, Placed(m, row, pushed)) => Principal(m.op) \in types,
           Commit(r, m, Placed(m, row, pushed), pointer, types),
           VersionedPatchKeeps',
           lost' \subseteq [versioned : BOOLEAN, by : {"command", "projection"}]
    PROVE  LifecycleInv'
<1>1. Appends(r, m)
      BY CommitAppends
<1>2. /\ commands < MaxCommands /\ commands' = commands + 1
      /\ card' = Placed(m, row, pushed) /\ pointer' = pointer
      /\ copies' = copies
      BY DEF Commit
<1>3. m.id \in Id
      BY SentIsCommand
<1>4. /\ Bump(row) \in Card /\ Bump(row).version = card[m.id].version + 1
      /\ Bump(row).row = row.row /\ Bump(row).linked = row.linked
      /\ Bump(row).source = row.source /\ Bump(row).stage = row.stage
      /\ Bump(row).status = row.status
      BY <1>2, <1>3, BumpedRow DEF LifecycleInv, DealInv
<1>5. Rewrites(m, Bump(row), pushed)
      BY <1>2, <1>3, <1>4 DEF Rewrites, Placed
<1> QED
    BY <1>1, <1>5, RewriteKeepsAll

(***************************************************************************)
(* The same of a command that pushes no card on.                           *)
(***************************************************************************)
LEMMA RewriteCommits ==
    ASSUME LifecycleInv, NEW r \in Request, NEW m \in Sent,
           m.op # "create", Runs(r, m), Live(m.id),
           NEW row \in Card, row.row # "none",
           row.linked = card[m.id].linked, row.source = card[m.id].source,
           row.version = card[m.id].version, row.status = Status(row.stage),
           row.status = "open" =>
             card[m.id].status = "open" \/ marks' # {},
           marks \subseteq marks', marks' \subseteq {"reopened", "rewound"},
           NEW types \in SUBSET EventType,
           \/ Principal(m.op) \in types
           \/ ~Acts(m, [card EXCEPT ![m.id] = Bump(row)]),
           Commit(r, m, [card EXCEPT ![m.id] = Bump(row)], pointer, types),
           VersionedPatchKeeps',
           lost' \subseteq [versioned : BOOLEAN, by : {"command", "projection"}]
    PROVE  LifecycleInv'
<1>1. [card EXCEPT ![m.id] = Bump(row)] = Placed(m, row, {})
      BY DEF Placed, LifecycleInv, LifecycleTypeOK
<1>2. Acts(m, Placed(m, row, {})) => Principal(m.op) \in types
      BY <1>1
<1>3. Commit(r, m, Placed(m, row, {}), pointer, types)
      BY <1>1
<1> QED
    BY <1>2, <1>3, PlacedCommits

(***************************************************************************)
(* What a command knows of the card it has locked.                         *)
(***************************************************************************)
LEMMA LockedCard ==
    ASSUME LifecycleInv, NEW r, NEW m \in Sent, NEW op, op # "create",
           Locked(r, m, op)
    PROVE  /\ m.op = op /\ Runs(r, m) /\ m.id \in Id /\ Live(m.id)
           /\ card[m.id] \in Card /\ card[m.id].row = "live"
           /\ card[m.id].status = Status(card[m.id].stage)
           /\ m.stage \in Stages /\ m.pipe \in Pipelines
           /\ m.mode \in {"automatic", "manual"} /\ m.versioned \in BOOLEAN
           /\ marks \subseteq {"reopened", "rewound"} /\ VersionedPatchKeeps
           /\ lost \subseteq [versioned : BOOLEAN,
                               by : {"command", "projection"}]
<1>1. m.op = op /\ Runs(r, m) /\ m.id \in Id /\ Live(m.id) /\ m \in Command
      BY SentIsCommand DEF Locked
<1>2. /\ card[m.id] \in Card /\ card[m.id].row = "live"
      /\ card[m.id].status = Status(card[m.id].stage)
      BY <1>1 DEF LifecycleInv, LifecycleTypeOK, DealInv, StatusOfStage, Live
<1>3. /\ marks \subseteq {"reopened", "rewound"} /\ VersionedPatchKeeps
      /\ lost \subseteq [versioned : BOOLEAN, by : {"command", "projection"}]
      BY DEF LifecycleInv, LifecycleTypeOK, PatchInv
<1> QED
    BY <1>1, <1>2, <1>3 DEF Command

(***************************************************************************)
(* Every stage has one of the three statuses.                              *)
(***************************************************************************)
LEMMA StatusValues ==
    ASSUME NEW stage
    PROVE  Status(stage) \in {"open", "won", "lost"}
BY DEF Status

-----------------------------------------------------------------------------

(***************************************************************************)
(* moveStage: a card that comes back to an open stage is marked.           *)
(***************************************************************************)
LEMMA MoveStageKeeps ==
    ASSUME LifecycleInv, NEW r \in Request, NEW m \in Sent, MoveStage(r, m)
    PROVE  LifecycleInv'
<1> DEFINE c == card[m.id]
           flips == m.actor # "auto" /\ (c.linked \/ m.actor = "override")
           row == [c EXCEPT !.stage = m.stage, !.status = Status(m.stage),
                            !.mode = IF flips THEN "manual" ELSE @]
           types == {"stage"}
                \cup (IF flips /\ c.mode # "manual" THEN {"mode"} ELSE {})
                \cup (IF Status(m.stage) # c.status THEN {"status"} ELSE {})
<1>1. PICK pushed \in SUBSET (IF m.place THEN Behind(m) ELSE {}) :
         Commit(r, m, Placed(m, row, pushed), pointer, types)
      BY DEF MoveStage
<1>2. /\ Locked(r, m, "move")
      /\ marks' = marks \cup (IF c.status # "open" /\ Status(m.stage) = "open"
                                 THEN {"reopened"} ELSE {})
      /\ lost' = lost
      BY DEF MoveStage
<1>3. /\ m.op = "move" /\ Runs(r, m) /\ Live(m.id) /\ m.stage \in Stages
      /\ c \in Card /\ c.row = "live" /\ marks \subseteq {"reopened", "rewound"}
      /\ VersionedPatchKeeps
      /\ lost \subseteq [versioned : BOOLEAN, by : {"command", "projection"}]
  <2>1. Locked(r, m, "move")
        BY <1>2
  <2> QED
      BY <2>1, LockedCard
<1>4. /\ row \in Card /\ row.version = c.version /\ row.row = c.row
      /\ row.linked = c.linked /\ row.source = c.source
      /\ row.stage = m.stage /\ row.status = Status(m.stage)
      BY <1>3, StatusValues DEF Card
<1>5. types \in SUBSET EventType /\ Principal(m.op) \in types
      BY <1>3 DEF EventType, Principal
<1>6. /\ marks \subseteq marks' /\ marks' \subseteq {"reopened", "rewound"}
      /\ row.status = "open" => c.status = "open" \/ marks' # {}
      BY <1>2, <1>3, <1>4
<1>7. pushed \subseteq Id \ {m.id} /\ \A d \in pushed : Live(d)
      BY DEF Behind
<1> HIDE DEF row, types
<1>8. VersionedPatchKeeps' /\ lost' = lost
      BY <1>2, <1>3 DEF VersionedPatchKeeps
<1> QED
    BY <1>1, <1>2, <1>3, <1>4, <1>5, <1>6, <1>7, <1>8, PlacedCommits

(***************************************************************************)
(* A card that is given a place on its stage is no other deal for it.      *)
(***************************************************************************)
LEMMA ReorderKeeps ==
    ASSUME LifecycleInv, NEW r \in Request, NEW m \in Sent, Reorder(r, m)
    PROVE  LifecycleInv'
<1> DEFINE row == card[m.id]
<1>1. PICK pushed \in SUBSET Behind(m) :
         Commit(r, m, Placed(m, row, pushed), pointer, {"updated"})
      BY DEF Reorder
<1>2. Locked(r, m, "move") /\ marks' = marks /\ lost' = lost
      BY DEF Reorder
<1>3. /\ m.op = "move" /\ Runs(r, m) /\ m.id \in Id /\ Live(m.id)
      /\ row \in Card /\ row.row = "live" /\ row.status = Status(row.stage)
      /\ marks \subseteq {"reopened", "rewound"} /\ VersionedPatchKeeps
      /\ lost \subseteq [versioned : BOOLEAN, by : {"command", "projection"}]
  <2>1. Locked(r, m, "move")
        BY <1>2
  <2> QED
      BY <2>1, LockedCard
<1>4. pushed \subseteq Id \ {m.id} /\ \A c \in pushed : Live(c)
      BY DEF Behind
<1>5. ~Acts(m, Placed(m, row, pushed))
  <2>1. ASSUME NEW c \in Id
        PROVE  Substance(Placed(m, row, pushed)[c]) = Substance(card[c])
    <3>1. Placed(m, row, pushed)[c] \in {Bump(card[c]), card[c]}
          BY DEF Placed
    <3>2. card[c] \in Card
          BY DEF LifecycleInv, LifecycleTypeOK
    <3>3. Substance(Bump(card[c])) = Substance(card[c])
          BY <3>2 DEF Substance, Bump, Card
    <3> QED
        BY <3>1, <3>3
  <2> QED
      BY <1>3, <2>1 DEF Acts
<1>6. {"updated"} \in SUBSET EventType
      BY DEF EventType
<1>7. VersionedPatchKeeps'
      BY <1>2, <1>3 DEF VersionedPatchKeeps
<1> HIDE DEF row
<1>8. /\ row.linked = card[m.id].linked /\ row.source = card[m.id].source
      /\ row.version = card[m.id].version /\ row.row # "none"
      /\ row.status = "open" => card[m.id].status = "open"
      BY <1>3 DEF row
<1> QED
    BY <1>1, <1>2, <1>3, <1>4, <1>5, <1>6, <1>7, <1>8, PlacedCommits

(***************************************************************************)
(* changeStatus: the stage follows the status, and nothing is reopened.    *)
(***************************************************************************)
LEMMA ChangeStatusKeeps ==
    ASSUME LifecycleInv, NEW r \in Request, NEW m \in Sent, ChangeStatus(r, m)
    PROVE  LifecycleInv'
<1> DEFINE c == card[m.id]
           status == Status(m.stage)
           stage == IF status = "open" THEN c.stage ELSE m.stage
           row == [c EXCEPT !.stage = stage, !.status = status]
           types == (IF stage # c.stage THEN {"stage"} ELSE {})
                      \cup (IF status # c.status THEN {"status"} ELSE {})
<1>1. /\ Locked(r, m, "status") /\ MayClose(m.id, status)
      /\ Commit(r, m, [card EXCEPT ![m.id] = Bump(row)], pointer, types)
      /\ marks' = marks /\ lost' = lost
      BY DEF ChangeStatus
<1>2. /\ m.op = "status" /\ Runs(r, m) /\ Live(m.id) /\ m.stage \in Stages
      /\ c \in Card /\ c.row = "live" /\ c.status = Status(c.stage)
      /\ marks \subseteq {"reopened", "rewound"} /\ VersionedPatchKeeps
      /\ lost \subseteq [versioned : BOOLEAN, by : {"command", "projection"}]
  <2>1. Locked(r, m, "status")
        BY <1>1
  <2> QED
      BY <2>1, LockedCard
<1>3. c.status = "open" \/ c.status = status
      BY <1>1 DEF MayClose
<1>4. stage \in Stages /\ status = Status(stage)
      BY <1>2, <1>3 DEF Card
\* A stage that changes is one of another status: there is one per outcome.
<1>5. stage # c.stage => status # c.status
      BY <1>2, <1>3 DEF Status
<1>6. /\ row \in Card /\ row.version = c.version /\ row.row = c.row
      /\ row.linked = c.linked /\ row.source = c.source
      /\ row.stage = stage /\ row.status = status
      BY <1>2, <1>4, StatusValues DEF Card
<1>7. types \in SUBSET EventType
      BY DEF EventType
\* Without an event the stage and the status are what they were.
<1>8. \/ Principal(m.op) \in types
      \/ ~Acts(m, [card EXCEPT ![m.id] = Bump(row)])
  <2>1. CASE status # c.status
        BY <1>2, <2>1 DEF Principal
  <2>2. CASE status = c.status
    <3>1. row = c
          BY <1>2, <1>5, <2>2 DEF Card
    <3>2. Substance(Bump(c)) = Substance(c)
          BY <1>2 DEF Substance, Bump, Card
    <3>3. \A d \in Id : Substance([card EXCEPT ![m.id] = Bump(row)][d])
                          = Substance(card[d])
          BY <3>1, <3>2 DEF LifecycleInv, LifecycleTypeOK
    <3> QED
        BY <1>2, <3>3 DEF Acts
  <2> QED
      BY <2>1, <2>2
<1> HIDE DEF row, types, stage, status
<1> QED
    BY <1>1, <1>2, <1>3, <1>4, <1>6, <1>7, <1>8, RewriteCommits
    DEF VersionedPatchKeeps

(***************************************************************************)
(* transferPipeline: an open card stays open on the other pipeline.        *)
(***************************************************************************)
LEMMA TransferPipelineKeeps ==
    ASSUME LifecycleInv, NEW r \in Request, NEW m \in Sent,
           TransferPipeline(r, m)
    PROVE  LifecycleInv'
<1> DEFINE row == [card[m.id] EXCEPT !.pipe = m.pipe, !.stage = m.stage]
<1>1. /\ Locked(r, m, "transfer") /\ Open(m.id) /\ Status(m.stage) = "open"
      /\ Commit(r, m, [card EXCEPT ![m.id] = Bump(row)], pointer,
                {"transfer"})
      /\ marks' = marks /\ lost' = lost
      BY DEF TransferPipeline
<1>2. /\ m.op = "transfer" /\ Runs(r, m) /\ Live(m.id) /\ m.stage \in Stages
      /\ m.pipe \in Pipelines /\ card[m.id] \in Card
      /\ card[m.id].row = "live" /\ card[m.id].status = "open"
      /\ marks \subseteq {"reopened", "rewound"} /\ VersionedPatchKeeps
      /\ lost \subseteq [versioned : BOOLEAN, by : {"command", "projection"}]
  <2>1. Locked(r, m, "transfer")
        BY <1>1
  <2>2. card[m.id].status = "open"
        BY <1>1 DEF Open
  <2> QED
      BY <2>1, <2>2, LockedCard
<1>3. /\ row \in Card /\ row.version = card[m.id].version
      /\ row.row = card[m.id].row /\ row.linked = card[m.id].linked
      /\ row.source = card[m.id].source /\ row.stage = m.stage
      /\ row.status = "open"
      BY <1>2 DEF Card
<1>4. {"transfer"} \in SUBSET EventType /\ Principal(m.op) \in {"transfer"}
      BY <1>2 DEF EventType, Principal
<1> HIDE DEF row
<1> QED
    BY <1>1, <1>2, <1>3, <1>4, RewriteCommits DEF VersionedPatchKeeps

(***************************************************************************)
(* setAutonomyMode.                                                        *)
(***************************************************************************)
LEMMA SetAutonomyModeKeeps ==
    ASSUME LifecycleInv, NEW r \in Request, NEW m \in Sent,
           SetAutonomyMode(r, m)
    PROVE  LifecycleInv'
<1> DEFINE row == [card[m.id] EXCEPT !.mode = m.mode]
<1>1. /\ Locked(r, m, "autonomy")
      /\ Commit(r, m, [card EXCEPT ![m.id] = Bump(row)], pointer, {"mode"})
      /\ marks' = marks /\ lost' = lost
      BY DEF SetAutonomyMode
<1>2. /\ m.op = "autonomy" /\ Runs(r, m) /\ Live(m.id)
      /\ m.mode \in {"automatic", "manual"} /\ card[m.id] \in Card
      /\ card[m.id].row = "live"
      /\ card[m.id].status = Status(card[m.id].stage)
      /\ marks \subseteq {"reopened", "rewound"} /\ VersionedPatchKeeps
      /\ lost \subseteq [versioned : BOOLEAN, by : {"command", "projection"}]
  <2>1. Locked(r, m, "autonomy")
        BY <1>1
  <2> QED
      BY <2>1, LockedCard
<1>3. /\ row \in Card /\ row.version = card[m.id].version
      /\ row.row = card[m.id].row /\ row.linked = card[m.id].linked
      /\ row.source = card[m.id].source /\ row.stage = card[m.id].stage
      /\ row.status = card[m.id].status
      BY <1>2 DEF Card
<1>4. {"mode"} \in SUBSET EventType /\ Principal(m.op) \in {"mode"}
      BY <1>2 DEF EventType, Principal
<1> HIDE DEF row
<1> QED
    BY <1>1, <1>2, <1>3, <1>4, RewriteCommits DEF VersionedPatchKeeps

(***************************************************************************)
(* distributeOwner.                                                        *)
(***************************************************************************)
LEMMA DistributeOwnerKeeps ==
    ASSUME LifecycleInv, NEW r \in Request, NEW m \in Sent,
           DistributeOwner(r, m)
    PROVE  LifecycleInv'
<1> DEFINE row == [card[m.id] EXCEPT !.owner = "somebody",
                                     !.ownerBy = "command"]
<1>1. /\ Locked(r, m, "distribute")
      /\ Commit(r, m, [card EXCEPT ![m.id] = Bump(row)], pointer, {"owner"})
      /\ marks' = marks /\ lost' = lost
      BY DEF DistributeOwner
<1>2. /\ m.op = "distribute" /\ Runs(r, m) /\ Live(m.id)
      /\ card[m.id] \in Card /\ card[m.id].row = "live"
      /\ card[m.id].status = Status(card[m.id].stage)
      /\ marks \subseteq {"reopened", "rewound"} /\ VersionedPatchKeeps
      /\ lost \subseteq [versioned : BOOLEAN, by : {"command", "projection"}]
  <2>1. Locked(r, m, "distribute")
        BY <1>1
  <2> QED
      BY <2>1, LockedCard
<1>3. /\ row \in Card /\ row.version = card[m.id].version
      /\ row.row = card[m.id].row /\ row.linked = card[m.id].linked
      /\ row.source = card[m.id].source /\ row.stage = card[m.id].stage
      /\ row.status = card[m.id].status
      BY <1>2 DEF Card
<1>4. {"owner"} \in SUBSET EventType /\ Principal(m.op) \in {"owner"}
      BY <1>2 DEF EventType, Principal
<1> HIDE DEF row
<1> QED
    BY <1>1, <1>2, <1>3, <1>4, RewriteCommits DEF VersionedPatchKeeps

(***************************************************************************)
(* deleteOpportunity: the row keeps its place in the line.                 *)
(***************************************************************************)
LEMMA DeleteCardKeeps ==
    ASSUME LifecycleInv, NEW r \in Request, NEW m \in Sent, DeleteCard(r, m)
    PROVE  LifecycleInv'
<1> DEFINE row == [card[m.id] EXCEPT !.row = "deleted"]
<1>1. Locked(r, m, "delete") /\ marks' = marks /\ lost' = lost
      BY DEF DeleteCard
<1>2. /\ m.op = "delete" /\ Runs(r, m) /\ Live(m.id) /\ m.id \in Id
      /\ card[m.id] \in Card /\ card[m.id].row = "live"
      /\ card[m.id].status = Status(card[m.id].stage)
      /\ marks \subseteq {"reopened", "rewound"} /\ VersionedPatchKeeps
      /\ lost \subseteq [versioned : BOOLEAN, by : {"command", "projection"}]
  <2>1. Locked(r, m, "delete")
        BY <1>1
  <2> QED
      BY <2>1, LockedCard
<1>3. Commit(r, m, [card EXCEPT ![m.id] = Bump(row)], pointer, {"updated"})
      BY <1>2 DEF DeleteCard, LifecycleInv, LifecycleTypeOK
<1>4. /\ row \in Card /\ row.version = card[m.id].version
      /\ row.row = "deleted" /\ row.linked = card[m.id].linked
      /\ row.source = card[m.id].source /\ row.stage = card[m.id].stage
      /\ row.status = card[m.id].status
      BY <1>2 DEF Card
<1>5. {"updated"} \in SUBSET EventType /\ Principal(m.op) \in {"updated"}
      BY <1>2 DEF EventType, Principal
<1> HIDE DEF row
<1> QED
    BY <1>1, <1>2, <1>3, <1>4, <1>5, RewriteCommits DEF VersionedPatchKeeps

(***************************************************************************)
(* updateOpportunity: a patch whose version holds has read the owner that  *)
(* it puts back, unless the projection wrote it since.                     *)
(***************************************************************************)
LEMMA PatchCardKeeps ==
    ASSUME LifecycleInv, NEW r \in Request, NEW m \in Sent, PatchCard(r, m)
    PROVE  LifecycleInv'
<1> DEFINE read == req[r].snap
           row == [card[m.id] EXCEPT !.owner = read.owner]
           trace == [versioned |-> m.versioned, by |-> card[m.id].ownerBy]
<1>1. /\ Locked(r, m, "patch") /\ marks' = marks
      /\ lost' = IF card[m.id].owner # read.owner
                    THEN lost \cup {trace} ELSE lost
      BY DEF PatchCard
<1>2. /\ m.op = "patch" /\ Runs(r, m) /\ Live(m.id) /\ m.id \in Id
      /\ card[m.id] \in Card /\ card[m.id].row = "live"
      /\ card[m.id].status = Status(card[m.id].stage)
      /\ m.versioned \in BOOLEAN
      /\ marks \subseteq {"reopened", "rewound"} /\ VersionedPatchKeeps
      /\ lost \subseteq [versioned : BOOLEAN, by : {"command", "projection"}]
  <2>1. Locked(r, m, "patch")
        BY <1>1
  <2> QED
      BY <2>1, LockedCard
<1>3. Commit(r, m, [card EXCEPT ![m.id] = Bump(row)], pointer, {"updated"})
      BY <1>2 DEF PatchCard, LifecycleInv, LifecycleTypeOK
<1>4. read.owner \in {"nobody", "somebody"}
      BY DEF LifecycleInv, LifecycleTypeOK, Snapshot
<1>5. /\ row \in Card /\ row.version = card[m.id].version
      /\ row.row = "live" /\ row.linked = card[m.id].linked
      /\ row.source = card[m.id].source /\ row.stage = card[m.id].stage
      /\ row.status = card[m.id].status
      BY <1>2, <1>4 DEF Card
<1>6. {"updated"} \in SUBSET EventType /\ Principal(m.op) \in {"updated"}
      BY <1>2 DEF EventType, Principal
<1>7. lost' \subseteq [versioned : BOOLEAN, by : {"command", "projection"}]
      BY <1>1, <1>2 DEF Card
\* A patch has read its card: with the version it still has, unless the
\* projection wrote in between, the owner is the one it read.
<1>8. VersionedPatchKeeps'
  <2> SUFFICES ASSUME card[m.id].owner # read.owner, m.versioned
               PROVE  card[m.id].ownerBy = "projection"
      BY <1>1, <1>2 DEF VersionedPatchKeeps
  <2>1. req[r].pc # "rest" /\ m = req[r].cmd
        BY <1>2 DEF Runs, ReadsFirst
  <2>2. read.version = card[m.id].version
        BY <1>1, <2>1 DEF Locked, VersionHolds
  <2> QED
      BY <1>2, <2>1, <2>2 DEF LifecycleInv, PatchInv
<1> HIDE DEF row, read, trace
<1> QED
    BY <1>1, <1>2, <1>3, <1>5, <1>6, <1>7, <1>8, RewriteCommits

(***************************************************************************)
(* createOpportunity.                                                      *)
(***************************************************************************)
LEMMA CreateKeeps ==
    ASSUME LifecycleInv, NEW r \in Request, NEW m \in Sent, Create(r, m)
    PROVE  LifecycleInv'
<1>1. /\ m \in Command /\ m.link \in BOOLEAN /\ m.stage \in Stages
      /\ m.pipe \in Pipelines
      BY SentIsCommand DEF Command
<1>2. PICK c \in NewId :
        /\ m.op = "create" /\ Runs(r, m)
        /\ m.link => Linked = {} /\ pointer = 0
        /\ Commit(r, m, [card EXCEPT ![c] = NewCard(m.link, 0, m.stage, m.pipe,
                                                  "automatic")],
                  IF m.link THEN c ELSE pointer, {"created"})
        /\ marks' = marks /\ lost' = lost
      BY DEF Create
<1>3. Inserts(c, m.link, 0, IF m.link THEN c ELSE pointer)
      BY <1>1, <1>2 DEF Inserts, Commit
<1>4. {"created"} \in SUBSET EventType /\ Principal(m.op) \in {"created"}
      BY <1>2 DEF EventType, Principal
<1>5. Appends(r, m)
      BY <1>2, <1>4, CommitAppends
<1> QED
    BY <1>2, <1>3, <1>5, InsertKeepsAll

(***************************************************************************)
(* A copy does not belong to the conversation.                             *)
(***************************************************************************)
LEMMA CopyKeeps ==
    ASSUME LifecycleInv, NEW r \in Request, NEW m \in Sent, Copy(r, m)
    PROVE  LifecycleInv'
<1>1. PICK c \in NewId :
        /\ Locked(r, m, "copy")
        /\ Commit(r, m, [card EXCEPT ![c] = NewCard(FALSE, m.id, m.stage,
                                                  m.pipe, "automatic")],
                  pointer, {"derived"})
        /\ marks' = marks /\ lost' = lost
      BY DEF Copy
<1>2. /\ m.op = "copy" /\ Runs(r, m) /\ m.id \in Id /\ card[m.id].row = "live"
      /\ m.stage \in Stages /\ m.pipe \in Pipelines
  <2>1. Locked(r, m, "copy")
        BY <1>1
  <2> QED
      BY <2>1, LockedCard
<1>3. Inserts(c, FALSE, m.id, pointer)
      BY <1>1, <1>2 DEF Inserts, Commit
<1>4. {"derived"} \in SUBSET EventType /\ Principal(m.op) \in {"derived"}
      BY <1>2 DEF EventType, Principal
<1>5. Appends(r, m)
      BY <1>1, <1>2, <1>4, CommitAppends
<1> QED
    BY <1>1, <1>3, <1>5, InsertKeepsAll

(***************************************************************************)
(* reconvertOpportunity: the source is closed and is the primary, if there *)
(* is one.                                                                 *)
(***************************************************************************)
LEMMA ReconvertKeeps ==
    ASSUME LifecycleInv, NEW r \in Request, NEW m \in Sent, Reconvert(r, m)
    PROVE  LifecycleInv'
<1> DEFINE linked == card[m.id].linked
<1>1. PICK c \in NewId :
        /\ Locked(r, m, "reconvert") /\ CanReconvert(m.id)
        /\ Commit(r, m, [card EXCEPT ![c] = NewCard(linked, m.id, "first",
                                                  m.pipe, "automatic")],
                  PointerTo(linked, c), {"derived"})
        /\ marks' = marks /\ lost' = lost
      BY DEF Reconvert
<1>2. /\ m.op = "reconvert" /\ Runs(r, m) /\ m.id \in Id
      /\ card[m.id].row = "live" /\ card[m.id] \in Card /\ m.pipe \in Pipelines
  <2>1. Locked(r, m, "reconvert")
        BY <1>1
  <2> QED
      BY <2>1, LockedCard
<1>3. linked \in BOOLEAN
      BY <1>2 DEF Card
<1>4. linked => pointer \in {0, m.id} /\ \A d \in Linked : ~Open(d)
      BY <1>1 DEF CanReconvert
<1>5. "first" \in Stages
      OBVIOUS
<1>6. Inserts(c, linked, m.id, PointerTo(linked, c))
      BY <1>1, <1>2, <1>3, <1>4, <1>5 DEF Inserts, Commit, PointerTo
<1>7. {"derived"} \in SUBSET EventType /\ Principal(m.op) \in {"derived"}
      BY <1>2 DEF EventType, Principal
<1>8. Appends(r, m)
      BY <1>1, <1>2, <1>7, CommitAppends
<1> QED
    BY <1>1, <1>6, <1>8, InsertKeepsAll

-----------------------------------------------------------------------------

(***************************************************************************)
(* Steps that begin no request and append no event keep the keys.          *)
(***************************************************************************)
LEMMA KeysUnmoved ==
    ASSUME KeyInv, events' = events, effects' = effects,
           \A q \in Request : req'[q].pc = "begun" => req'[q] = req[q]
    PROVE  KeyInv'
<1>1. \A q \in Begun' : q \in Begun /\ req'[q] = req[q]
      BY DEF Begun
<1>2. \A k : Answered(k)' = Answered(k)
      BY DEF Answered
<1> QED
    BY <1>1, <1>2 DEF KeyInv, KeyActsOnce

(***************************************************************************)
(* Steps that write no card keep the deals.                                *)
(***************************************************************************)
LEMMA CardsUnmoved ==
    ASSUME DealInv, card' = card, pointer' = pointer, marks' = marks,
           commands' = commands
    PROVE  DealInv'
BY DEF DealInv, RowsInOrder, StatusOfStage, VersionsCounted, PointerIsNewest,
       OpenIsPrimary, OneLineOfCycles, Linked, Open, Live

(***************************************************************************)
(* The closed deal that ensureOpportunity continues is the conversation's. *)
(***************************************************************************)
LEMMA TerminalIsLinked ==
    ASSUME Linked # {}
    PROVE  TerminalSource \in Linked
<1>1. CASE pointer \in Linked
      BY <1>1 DEF TerminalSource
<1>2. CASE pointer \notin Linked
  <2>1. Linked \in SUBSET (1..MaxCards) /\ MaxCards \in Nat
        BY DEF Linked, Id
  <2>2. \E c \in Linked : \A d \in Linked : d <= c
        BY <2>1, HighestOf
  <2> QED
      BY <1>2, <2>2 DEF TerminalSource
<1> QED
    BY <1>1, <1>2

(***************************************************************************)
(* ensureOpportunity: it touches the open deal, which is the primary, or   *)
(* continues the closed one.                                               *)
(***************************************************************************)
LEMMA EnsureOpportunityKeeps ==
    ASSUME LifecycleInv, EnsureOpportunity
    PROVE  LifecycleInv'
<1>1. /\ commands < MaxCommands /\ commands' = commands + 1
      /\ copies' = copies
      /\ events' = events /\ req' = req /\ marks' = marks
      /\ lost' = lost /\ effects' = effects
      BY DEF EnsureOpportunity
<1>2. KeyInv'
      BY <1>1, KeysUnmoved DEF LifecycleInv
<1>3. ASSUME DealInv', PatchInv', card' \in [Id -> Card],
             pointer' \in 0..MaxCards
      PROVE  LifecycleInv'
  <2>1. commands' \in 0..MaxCommands
        BY <1>1 DEF LifecycleInv, LifecycleTypeOK
  <2> QED
      BY <1>1, <1>2, <1>3, <2>1 DEF LifecycleInv, LifecycleTypeOK
<1>4. CASE \E c \in Linked : /\ Open(c) /\ pointer' = c
                           /\ card' = [card EXCEPT ![c] = Bump(@)]
  <2>1. PICK c \in Linked : /\ Open(c) /\ pointer' = c
                            /\ card' = [card EXCEPT ![c] = Bump(@)]
        BY <1>4
  <2>2. /\ c \in Id /\ card[c] \in Card /\ card[c].row = "live"
        /\ card[c].linked /\ card[c].status = "open"
        BY <2>1 DEF Linked, Open, Live, LifecycleInv, LifecycleTypeOK
  <2>3. /\ Bump(card[c]) \in Card
        /\ Bump(card[c]).version = card[c].version + 1
        /\ Bump(card[c]).row = card[c].row
        /\ Bump(card[c]).linked = card[c].linked
        /\ Bump(card[c]).source = card[c].source
        /\ Bump(card[c]).stage = card[c].stage
        /\ Bump(card[c]).status = card[c].status
        BY <1>1, <2>2, BumpedRow DEF LifecycleInv, DealInv
  <2>4. card' \in [Id -> Card]
        BY <2>1, <2>2, <2>3 DEF LifecycleInv, LifecycleTypeOK
  <2>5. \A d \in Id : card'[d] = IF d = c THEN Bump(card[c]) ELSE card[d]
        BY <2>1, <2>2 DEF LifecycleInv, LifecycleTypeOK
  <2>6. marks = {} => pointer' = pointer
        BY <2>1 DEF LifecycleInv, DealInv, OpenIsPrimary
  <2>7. \A d \in Id : /\ card'[d].row = card[d].row
                      /\ card'[d].linked = card[d].linked
                      /\ card'[d].source = card[d].source
                      /\ card'[d].stage = card[d].stage
                      /\ card'[d].status = card[d].status
        BY <2>3, <2>5
  <2>8. DealInv'
    <3>1. RowsInOrder'
          BY <2>2, <2>5, <2>7 DEF LifecycleInv, DealInv, RowsInOrder
    <3>2. StatusOfStage'
          BY <2>7 DEF LifecycleInv, DealInv, StatusOfStage
    <3>3. \A d \in Id : card[d].version \in Nat /\ card[d].version <= commands
          BY DEF LifecycleInv, LifecycleTypeOK, Card, DealInv, VersionsCounted
    <3>4. VersionsCounted'
          BY <1>1, <2>3, <2>5, <3>3
          DEF VersionsCounted, LifecycleInv, LifecycleTypeOK
    <3>5. PointerIsNewest'
          BY <1>1, <2>6, <2>7 DEF LifecycleInv, DealInv, PointerIsNewest
    <3>6. \A d : (d \in Linked /\ Open(d))' <=> d \in Linked /\ Open(d)
          BY <2>7 DEF Linked, Open, Live
    <3>7. OpenIsPrimary'
          BY <1>1, <2>6, <3>6 DEF LifecycleInv, DealInv, OpenIsPrimary
    <3>8. OneLineOfCycles'
          BY <1>1, <2>7 DEF LifecycleInv, DealInv, OneLineOfCycles
    <3> QED
        BY <3>1, <3>2, <3>4, <3>5, <3>7, <3>8 DEF DealInv
  <2>9. PatchInv'
    <3>1. ASSUME NEW q \in Request, req[q].pc # "rest",
                 req[q].cmd.op = "patch"
          PROVE  LET d == req[q].cmd.id IN
                 /\ d \in Id /\ card'[d].row # "none"
                 /\ req[q].snap.version <= card'[d].version
                 /\ \/ req[q].snap.version # card'[d].version
                    \/ req[q].snap.owner = card'[d].owner
                    \/ card'[d].ownerBy = "projection"
      <4> DEFINE d == req[q].cmd.id
      <4>1. /\ d \in Id /\ card[d].row # "none"
            /\ req[q].snap.version <= card[d].version
            /\ \/ req[q].snap.version # card[d].version
               \/ req[q].snap.owner = card[d].owner
               \/ card[d].ownerBy = "projection"
            BY <3>1 DEF LifecycleInv, PatchInv
      <4>2. req[q].snap.version \in Nat /\ card[c].version \in Nat
            BY <2>2 DEF LifecycleInv, LifecycleTypeOK, Snapshot, Card
      <4> QED
          BY <2>3, <2>5, <2>7, <4>1, <4>2
    <3> QED
        BY <1>1, <3>1 DEF LifecycleInv, PatchInv, VersionedPatchKeeps
  <2>10. pointer' \in 0..MaxCards
         BY <2>1, <2>2 DEF Id
  <2> QED
      BY <1>3, <2>4, <2>8, <2>9, <2>10
<1>5. CASE \E c \in NewId, p \in Pipelines :
             /\ \A d \in Linked : ~Open(d)
             /\ Linked # {} => CanReconvert(TerminalSource)
             /\ pointer' = c
             /\ card' = [card EXCEPT ![c] =
                  NewCard(TRUE, IF Linked = {} THEN 0 ELSE TerminalSource,
                          "first", p, "automatic")]
  <2> DEFINE source == IF Linked = {} THEN 0 ELSE TerminalSource
  <2>1. PICK c \in NewId, p \in Pipelines :
             /\ \A d \in Linked : ~Open(d)
             /\ Linked # {} => CanReconvert(TerminalSource)
             /\ pointer' = c
             /\ card' = [card EXCEPT ![c] =
                           NewCard(TRUE, source, "first", p, "automatic")]
        BY <1>5
  <2>2. Linked # {} => /\ TerminalSource \in Id /\ TerminalSource # 0
                       /\ card[TerminalSource].row = "live"
                       /\ card[TerminalSource].linked
        BY TerminalIsLinked DEF Linked, Live, Id
  <2>3. Linked # {} => pointer \in {0, TerminalSource}
        BY <2>1, <2>2 DEF CanReconvert
  <2>4. Inserts(c, TRUE, source, c)
    <3>1. "first" \in Stages
          OBVIOUS
    <3> HIDE DEF TerminalSource
    <3> QED
        BY <1>1, <2>1, <2>2, <2>3, <3>1 DEF Inserts
  <2>5. DealInv' /\ card' \in [Id -> Card] /\ pointer' \in 0..MaxCards
        BY <2>4, InsertKeepsDeals DEF LifecycleInv
  <2>6. PatchInv'
        BY <1>1, <2>4, InsertKeepsPatches DEF LifecycleInv
  <2> QED
      BY <1>3, <2>5, <2>6
<1> QED
    BY <1>4, <1>5 DEF EnsureOpportunity

(***************************************************************************)
(* projectOpportunity: owners change without a version, and say so.        *)
(***************************************************************************)
LEMMA ProjectOwnershipKeeps ==
    ASSUME LifecycleInv, ProjectOwnership
    PROVE  LifecycleInv'
<1>1. /\ commands < MaxCommands /\ commands' = commands + 1
      /\ pointer' = pointer /\ copies' = copies
      /\ events' = events /\ req' = req
      /\ marks' = marks /\ lost' = lost /\ effects' = effects
      BY DEF ProjectOwnership
<1>2. \A c \in Id : card'[c] = IF card[c].linked
                     THEN [card[c] EXCEPT !.owner = "somebody",
                                          !.ownerBy = "projection"]
                     ELSE card[c]
      BY DEF ProjectOwnership
<1>3. \A c \in Id : card[c] \in Card
      BY DEF LifecycleInv, LifecycleTypeOK
<1>4. card' \in [Id -> Card]
  <2>1. ASSUME NEW c \in Id
        PROVE  [card[c] EXCEPT !.owner = "somebody",
                               !.ownerBy = "projection"] \in Card
        BY <1>3 DEF Card
  <2> QED
      BY <1>3, <2>1 DEF ProjectOwnership
<1>5. \A c \in Id : /\ card'[c].row = card[c].row
                    /\ card'[c].linked = card[c].linked
                    /\ card'[c].source = card[c].source
                    /\ card'[c].stage = card[c].stage
                    /\ card'[c].status = card[c].status
                    /\ card'[c].version = card[c].version
                    /\ card[c].linked => card'[c].ownerBy = "projection"
                    /\ ~card[c].linked => card'[c] = card[c]
  <2> SUFFICES ASSUME NEW c \in Id
               PROVE  /\ card'[c].row = card[c].row
                      /\ card'[c].linked = card[c].linked
                      /\ card'[c].source = card[c].source
                      /\ card'[c].stage = card[c].stage
                      /\ card'[c].status = card[c].status
                      /\ card'[c].version = card[c].version
                      /\ card[c].linked => card'[c].ownerBy = "projection"
                      /\ ~card[c].linked => card'[c] = card[c]
      OBVIOUS
  <2>1. CASE card[c].linked
    <3>1. card[c] \in Card
          BY <1>3
    <3>2. card'[c] = [card[c] EXCEPT !.owner = "somebody",
                                     !.ownerBy = "projection"]
          BY <1>2, <2>1
    <3> QED
        BY <2>1, <3>1, <3>2 DEF Card
  <2>2. CASE ~card[c].linked
        BY <1>2, <2>2
  <2> QED
      BY <2>1, <2>2
<1>6. DealInv'
  <2>1. \A c \in Id : card[c].row = "none" =>
          card[c] = NoCard /\ ~card[c].linked
        BY DEF LifecycleInv, DealInv, RowsInOrder, NoCard
  <2>2. RowsInOrder'
        BY <1>5, <2>1 DEF LifecycleInv, DealInv, RowsInOrder
  <2>3. StatusOfStage'
        BY <1>5 DEF LifecycleInv, DealInv, StatusOfStage
  <2>4. \A d \in Id : card[d].version \in Nat /\ card[d].version <= commands
        BY <1>3 DEF LifecycleInv, Card, DealInv, VersionsCounted
  <2>5. VersionsCounted'
        BY <1>1, <1>5, <2>4 DEF VersionsCounted, LifecycleInv, LifecycleTypeOK
  <2>6. PointerIsNewest'
        BY <1>1, <1>5 DEF LifecycleInv, DealInv, PointerIsNewest
  <2>7. \A d : (d \in Linked /\ Open(d))' <=> d \in Linked /\ Open(d)
        BY <1>5 DEF Linked, Open, Live
  <2>8. OpenIsPrimary'
        BY <1>1, <2>7 DEF LifecycleInv, DealInv, OpenIsPrimary
  <2>9. OneLineOfCycles'
        BY <1>1, <1>5 DEF LifecycleInv, DealInv, OneLineOfCycles
  <2> QED
      BY <2>2, <2>3, <2>5, <2>6, <2>8, <2>9 DEF DealInv
<1>7. PatchInv'
  <2>1. ASSUME NEW q \in Request, req[q].pc # "rest", req[q].cmd.op = "patch"
        PROVE  LET d == req[q].cmd.id IN
               /\ d \in Id /\ card'[d].row # "none"
               /\ req[q].snap.version <= card'[d].version
               /\ \/ req[q].snap.version # card'[d].version
                  \/ req[q].snap.owner = card'[d].owner
                  \/ card'[d].ownerBy = "projection"
        BY <1>3, <1>5, <2>1 DEF LifecycleInv, PatchInv, Card
  <2> QED
      BY <1>1, <2>1 DEF LifecycleInv, PatchInv, VersionedPatchKeeps
<1>8. KeyInv'
      BY <1>1, KeysUnmoved DEF LifecycleInv
<1>9. LifecycleTypeOK'
  <2>1. commands' \in 0..MaxCommands
        BY <1>1 DEF LifecycleInv, LifecycleTypeOK
  <2> QED
      BY <1>1, <1>4, <2>1 DEF LifecycleInv, LifecycleTypeOK
<1> QED
    BY <1>6, <1>7, <1>8, <1>9 DEF LifecycleInv

\* The cards, their events and the effects of the keys stay as they are.
RequestOnly ==
    UNCHANGED <<card, pointer, copies, events, commands, marks, lost, effects>>

(***************************************************************************)
(* A step of a request outside its transaction keeps the invariant if it   *)
(* keeps the keys and what the patches have read.                          *)
(***************************************************************************)
LEMMA RequestKeepsAll ==
    ASSUME LifecycleInv, RequestOnly, KeyInv', PatchInv',
           req' \in [Request -> [pc : {"rest", "read", "begun"}, cmd : Command,
                                 snap : Snapshot]]
    PROVE  LifecycleInv'
<1>1. DealInv'
      BY CardsUnmoved DEF LifecycleInv, RequestOnly
<1>2. LifecycleTypeOK'
      BY DEF LifecycleInv, LifecycleTypeOK, RequestOnly
<1> QED
    BY <1>1, <1>2 DEF LifecycleInv

(***************************************************************************)
(* A patch reads the version and the owner together.                       *)
(***************************************************************************)
LEMMA ReadKeeps ==
    ASSUME LifecycleInv, NEW r \in Request, NEW m \in Sent, Read(r, m)
    PROVE  LifecycleInv'
<1> DEFINE snap == [owner |-> card[m.id].owner, version |-> card[m.id].version]
           now == [pc |-> "read", cmd |-> m, snap |-> snap]
<1>1. /\ m.op = "patch" /\ Live(m.id) /\ RequestOnly
      /\ req' = [req EXCEPT ![r] = now]
      BY DEF Read, ReadsFirst, RequestOnly
<1>2. m \in Command /\ m.id \in Id /\ card[m.id] \in Card
      BY <1>1, SentIsCommand DEF LifecycleInv, LifecycleTypeOK
<1>3. now \in [pc : {"rest", "read", "begun"}, cmd : Command, snap : Snapshot]
      BY <1>2 DEF Snapshot, Card
<1>4. \A q \in Request : req'[q] = IF q = r THEN now ELSE req[q]
      BY <1>1 DEF LifecycleInv, LifecycleTypeOK
<1>5. KeyInv'
      BY <1>1, <1>4, KeysUnmoved DEF LifecycleInv, RequestOnly
<1>6. PatchInv'
  <2>1. ASSUME NEW q \in Request, req'[q].pc # "rest",
               req'[q].cmd.op = "patch"
        PROVE  LET d == req'[q].cmd.id IN
               /\ d \in Id /\ card[d].row # "none"
               /\ req'[q].snap.version <= card[d].version
               /\ \/ req'[q].snap.version # card[d].version
                  \/ req'[q].snap.owner = card[d].owner
                  \/ card[d].ownerBy = "projection"
    <3>1. CASE q = r
      <4>1. card[m.id].version \in Nat /\ card[m.id].row # "none"
            BY <1>1, <1>2 DEF Card, Live
      <4> QED
          BY <1>2, <1>4, <3>1, <4>1
    <3>2. CASE q # r
          BY <1>4, <2>1, <3>2 DEF LifecycleInv, PatchInv
    <3> QED
        BY <3>1, <3>2
  <2> QED
      BY <1>1, <2>1
      DEF LifecycleInv, PatchInv, RequestOnly, VersionedPatchKeeps
<1> HIDE DEF now
<1>7. req' \in [Request -> [pc : {"rest", "read", "begun"}, cmd : Command,
                           snap : Snapshot]]
      BY <1>1, <1>3 DEF LifecycleInv, LifecycleTypeOK
<1> QED
    BY <1>1, <1>5, <1>6, <1>7, RequestKeepsAll

(***************************************************************************)
(* A request that is answered or refused leaves everything as it is.       *)
(***************************************************************************)
LEMMA RestKeeps ==
    ASSUME LifecycleInv, NEW r \in Request, RequestOnly,
           req' = [req EXCEPT ![r] = Resting]
    PROVE  LifecycleInv'
<1>1. \A q \in Request : req'[q] = IF q = r THEN Resting ELSE req[q]
      BY DEF LifecycleInv, LifecycleTypeOK
<1>2. \A q \in Request : req'[q].pc # "rest" => req'[q] = req[q]
      BY <1>1, RestingTyped
<1>3. KeyInv'
      BY <1>2, KeysUnmoved DEF LifecycleInv, RequestOnly
<1>5. PatchInv'
      BY <1>2 DEF LifecycleInv, PatchInv, RequestOnly, VersionedPatchKeeps
<1>6. req' \in [Request -> [pc : {"rest", "read", "begun"}, cmd : Command,
                           snap : Snapshot]]
      BY RestingTyped DEF LifecycleInv, LifecycleTypeOK
<1> QED
    BY <1>3, <1>5, <1>6, RequestKeepsAll

(***************************************************************************)
(* A request that goes on keeps what it has read.                          *)
(***************************************************************************)
LEMMA PatchesRestated ==
    ASSUME PatchInv, RequestOnly,
           \A q \in Request : req'[q].pc # "rest" /\ req'[q].cmd.op = "patch" =>
             /\ req[q].pc # "rest" /\ req'[q].cmd = req[q].cmd
             /\ req'[q].snap = req[q].snap
    PROVE  PatchInv'
<1>1. card' = card /\ lost' = lost
      BY DEF RequestOnly
<1>2. ASSUME NEW q \in Request, req'[q].pc # "rest", req'[q].cmd.op = "patch"
      PROVE  /\ req'[q].cmd.id \in Id /\ card'[req'[q].cmd.id].row # "none"
             /\ req'[q].snap.version <= card'[req'[q].cmd.id].version
             /\ \/ req'[q].snap.version # card'[req'[q].cmd.id].version
                \/ req'[q].snap.owner = card'[req'[q].cmd.id].owner
                \/ card'[req'[q].cmd.id].ownerBy = "projection"
      BY <1>1, <1>2 DEF PatchInv
<1>3. VersionedPatchKeeps'
      BY <1>1 DEF PatchInv, VersionedPatchKeeps
<1>4. \A q \in Request :
        req'[q].pc # "rest" /\ req'[q].cmd.op = "patch" =>
          /\ req'[q].cmd.id \in Id /\ card'[req'[q].cmd.id].row # "none"
          /\ req'[q].snap.version <= card'[req'[q].cmd.id].version
          /\ \/ req'[q].snap.version # card'[req'[q].cmd.id].version
             \/ req'[q].snap.owner = card'[req'[q].cmd.id].owner
             \/ card'[req'[q].cmd.id].ownerBy = "projection"
      BY <1>2
<1> QED
    BY <1>3, <1>4 DEF PatchInv

(***************************************************************************)
(* A request begins when no run of its key has left an event.              *)
(***************************************************************************)
LEMMA BeginKeeps ==
    ASSUME LifecycleInv, NEW r \in Request, NEW m \in Sent, Begin(r, m)
    PROVE  LifecycleInv'
<1>1. /\ m.key # NoKey /\ RequestOnly
      /\ \/ req[r].pc = "rest" /\ m.op # "patch"
         \/ req[r].pc = "read" /\ m = req[r].cmd
      /\ \A q \in Request :
           req[q].pc # "rest" /\ req[q].cmd.key = m.key => req[q].cmd = m
      /\ req' = [req EXCEPT ![r] = IF Answered(m.key) THEN Resting
                                   ELSE [@ EXCEPT !.pc = "begun", !.cmd = m]]
      BY DEF Begin, ReadsFirst, RequestOnly
<1>2. CASE Answered(m.key)
      BY <1>1, <1>2, RestKeeps
<1>3. CASE ~Answered(m.key)
  <2> DEFINE now == [req[r] EXCEPT !.pc = "begun", !.cmd = m]
  <2>1. req' = [req EXCEPT ![r] = now]
        BY <1>1, <1>3 DEF LifecycleInv, LifecycleTypeOK
  <2>2. /\ req[r] \in [pc : {"rest", "read", "begun"}, cmd : Command,
                        snap : Snapshot]
        /\ m \in Command
        BY SentIsCommand DEF LifecycleInv, LifecycleTypeOK
  <2>3. /\ now \in [pc : {"rest", "read", "begun"}, cmd : Command,
                     snap : Snapshot]
        /\ now.pc = "begun" /\ now.cmd = m /\ now.snap = req[r].snap
        BY <2>2
  <2> HIDE DEF now
  <2>4. \A q \in Request : req'[q] = IF q = r THEN now ELSE req[q]
        BY <2>1 DEF LifecycleInv, LifecycleTypeOK
  <2>5. \A q \in Begun' : q # r => q \in Begun /\ req'[q] = req[q]
        BY <2>4 DEF Begun
  <2>6. KeyInv'
    <3>1. events' = events /\ effects' = effects
          BY <1>1 DEF RequestOnly
    <3>2. \A k : Answered(k)' = Answered(k)
          BY <3>1 DEF Answered
    <3>3. \A q \in Begun : req[q].pc # "rest" /\ q \in Request
          BY DEF Begun
    <3>4. \A p, q \in Begun' :
            req'[p].cmd.key = req'[q].cmd.key => req'[p].cmd = req'[q].cmd
          BY <1>1, <2>3, <2>4, <2>5, <3>3 DEF LifecycleInv, KeyInv
    <3>5. \A q \in Begun' :
            /\ req'[q].cmd.key # NoKey
            /\ req'[q].cmd.key \in Key /\ effects[req'[q].cmd.key] > 0 =>
                 [key |-> req'[q].cmd.key, type |-> Principal(req'[q].cmd.op)]
                   \in events
          BY <1>1, <1>3, <2>3, <2>4, <2>5 DEF LifecycleInv, KeyInv
    <3>6. KeyActsOnce' /\ \A k \in Key : effects'[k] > 0 => Answered(k)'
          BY <3>1, <3>2 DEF LifecycleInv, KeyInv, KeyActsOnce
    <3> QED
        BY <3>1, <3>4, <3>5, <3>6 DEF KeyInv, Principal
  <2>7. PatchInv'
    <3>1. ASSUME NEW q \in Request, req'[q].pc # "rest",
                 req'[q].cmd.op = "patch"
          PROVE  /\ req[q].pc # "rest" /\ req'[q].cmd = req[q].cmd
                 /\ req'[q].snap = req[q].snap
          BY <1>1, <2>3, <2>4, <3>1
    <3> QED
        BY <1>1, <3>1, PatchesRestated DEF LifecycleInv
  <2>8. req' \in [Request -> [pc : {"rest", "read", "begun"}, cmd : Command,
                             snap : Snapshot]]
        BY <2>1, <2>3 DEF LifecycleInv, LifecycleTypeOK
  <2> QED
      BY <1>1, <2>6, <2>7, <2>8, RequestKeepsAll
<1> QED
    BY <1>2, <1>3

(***************************************************************************)
(* The inbox reads the conversation.                                       *)
(***************************************************************************)
LEMMA CopyConversationKeeps ==
    ASSUME LifecycleInv, CopyConversation
    PROVE  LifecycleInv'
<1>1. /\ copies' = copies \cup {pointer}
      /\ UNCHANGED <<card, pointer, events, req, commands, marks, lost,
                     effects>>
      BY DEF CopyConversation
<1>2. DealInv'
      BY <1>1, CardsUnmoved DEF LifecycleInv
<1>3. KeyInv'
      BY <1>1, KeysUnmoved DEF LifecycleInv
<1>4. PatchInv'
      BY <1>1 DEF LifecycleInv, PatchInv, VersionedPatchKeeps
<1>5. LifecycleTypeOK'
      BY <1>1 DEF LifecycleInv, LifecycleTypeOK
<1> QED
    BY <1>2, <1>3, <1>4, <1>5 DEF LifecycleInv

(***************************************************************************)
(* A save of the conversation that puts another pointer back is marked.    *)
(***************************************************************************)
LEMMA SaveConversationKeeps ==
    ASSUME LifecycleInv, NEW read \in copies, SaveConversation(read)
    PROVE  LifecycleInv'
<1>1. /\ copies' = copies \ {read} /\ pointer' \in {read, pointer}
      /\ marks' = marks \cup (IF pointer' # pointer THEN {"rewound"} ELSE {})
      /\ UNCHANGED <<card, events, req, commands, lost, effects>>
      BY DEF SaveConversation
<1>2. DealInv'
  <2>1. CASE pointer' = pointer
    <3>1. marks' = marks
          BY <1>1, <2>1
    <3> QED
        BY <1>1, <2>1, <3>1, CardsUnmoved DEF LifecycleInv
  <2>2. CASE pointer' # pointer
    <3>1. marks' # {}
          BY <1>1, <2>2
    <3>2. PointerIsNewest' /\ OpenIsPrimary' /\ OneLineOfCycles'
          BY <3>1 DEF PointerIsNewest, OpenIsPrimary, OneLineOfCycles
    <3>3. RowsInOrder' /\ StatusOfStage' /\ VersionsCounted'
          BY <1>1 DEF LifecycleInv, DealInv, RowsInOrder, StatusOfStage,
                      VersionsCounted
    <3> QED
        BY <3>2, <3>3 DEF DealInv
  <2> QED
      BY <2>1, <2>2
<1>3. KeyInv'
      BY <1>1, KeysUnmoved DEF LifecycleInv
<1>4. PatchInv'
      BY <1>1 DEF LifecycleInv, PatchInv, VersionedPatchKeeps
<1>5. LifecycleTypeOK'
      BY <1>1 DEF LifecycleInv, LifecycleTypeOK
<1> QED
    BY <1>2, <1>3, <1>4, <1>5 DEF LifecycleInv

-----------------------------------------------------------------------------

(***************************************************************************)
(* The invariant holds where there are no deals.                           *)
(***************************************************************************)
LEMMA LifecycleInitInv == LifecycleInit => LifecycleInv
<1> SUFFICES ASSUME LifecycleInit PROVE LifecycleInv
    OBVIOUS
<1>1. /\ card = [c \in Id |-> NoCard] /\ pointer = 0 /\ copies = {}
      /\ events = {}
      /\ req = [r \in Request |-> Resting] /\ commands = 0 /\ marks = {}
      /\ lost = {} /\ effects = [k \in Key |-> 0]
      BY DEF LifecycleInit
<1>2. NoCard \in Card
  <2>1. (CHOOSE p \in Pipelines : TRUE) \in Pipelines
        OBVIOUS
  <2> QED
      BY <2>1 DEF NoCard, Card
<1>3. LifecycleTypeOK
      BY <1>1, <1>2, RestingTyped DEF LifecycleTypeOK
<1>4. \A c \in Id : card[c] = NoCard
      BY <1>1
<1>5. /\ NoCard.row = "none" /\ NoCard.linked = FALSE /\ NoCard.version = 0
      /\ NoCard.status = "open" /\ NoCard.stage = "first"
      BY DEF NoCard
<1>6. DealInv
  <2>1. RowsInOrder
        BY <1>4, <1>5 DEF RowsInOrder
  <2>2. StatusOfStage /\ VersionsCounted
        BY <1>1, <1>4, <1>5 DEF StatusOfStage, Status, VersionsCounted
  <2>3. PointerIsNewest /\ OpenIsPrimary /\ OneLineOfCycles
        BY <1>4, <1>5
        DEF PointerIsNewest, OpenIsPrimary, OneLineOfCycles, Linked
  <2> QED
      BY <2>1, <2>2, <2>3 DEF DealInv
<1>7. \A q \in Request : req[q] = Resting
      BY <1>1
<1>8. KeyInv
      BY <1>1, <1>7, RestingTyped DEF KeyInv, KeyActsOnce, Begun
<1>9. PatchInv
      BY <1>1, <1>7, RestingTyped DEF PatchInv, VersionedPatchKeeps
<1> QED
    BY <1>3, <1>6, <1>8, <1>9 DEF LifecycleInv

(***************************************************************************)
(* Every step of a request, the agent, the projection or the inbox keeps   *)
(* it.                                                                     *)
(***************************************************************************)
LEMMA LifecycleStep ==
    LifecycleInv /\ [LifecycleNext]_lifecycleVars => LifecycleInv'
<1> SUFFICES ASSUME LifecycleInv, [LifecycleNext]_lifecycleVars
             PROVE  LifecycleInv'
    OBVIOUS
<1>1. ASSUME NEW r \in Request, NEW m \in Sent, Transaction(r, m)
      PROVE  LifecycleInv'
  <2>1. CASE MoveNowhere(r, m)
        BY <2>1, RestKeeps DEF MoveNowhere, RequestOnly
  <2> QED
      BY <1>1, <2>1, CreateKeeps, CopyKeeps, ReconvertKeeps, MoveStageKeeps,
         ReorderKeeps, ChangeStatusKeeps, TransferPipelineKeeps,
         SetAutonomyModeKeeps, DistributeOwnerKeeps, PatchCardKeeps,
         DeleteCardKeeps
      DEF Transaction
<1>2. ASSUME NEW r \in Request, Refuse(r)
      PROVE  LifecycleInv'
      BY <1>2, RestKeeps DEF Refuse, RequestOnly
<1>3. CASE UNCHANGED lifecycleVars
  <2>1. RequestOnly /\ req' = req
        BY <1>3 DEF lifecycleVars, RequestOnly
  <2>2. KeyInv'
        BY <2>1, KeysUnmoved DEF LifecycleInv, RequestOnly
  <2>3. PatchInv'
        BY <2>1 DEF LifecycleInv, PatchInv, RequestOnly, VersionedPatchKeeps
  <2>4. req' \in [Request -> [pc : {"rest", "read", "begun"}, cmd : Command,
                             snap : Snapshot]]
        BY <2>1 DEF LifecycleInv, LifecycleTypeOK
  <2> QED
      BY <2>1, <2>2, <2>3, <2>4, RequestKeepsAll
<1> QED
    BY <1>1, <1>2, <1>3, ReadKeeps, BeginKeeps, EnsureOpportunityKeeps,
       ProjectOwnershipKeeps, CopyConversationKeeps, SaveConversationKeeps
    DEF LifecycleNext

(***************************************************************************)
(* The inductive invariant holds throughout.                               *)
(***************************************************************************)
THEOREM LifecycleInvariance == LifecycleSpec => []LifecycleInv
BY LifecycleInitInv, LifecycleStep, PTL DEF LifecycleSpec

(***************************************************************************)
(* Every variable keeps its type, for any requests, keys, commands and     *)
(* bounds.                                                                 *)
(***************************************************************************)
THEOREM LifecycleTypeCorrect == LifecycleSpec => []LifecycleTypeOK
BY LifecycleInvariance, PTL DEF LifecycleInv

(***************************************************************************)
(* The conversation's pointer names its open deal, whatever requests race, *)
(* until a person reopens a closed deal or a save of the conversation puts *)
(* an older pointer back (crm-opportunity-command.service,                 *)
(* ensureOpportunity).                                                     *)
(***************************************************************************)
THEOREM PrimaryIsOpen == LifecycleSpec => []OpenIsPrimary
<1>1. LifecycleInv => OpenIsPrimary
      BY DEF LifecycleInv, DealInv
<1> QED
    BY <1>1, LifecycleInvariance, PTL

(***************************************************************************)
(* A deal of the conversation is continued by one other at most, until a   *)
(* person reopens a closed deal or a save puts an older pointer back.      *)
(***************************************************************************)
THEOREM CyclesInLine == LifecycleSpec => []OneLineOfCycles
<1>1. LifecycleInv => OneLineOfCycles
      BY DEF LifecycleInv, DealInv
<1> QED
    BY <1>1, LifecycleInvariance, PTL

(***************************************************************************)
(* An idempotency key changes a deal's stage, status, owner, mode or       *)
(* pipeline, patches it or makes one, once, although findReplay looks      *)
(* before any lock; a card's place it may write again.                     *)
(***************************************************************************)
THEOREM KeysActOnce == LifecycleSpec => []KeyActsOnce
<1>1. LifecycleInv => KeyActsOnce
      BY DEF LifecycleInv, KeyInv
<1> QED
    BY <1>1, LifecycleInvariance, PTL

(***************************************************************************)
(* A patch that carries a version never puts back a field another command  *)
(* has written since it read the card.                                     *)
(***************************************************************************)
THEOREM VersionedPatchesKeep == LifecycleSpec => []VersionedPatchKeeps
<1>1. LifecycleInv => VersionedPatchKeeps
      BY DEF LifecycleInv, PatchInv
<1> QED
    BY <1>1, LifecycleInvariance, PTL
===============================================================================
