---------------------------- MODULE InboundBatches ----------------------------
(***************************************************************************)
(* From the lead's message to the agent's decision, for one conversation.  *)
(* InboundMessageIngestionService.ingest stores a message and counts it    *)
(* into a batch that waits for the lead to fall silent;                    *)
(* InboxAgentRuntimeService claims the batch, reads the conversation, asks *)
(* the model and stores its decision; ConversationOwnershipService takes   *)
(* the conversation over and cancels what is under way.                    *)
(*                                                                         *)
(* Ingestions of one thread exclude each other (advisory lock), but none   *)
(* locks the rows it reads.  TypeORM's save reads the row again and        *)
(* updates the columns that differ from the entity in hand, so a column    *)
(* that somebody else changed in between is written back as it was.  So do *)
(* the sends of people and automations and the requests of the inbox's     *)
(* screens, which save the conversation they read (copies).                *)
(* What a transaction writes is seen by others when it commits; the rows   *)
(* it updated are locked until then.                                       *)
(***************************************************************************)
EXTENDS Naturals, FiniteSets

CONSTANTS
    Worker,       \* processes of the agent runtime, and its manual trigger
    Last,         \* messages 1..Last, in the order they were sent
    Window,       \* messages the model is shown, the latest (50 in the code)
    Playbook,     \* does a decision also save the conversation
    MaxAttempts,  \* claims of a batch (3 in the code)
    MaxPeople,    \* bound: transitions by people
    MaxFaults     \* bound: workers that die or throw, ingestions that fail,
                  \* claims that a slow worker outlives, requests that save
                  \* the conversation they read

ASSUME InboundAssumption ==
    /\ {Last, Window, MaxAttempts} \subseteq Nat \ {0}
    /\ Playbook \in BOOLEAN
    /\ {MaxPeople, MaxFaults} \subseteq Nat

Message == 1..Last
Gen == 1..Last  \* a message opens one generation at most

VARIABLES
    conv,      \* the conversation: ownership, its version, qualification
    copies,    \* the conversation as requests under way have read it
    inbox,     \* committed messages: the lead's and ours
    batch,     \* Gen -> row of inbox_processing_batches
    decision,  \* Gen -> the decision stored under the batch's key
    ing,       \* the ingestion under way
    work,      \* Worker -> processBatch under way
    hand,      \* transition() under way: the state it gives, or "rest"
    spent,     \* what is bounded
    home,      \* history: Message -> the generation it was counted into
    raced,     \* history: a batch was extended after it had been claimed
    undone     \* history: somebody wrote an older ownership back

vars == <<conv, copies, inbox, batch, decision, ing, work, hand, spent, home,
          raced,
          undone>>

\* "held" stands for human_active, handoff_requested and closed.
Conv == [own : {"ai_active", "paused", "held"}, version : Nat,
         qual : {"open", "qualified", "internal"}, optout : BOOLEAN]
NoConv == [own |-> "none", version |-> 0, qual |-> "open", optout |-> FALSE]

Row == [status : {"none", "pending", "processing", "completed", "failed",
                  "cancelled"},
        attempts : 0..MaxAttempts, due : BOOLEAN, lapsed : BOOLEAN]
NoRow == [status |-> "none", attempts |-> 0, due |-> FALSE, lapsed |-> FALSE]

NoDecision == [made |-> FALSE, context |-> {}]

Unread == [pc |-> "rest", msg |-> 1, read |-> NoConv, mine |-> NoConv,
           seen |-> NoConv, gen |-> 0, row |-> NoRow, found |-> NoRow]

Resting == [pc |-> "rest", gen |-> 1, version |-> 0, attempts |-> 0,
            context |-> {}, turn |-> 0]

Ingestion == [pc : {"rest", "read", "loaded", "saved", "found", "reloaded"},
              msg : Message, read : Conv \cup {NoConv},
              mine : Conv \cup {NoConv}, seen : Conv \cup {NoConv},
              gen : {0} \cup Gen, row : Row, found : Row]

Work == [pc : {"rest", "claimed", "context", "model", "proposed", "locking",
               "locked", "cancel"},
         gen : Gen, version : Nat, attempts : 0..MaxAttempts,
         context : SUBSET Message, turn : 0..MaxPeople]

Spent == [people : 0..MaxPeople, lapses : 0..MaxFaults, copies : 0..MaxFaults,
          faults : 0..MaxFaults]

TypeOK ==
    /\ conv \in Conv \cup {NoConv} /\ copies \subseteq Conv
    /\ inbox \subseteq Message
    /\ batch \in [Gen -> Row]
    /\ decision \in [Gen -> [made : BOOLEAN, context : SUBSET Message]]
    /\ ing \in Ingestion /\ work \in [Worker -> Work]
    /\ hand \in {"rest", "ai_active", "paused", "held"}
    /\ spent \in Spent
    /\ home \in [Message -> {0} \cup Gen]
    /\ raced \in BOOLEAN /\ undone \in BOOLEAN

Init ==
    /\ conv = NoConv /\ copies = {} /\ inbox = {}
    /\ batch = [g \in Gen |-> NoRow]
    /\ decision = [g \in Gen |-> NoDecision]
    /\ ing = Unread /\ work = [w \in Worker |-> Resting] /\ hand = "rest"
    /\ spent = [people |-> 0, lapses |-> 0, copies |-> 0, faults |-> 0]
    /\ home = [m \in Message |-> 0]
    /\ raced = FALSE /\ undone = FALSE

Faults == spent.lapses + spent.copies + spent.faults

-----------------------------------------------------------------------------
(* Row locks.                                                              *)

\* The conversation's row has been updated, or selected for update.
ConvHeld == \/ hand # "rest"
            \/ ing.pc \in {"saved", "found", "reloaded"} /\ conv # NoConv

\* It has been selected FOR SHARE by the transaction of a decision.
Sharers == {w \in Worker : work[w].pc = "locked"}

\* The batch has been selected FOR UPDATE by the transaction of a decision.
BatchFree(g) ==
    \A w \in Worker : work[w].gen = g => work[w].pc \notin {"locking", "locked"}

\* save: a column that differs from the row as reloaded is written.
Saved(mine, reloaded, row) == IF mine # reloaded THEN mine ELSE row

SavedConv(mine, reloaded, row) ==
    [own     |-> Saved(mine.own, reloaded.own, row.own),
     version |-> Saved(mine.version, reloaded.version, row.version),
     qual    |-> Saved(mine.qual, reloaded.qual, row.qual),
     optout  |-> Saved(mine.optout, reloaded.optout, row.optout)]

-----------------------------------------------------------------------------
(* Ingestion.                                                              *)

\* A turn of the agent, or its end, is a new version of the ownership.
Turned(c, own) == [own |-> own, version |-> c.version + 1, qual |-> c.qual,
                   optout |-> c.optout]
Paused(c) == IF c.own = "ai_active" THEN Turned(c, "paused") ELSE c

\* Who writes and the qualification rules are free.  The activation policy
\* excludes a paused conversation, so a message never wakes the agent.
Qualified(c) ==
    {c, [c EXCEPT !.qual = "qualified"],
     [Paused(c) EXCEPT !.qual = "internal"]}

\* The conversation as a message leaves it, which may be an opt-out.
AfterMessage(c) ==
    LET q == Qualified(c)
    IN  q \cup {[Paused(d) EXCEPT !.optout = TRUE] : d \in q}

\* A conversation that the message creates.
Created ==
    {[own |-> "ai_active", version |-> 1, qual |-> "qualified",
      optout |-> FALSE]}
    \cup [own : {"paused"}, version : {1},
          qual : {"open", "qualified", "internal"}, optout : BOOLEAN]

\* A stored message is a duplicate, and answered without a change.
ReadConversation(m) ==
    /\ ing.pc = "rest" /\ m \notin inbox
    /\ \E c \in IF conv = NoConv THEN Created ELSE AfterMessage(conv) :
         ing' = [Unread EXCEPT !.pc = "read", !.msg = m, !.read = conv,
                               !.mine = c]
    /\ UNCHANGED <<conv, copies, inbox, batch, decision, work, hand, spent,
                   home, raced, undone>>

\* The first half of conversation.save.
ReloadConversation ==
    /\ ing.pc = "read"
    /\ ing' = [ing EXCEPT !.pc = "loaded", !.seen = conv]
    /\ UNCHANGED <<conv, copies, inbox, batch, decision, work, hand, spent,
                   home, raced, undone>>

\* The second half: seen becomes what the row will be.
SaveConversation ==
    /\ ing.pc = "loaded"
    /\ ~ConvHeld /\ Sharers = {}
    /\ ing' = [ing EXCEPT !.pc = "saved",
                          !.seen = SavedConv(ing.mine, ing.seen, conv)]
    /\ UNCHANGED <<conv, copies, inbox, batch, decision, work, hand, spent,
                   home, raced, undone>>

\* What somebody did to the ownership since it was read is overwritten.
WritesBack ==
    \/ conv.own # ing.read.own /\ conv.own # ing.seen.own
    \/ conv.version # ing.read.version /\ conv.version # ing.seen.version

\* The transaction commits.
CommitIngestion(g) ==
    /\ conv' = ing.seen
    /\ undone' = (undone \/ WritesBack)
    /\ inbox' = inbox \cup {ing.msg}
    /\ home' = [home EXCEPT ![ing.msg] = g]
    /\ ing' = Unread
    /\ UNCHANGED <<copies, decision, work, hand, spent>>

\* The entity in hand decides, not the row.
AgentListens == ing.mine.own = "ai_active" /\ ing.mine.qual = "qualified"

StoreOnly ==
    /\ ing.pc = "saved" /\ ~AgentListens
    /\ CommitIngestion(0)
    /\ UNCHANGED <<batch, raced>>

Pending == {g \in Gen : batch[g].status = "pending"}

\* Mutant of Extendable: also a batch that is being processed.
ExtendableOpen == {g \in Gen : batch[g].status \in {"pending", "processing"}}

\* extendDebounce looks for the latest pending batch ...
Extendable == Pending

\* ... opens the generation after the latest if there is none ...
NextGeneration(g) == \A h \in Gen : batch[h].status # "none" <=> h < g

OpenBatch ==
    /\ ing.pc = "saved" /\ AgentListens
    /\ Extendable = {}
    /\ \E g \in Gen :
         /\ NextGeneration(g)
         /\ batch' = [batch EXCEPT ![g] = [NoRow EXCEPT !.status = "pending"]]
         /\ CommitIngestion(g)
    /\ UNCHANGED raced

FindBatch ==
    /\ ing.pc = "saved" /\ AgentListens
    /\ \E g \in Extendable :
         /\ \A h \in Extendable : h <= g
         /\ ing' = [ing EXCEPT !.pc = "found", !.gen = g, !.row = batch[g]]
    /\ UNCHANGED <<conv, copies, inbox, batch, decision, work, hand, spent,
                   home, raced, undone>>

ReloadBatch ==
    /\ ing.pc = "found"
    /\ ing' = [ing EXCEPT !.pc = "reloaded", !.found = batch[ing.gen]]
    /\ UNCHANGED <<conv, copies, inbox, batch, decision, work, hand, spent,
                   home, raced, undone>>

\* ... and else saves it with a later due time.
ExtendBatch ==
    LET g == ing.gen IN
    /\ ing.pc = "reloaded" /\ BatchFree(g)
    /\ batch' = [batch EXCEPT ![g] =
         [status   |-> Saved(ing.row.status, ing.found.status, @.status),
          attempts |-> Saved(ing.row.attempts, ing.found.attempts, @.attempts),
          due      |-> FALSE,
          lapsed   |-> IF ing.found.status = "processing" THEN FALSE
                       ELSE @.lapsed]]
    /\ raced' = (raced \/ batch[g].status # ing.row.status)
    /\ CommitIngestion(g)

\* The transaction is rolled back; the provider delivers again.
IngestionFails ==
    /\ ing.pc # "rest" /\ Faults < MaxFaults
    /\ spent' = [spent EXCEPT !.faults = @ + 1]
    /\ ing' = Unread
    /\ UNCHANGED <<conv, copies, inbox, batch, decision, work, hand, home,
                   raced, undone>>

-----------------------------------------------------------------------------
(* Other writers of the conversation and its messages.                     *)

\* persistPendingMessage, ingestEcho: a message of ours is stored.
StoreOurs(m) ==
    /\ conv # NoConv /\ m \notin inbox
    /\ ing.pc = "rest" \/ ing.msg # m
    /\ inbox' = inbox \cup {m}
    /\ UNCHANGED <<conv, copies, batch, decision, ing, work, hand, spent, home,
                   raced, undone>>

\* sendTextForActor, ingestEcho, patch, mark read or unread, archive, flag: the
\* conversation is read without a lock ...
CopyConversation ==
    /\ conv # NoConv /\ Faults < MaxFaults
    /\ spent' = [spent EXCEPT !.copies = @ + 1]
    /\ copies' = copies \cup {conv}
    /\ UNCHANGED <<conv, inbox, batch, decision, ing, work, hand, home, raced,
                   undone>>

\* ... and saved later: each column as it was read, or as it is if the save did
\* not find it different.
SaveCopy(read) ==
    /\ read \in copies /\ copies' = copies \ {read}
    /\ ~ConvHeld /\ Sharers = {}
    /\ conv' \in [own : {read.own, conv.own},
                  version : {read.version, conv.version},
                  qual : {read.qual, conv.qual},
                  optout : {read.optout, conv.optout}]
    /\ undone' = (undone \/ conv'.own # conv.own
                         \/ conv'.version # conv.version)
    /\ UNCHANGED <<inbox, batch, decision, ing, work, hand, spent, home,
                   raced>>

-----------------------------------------------------------------------------
(* The runtime claims a batch and processes it.                            *)

\* The lead has been silent, or the backoff has passed.
FallsDue(g) ==
    /\ batch[g].status = "pending" /\ ~batch[g].due
    /\ batch' = [batch EXCEPT ![g].due = TRUE]
    /\ UNCHANGED <<conv, copies, inbox, decision, ing, work, hand, spent, home,
                   raced, undone>>

Busy(g) == {w \in Worker : work[w].pc # "rest" /\ work[w].gen = g}

\* Two minutes pass: nobody processes the batch any more, or somebody slow.
ClaimLapses(g) ==
    /\ batch[g].status = "processing" /\ ~batch[g].lapsed
    /\ IF Busy(g) = {} THEN UNCHANGED spent
       ELSE /\ Faults < MaxFaults
            /\ spent' = [spent EXCEPT !.lapses = @ + 1]
    /\ batch' = [batch EXCEPT ![g].lapsed = TRUE]
    /\ UNCHANGED <<conv, copies, inbox, decision, ing, work, hand, home, raced,
                   undone>>

DuePending(g) == batch[g].status = "pending" /\ batch[g].due

\* Mutants of Claimable: a batch being processed is not claimed again; claims
\* are not counted.
ClaimablePending(g) == DuePending(g) /\ batch[g].attempts < MaxAttempts

ClaimableForEver(g) ==
    DuePending(g) \/ (batch[g].status = "processing" /\ batch[g].lapsed)

Claimable(g) ==
    /\ batch[g].attempts < MaxAttempts
    /\ \/ DuePending(g)
       \/ batch[g].status = "processing" /\ batch[g].lapsed

Take(w, g) ==
    /\ work[w].pc = "rest" /\ BatchFree(g)
    /\ batch' = [batch EXCEPT ![g] = [status |-> "processing",
                   attempts |-> @.attempts + 1, due |-> FALSE,
                   lapsed |-> FALSE]]
    /\ work' = [work EXCEPT ![w] = [Resting EXCEPT !.pc = "claimed",
                                                   !.gen = g]]
    /\ UNCHANGED <<conv, copies, inbox, decision, ing, hand, spent, home,
                   raced, undone>>

Claim(w) == \E g \in Gen : Claimable(g) /\ Take(w, g)

\* triggerManual: only what is due, and only while the agent is in charge.
Trigger(w) ==
    \E g \in Gen : /\ DuePending(g) /\ batch[g].attempts < MaxAttempts
                   /\ conv.own = "ai_active"
                   /\ Take(w, g)

Rest(w) == work' = [work EXCEPT ![w] = Resting]

\* processBatch reads the batch and the conversation.
ReadOwner(w) ==
    /\ work[w].pc = "claimed"
    /\ work' = [work EXCEPT
         ![w].pc = IF conv.own = "ai_active" THEN "context" ELSE "cancel",
         ![w].version = conv.version,
         ![w].attempts = batch[work[w].gen].attempts,
         ![w].turn = spent.people]
    /\ UNCHANGED <<conv, copies, inbox, batch, decision, ing, hand, spent,
                   home, raced, undone>>

\* Mutant of Latest: the first messages are shown.
Earliest(context) ==
    /\ \A m \in inbox \ context, n \in context : n < m
    /\ \/ context = inbox /\ Cardinality(inbox) <= Window
       \/ Cardinality(context) = Window

\* The latest messages by the time they were sent, as many as are shown.
Latest(context) ==
    /\ \A m \in inbox \ context, n \in context : m < n
    /\ \/ context = inbox /\ Cardinality(inbox) <= Window
       \/ Cardinality(context) = Window

\* A decision stored before is returned; two open deals or no published agent
\* end the batch; else the messages are read and the model is asked.
ReadContext(w) ==
    /\ work[w].pc = "context"
    /\ \/ decision[work[w].gen].made /\ Rest(w)
       \/ /\ ~decision[work[w].gen].made
          /\ \/ work' = [work EXCEPT ![w].pc = "cancel"]
             \/ \E context \in SUBSET inbox :
                  /\ Latest(context)
                  /\ work' = [work EXCEPT ![w].pc = "model",
                                          ![w].context = context]
    /\ UNCHANGED <<conv, copies, inbox, batch, decision, ing, hand, spent,
                   home, raced, undone>>

\* An update by id, whatever the batch has become.
CancelBatch(w) ==
    LET g == work[w].gen IN
    /\ work[w].pc = "cancel" /\ BatchFree(g)
    /\ batch' = [batch EXCEPT ![g].status = "cancelled"]
    /\ Rest(w)
    /\ UNCHANGED <<conv, copies, inbox, decision, ing, hand, spent, home,
                   raced, undone>>

\* recordBatchFailure, by id as well: back to pending after a backoff, or
\* failed when the error is final or the attempts are used up.
RecordFailure(w) ==
    LET g == work[w].gen IN
    /\ work[w].pc = "model" /\ BatchFree(g)
    /\ \/ /\ work[w].attempts < MaxAttempts
          /\ batch' = [batch EXCEPT ![g].status = "pending", ![g].due = FALSE,
                                    ![g].lapsed = FALSE]
       \/ batch' = [batch EXCEPT ![g].status = "failed"]
    /\ Rest(w)
    /\ UNCHANGED <<conv, copies, inbox, decision, ing, hand, spent, home,
                   raced, undone>>

Propose(w) ==
    /\ work[w].pc = "model"
    /\ work' = [work EXCEPT ![w].pc = "proposed"]
    /\ UNCHANGED <<conv, copies, inbox, batch, decision, ing, hand, spent,
                   home, raced, undone>>

LockBatch(w) ==
    /\ work[w].pc = "proposed" /\ BatchFree(work[w].gen)
    /\ work' = [work EXCEPT ![w].pc = "locking"]
    /\ UNCHANGED <<conv, copies, inbox, batch, decision, ing, hand, spent,
                   home, raced, undone>>

\* Mutant of StillInCharge: the ownership's version is not compared.
StillInChargeNow(w) == conv.own = "ai_active"

StillInCharge(w) == conv.own = "ai_active" /\ conv.version = work[w].version

\* The conversation is read FOR SHARE; another owner ends the batch.
LockConversation(w) ==
    /\ work[w].pc = "locking" /\ ~ConvHeld
    /\ IF StillInCharge(w)
         THEN /\ work' = [work EXCEPT ![w].pc = "locked"]
              /\ UNCHANGED batch
         ELSE /\ batch' = [batch EXCEPT ![work[w].gen].status = "cancelled"]
              /\ Rest(w)
    /\ UNCHANGED <<conv, copies, inbox, decision, ing, hand, spent, home,
                   raced, undone>>

\* The decision is stored, unless its key is taken: then all is rolled back.
\* That a message has come in meanwhile changes what its actions may do, not
\* that it is stored.
Decide(w) ==
    LET g == work[w].gen IN
    /\ work[w].pc = "locked"
    /\ Playbook => Sharers = {w}
    /\ IF decision[g].made THEN UNCHANGED <<batch, decision>>
       ELSE /\ decision' = [decision EXCEPT ![g] =
                 [made |-> TRUE, context |-> work[w].context]]
            /\ batch' = [batch EXCEPT ![g].status = "completed"]
    /\ Rest(w)
    /\ UNCHANGED <<conv, copies, inbox, ing, hand, spent, home, raced, undone>>

\* A worker dies, or anything but the model throws: the batch is left.
Drop(w) ==
    /\ work[w].pc # "rest" /\ Faults < MaxFaults
    /\ spent' = [spent EXCEPT !.faults = @ + 1]
    /\ Rest(w)
    /\ UNCHANGED <<conv, copies, inbox, batch, decision, ing, hand, home,
                   raced, undone>>

-----------------------------------------------------------------------------
(* transition(): people take the conversation, or give it back.            *)

\* return_ai refuses internal contacts and contacts who opted out.
MayBecome(own) ==
    own = "ai_active" => conv.qual # "internal" /\ ~conv.optout

LockForTransition(own) ==
    /\ hand = "rest" /\ spent.people < MaxPeople
    /\ conv # NoConv /\ ~ConvHeld /\ Sharers = {}
    /\ MayBecome(own)
    /\ hand' = own
    /\ UNCHANGED <<conv, copies, inbox, batch, decision, ing, work, spent,
                   home, raced, undone>>

Open(g) == batch[g].status \in {"pending", "processing"}

\* invalidateAutomation cancels the open batches, unless the agent is back.
CommitTransition ==
    /\ hand # "rest"
    /\ IF hand = "ai_active" THEN UNCHANGED batch
       ELSE /\ \A g \in Gen : Open(g) => BatchFree(g)
            /\ batch' = [g \in Gen |-> IF Open(g)
                           THEN [batch[g] EXCEPT !.status = "cancelled"]
                           ELSE batch[g]]
    /\ conv' = [own |-> hand, version |-> conv.version + 1,
                qual |-> IF hand = "ai_active" THEN "qualified" ELSE conv.qual,
                optout |-> conv.optout]
    /\ hand' = "rest"
    /\ spent' = [spent EXCEPT !.people = @ + 1]
    /\ UNCHANGED <<copies, inbox, decision, ing, work, home, raced, undone>>

-----------------------------------------------------------------------------
(* Transactions that wait for each other; PostgreSQL ends either.          *)

\* Both share the conversation and want to save it.
WaitsForSharer(w) == Playbook /\ w \in Sharers /\ Sharers # {w}

\* A decision holds its batch and waits for the conversation; an ingestion or
\* a transition holds the conversation and waits for that batch.
WaitsForIngestion(w) ==
    /\ work[w].pc = "locking"
    /\ ing.pc = "reloaded" /\ ing.gen = work[w].gen
WaitsForTransition(w) ==
    /\ work[w].pc = "locking" /\ Open(work[w].gen)
    /\ hand \in {"paused", "held"}

\* processBatch throws: the batch is left processing.
DecisionAborted(w) ==
    /\ WaitsForSharer(w) \/ WaitsForIngestion(w) \/ WaitsForTransition(w)
    /\ Rest(w)
    /\ UNCHANGED <<conv, copies, inbox, batch, decision, ing, hand, spent,
                   home, raced, undone>>

IngestionAborted ==
    /\ \E w \in Worker : WaitsForIngestion(w)
    /\ ing' = Unread
    /\ UNCHANGED <<conv, copies, inbox, batch, decision, work, hand, spent,
                   home, raced, undone>>

TransitionAborted ==
    /\ \E w \in Worker : WaitsForTransition(w)
    /\ hand' = "rest"
    /\ UNCHANGED <<conv, copies, inbox, batch, decision, ing, work, spent,
                   home, raced, undone>>

-----------------------------------------------------------------------------

IngestionStep ==
    \/ ReloadConversation \/ SaveConversation \/ StoreOnly \/ OpenBatch
    \/ FindBatch \/ ReloadBatch \/ ExtendBatch \/ IngestionAborted

WorkStep(w) ==
    \/ ReadOwner(w) \/ ReadContext(w) \/ CancelBatch(w) \/ RecordFailure(w)
    \/ Propose(w) \/ LockBatch(w) \/ LockConversation(w) \/ Decide(w)
    \/ DecisionAborted(w)

TransitionStep == CommitTransition \/ TransitionAborted

Next ==
    \/ \E m \in Message : ReadConversation(m) \/ StoreOurs(m)
    \/ CopyConversation \/ \E read \in copies : SaveCopy(read)
    \/ IngestionStep \/ IngestionFails
    \/ \E g \in Gen : FallsDue(g) \/ ClaimLapses(g)
    \/ \E w \in Worker : Claim(w) \/ Trigger(w) \/ WorkStep(w) \/ Drop(w)
    \/ \E own \in {"ai_active", "paused", "held"} : LockForTransition(own)
    \/ TransitionStep

Spec == Init /\ [][Next]_vars

\* Transactions and handlers go on, the interval of some process comes round,
\* and time passes for what nobody touches.
FairSpec ==
    /\ Spec
    /\ WF_vars(IngestionStep) /\ WF_vars(TransitionStep)
    /\ \A w \in Worker : WF_vars(WorkStep(w))
    /\ WF_vars(\E w \in Worker : Claim(w))
    /\ WF_vars(\E g \in Gen : FallsDue(g) \/ (ClaimLapses(g) /\ Busy(g) = {}))

-----------------------------------------------------------------------------
\* The model was shown m, or as many later messages as it is shown.
Considered(m, context) ==
    \/ m \in context
    \/ Cardinality(context) = Window /\ \A n \in context : m < n

(***************************************************************************)
(* A completed batch has been dealt with: every message that was counted   *)
(* into it was in the context of its decision, or had gone out of the      *)
(* window of the latest messages (extendDebounce only extends what is      *)
(* still pending, and processBatch reads the messages after its claim).    *)
(***************************************************************************)
CompletedIsConsidered ==
    \A m \in Message : home[m] # 0 /\ batch[home[m]].status = "completed"
                         => Considered(m, decision[home[m]].context)

(***************************************************************************)
(* The same, unless extendDebounce raced with the claim, or a claim lapsed *)
(* under a live worker, which completes over what came after it.           *)
(***************************************************************************)
CompletedIsConsideredUnraced ==
    ~raced /\ spent.lapses = 0 => CompletedIsConsidered

(***************************************************************************)
(* A decision is stored only if nobody has taken the conversation, or      *)
(* given it back, since processBatch read its owner, whichever of the two  *)
(* transactions gets its locks first; unless somebody who had read the     *)
(* conversation before saved it, and wrote the older ownership back.       *)
(***************************************************************************)
DecidedInCharge ==
    [][\A w \in Sharers :
         ~undone /\ decision'[work[w].gen] # decision[work[w].gen]
           => work[w].turn = spent.people]_vars

\* The last claim that a batch has is lost, with its worker or a deadlock.
LastClaimLost(g) ==
    /\ batch[g].status = "processing" /\ batch[g].attempts = MaxAttempts
    /\ Busy(g) = {}

\* What ends a batch otherwise than by a decision.
Excused(m) ==
    \/ home[m] = 0 \/ raced \/ spent.lapses > 0
    \/ batch[home[m]].status \in {"failed", "cancelled"}
    \/ LastClaimLost(home[m])

(***************************************************************************)
(* A message stored while the agent listens is considered by the decision  *)
(* of its batch in the end, though messages come late, transactions        *)
(* deadlock and workers are lost, unless that batch fails, is cancelled or *)
(* loses its last claim, or the races above swallow it.                    *)
(***************************************************************************)
LeadIsHeard ==
    \A m \in Message :
      m \in inbox ~>
        \/ Excused(m)
        \/ decision[home[m]].made /\ Considered(m, decision[home[m]].context)
=============================================================================
