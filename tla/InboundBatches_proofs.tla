------------------------ MODULE InboundBatches_proofs ------------------------
(***************************************************************************)
(* Inbound batches for any number of messages, workers, lapses and deaths. *)
(* No decision completes over a message it has not read, unless the two    *)
(* races named in the invariant happen, and none is stored once people     *)
(* have changed the ownership.                                             *)
(***************************************************************************)
EXTENDS InboundBatches, TLAPS

USE InboundAssumption

Written == {"saved", "found", "reloaded"}

\* Whoever writes the conversation does so alone; a decision keeps writers out;
\* what has been read has been created.
LockInv ==
    /\ copies # {} => conv \in Conv
    /\ hand # "rest" => /\ conv \in Conv /\ spent.people < MaxPeople
                        /\ ing.pc \notin Written
    /\ Sharers # {} => /\ conv \in Conv /\ hand = "rest"
                       /\ ing.pc \notin Written

\* What an ingestion is going to write.
WriteInv ==
    /\ ing.pc # "rest" => /\ ing.mine \in Conv
                          /\ ing.read.version <= ing.mine.version
    /\ ing.pc = "loaded" /\ conv = NoConv => ing.seen = NoConv
    /\ ing.pc \in Written =>
         /\ ing.seen \in Conv
         /\ ing.seen.version \in {ing.mine.version, conv.version}
    /\ ing.pc \in {"found", "reloaded"} =>
         ing.gen \in Gen /\ ing.row.status = "pending"

InCharge == {"context", "model", "proposed", "locking", "locked"}

\* A turn of the ownership is a version the worker has not seen.
ChargeInv ==
    /\ \A w \in Worker : work[w].pc = "locked" =>
         work[w].version = conv.version
    /\ ~undone => \A w \in Worker : work[w].pc \in InCharge =>
         /\ work[w].version <= conv.version
         /\ work[w].turn # spent.people => work[w].version < conv.version

Unraced == ~raced /\ spent.lapses = 0

\* A batch is processed by one worker, and is not pending meanwhile.
AloneInv ==
    Unraced => \A w \in Worker : work[w].pc # "rest" =>
        /\ batch[work[w].gen].status \in {"processing", "cancelled"}
        /\ batch[work[w].gen].status = "processing" =>
             ~batch[work[w].gen].lapsed
        /\ \A v \in Worker : work[v].pc # "rest" /\ work[v].gen = work[w].gen
                              => v = w

HasContext == {"model", "proposed", "locking", "locked"}

\* Whoever has read the messages has considered all that its batch stands for.
ContextInv ==
    /\ \A m \in Message : home[m] # 0 => m \in inbox
    /\ Unraced => \A w \in Worker, m \in Message :
         work[w].pc \in HasContext /\ home[m] = work[w].gen
           => Considered(m, work[w].context)

IInv == /\ TypeOK
        /\ LockInv /\ WriteInv /\ ChargeInv /\ AloneInv /\ ContextInv
        /\ CompletedIsConsideredUnraced

(***************************************************************************)
(* The inductive invariant holds at the start.                             *)
(***************************************************************************)
LEMMA InboundInitially == Init => IInv
<1> SUFFICES ASSUME Init
             PROVE  IInv
    OBVIOUS
<1>1. Unread.row \in Row /\ Unread.found \in Row /\ NoRow \in Row
      BY DEF Unread, NoRow, Row
<1>2. TypeOK
  <2>1. ing \in Ingestion
        BY <1>1 DEF Init, Unread, Message, Ingestion
  <2>2. /\ batch \in [Gen -> Row]
        /\ decision \in [Gen -> [made : BOOLEAN, context : SUBSET Message]]
        BY <1>1 DEF Init, NoDecision
  <2>3. 1 \in Gen
        BY DEF Gen
  <2>4. work \in [Worker -> Work]
        BY <2>3 DEF Init, Resting, Work
  <2>5. spent \in Spent
        BY DEF Init, Spent
  <2> QED
      BY <2>1, <2>2, <2>4, <2>5 DEF Init, TypeOK
<1>3. LockInv /\ WriteInv /\ ChargeInv
      BY DEF Init, LockInv, WriteInv, ChargeInv, Sharers, Unread, Resting,
             Written, InCharge
<1>4. AloneInv /\ ContextInv
      BY DEF Init, AloneInv, ContextInv, Resting, HasContext
<1>5. CompletedIsConsideredUnraced
      BY DEF Init, CompletedIsConsideredUnraced, CompletedIsConsidered
<1> QED
    BY <1>2, <1>3, <1>4, <1>5 DEF IInv

(***************************************************************************)
(* What a save writes is a conversation or a batch's row.                  *)
(***************************************************************************)
LEMMA SavedIsConv ==
    ASSUME NEW mine \in Conv, NEW reloaded \in Conv \cup {NoConv},
           NEW row \in Conv \cup {NoConv}, row = NoConv => reloaded = NoConv
    PROVE  /\ SavedConv(mine, reloaded, row) \in Conv
           /\ SavedConv(mine, reloaded, row).version
                \in {mine.version, row.version}
BY DEF SavedConv, Saved, Conv, NoConv

LEMMA TurnedIsConv ==
    ASSUME NEW c \in Conv
    PROVE  \A d \in AfterMessage(c) : d \in Conv /\ c.version <= d.version
<1>1. \A d \in Conv : Paused(d) \in Conv /\ d.version <= Paused(d).version
      BY DEF Paused, Turned, Conv
<1>2. \A d \in Qualified(c) : d \in Conv /\ c.version <= d.version
  <2>1. [c EXCEPT !.qual = "qualified"] \in Conv
        BY DEF Conv
  <2>2. /\ [Paused(c) EXCEPT !.qual = "internal"] \in Conv
        /\ [Paused(c) EXCEPT !.qual = "internal"].version = Paused(c).version
        BY <1>1 DEF Conv
  <2> QED
      BY <1>1, <2>1, <2>2 DEF Qualified, Conv
<1>3. \A d \in Conv : /\ [Paused(d) EXCEPT !.optout = TRUE] \in Conv
                      /\ d.version <= [Paused(d) EXCEPT !.optout = TRUE].version
      BY <1>1 DEF Conv
<1> QED
  <2> SUFFICES ASSUME NEW d \in AfterMessage(c)
               PROVE  d \in Conv /\ c.version <= d.version
      OBVIOUS
  <2>1. CASE d \in Qualified(c)
        BY <1>2, <2>1
  <2>2. CASE \E q \in Qualified(c) : d = [Paused(q) EXCEPT !.optout = TRUE]
    <3>1. PICK q \in Qualified(c) : d = [Paused(q) EXCEPT !.optout = TRUE]
          BY <2>2
    <3>2. q \in Conv /\ c.version <= q.version
          BY <1>2, <3>1
    <3>3. d \in Conv /\ q.version <= d.version
          BY <1>3, <3>1, <3>2
    <3> QED
        BY <3>2, <3>3 DEF Conv
  <2> QED
      BY <2>1, <2>2 DEF AfterMessage

(***************************************************************************)
(* A worker goes on, or rests, and changes nothing else.                   *)
(***************************************************************************)
LEMMA GotoKeeps ==
    ASSUME IInv, NEW w \in Worker, NEW job \in Work,
           work[w].pc # "rest", job.pc = "rest" \/ job.gen = work[w].gen,
           work' = [work EXCEPT ![w] = job],
           job.pc = "locked" => /\ conv \in Conv /\ hand = "rest"
                                /\ ing.pc \notin Written
                                /\ job.version = conv.version,
           ~undone /\ job.pc \in InCharge =>
             /\ job.version <= conv.version
             /\ job.turn # spent.people => job.version < conv.version,
           Unraced /\ job.pc \in HasContext =>
             \A m \in Message : home[m] = job.gen
                                => Considered(m, job.context),
           UNCHANGED <<conv, copies, inbox, batch, decision, ing, hand, home,
                       raced, undone>>,
           spent' \in Spent, spent'.people = spent.people,
           spent'.lapses = spent.lapses
    PROVE  IInv'
<1> USE DEF IInv
<1>1. /\ work'[w] = job
      /\ \A v \in Worker : v # w => work'[v] = work[v]
      /\ work' \in [Worker -> Work]
      BY DEF TypeOK
<1>2. TypeOK'
      BY <1>1 DEF TypeOK
<1>3. LockInv'
      BY <1>1 DEF LockInv, Sharers
<1>4. WriteInv'
      BY DEF WriteInv
<1>5. ChargeInv'
      BY <1>1 DEF ChargeInv
<1>6. AloneInv'
      BY <1>1 DEF AloneInv, Unraced
<1>7. ContextInv'
      BY <1>1 DEF ContextInv, Unraced
<1>8. CompletedIsConsideredUnraced'
      BY DEF CompletedIsConsideredUnraced, CompletedIsConsidered
<1> QED
    BY <1>2, <1>3, <1>4, <1>5, <1>6, <1>7, <1>8

LEMMA RestKeeps ==
    ASSUME IInv, NEW w \in Worker, work[w].pc # "rest", Rest(w),
           UNCHANGED <<conv, copies, inbox, batch, decision, ing, hand, home,
                       raced, undone>>,
           spent' \in Spent, spent'.people = spent.people,
           spent'.lapses = spent.lapses
    PROVE  IInv'
<1>1. Resting \in Work /\ Resting.pc = "rest"
      BY DEF Resting, Work, Gen, Message
<1>2. Resting.pc \notin InCharge \cup HasContext
      BY <1>1 DEF InCharge, HasContext
<1>3. work' = [work EXCEPT ![w] = Resting]
      BY DEF Rest
<1> HIDE DEF Resting
<1> QED
    BY <1>1, <1>2, <1>3, GotoKeeps

(***************************************************************************)
(* A worker rests and leaves its batch in any state but completed.         *)
(***************************************************************************)
LEMMA EndKeeps ==
    ASSUME IInv, NEW w \in Worker, work[w].pc # "rest", Rest(w),
           NEW row \in Row, row.status # "completed",
           batch' = [batch EXCEPT ![work[w].gen] = row],
           UNCHANGED <<conv, copies, inbox, decision, ing, hand, spent, home,
                       raced, undone>>
    PROVE  IInv'
<1> USE DEF IInv
<1> DEFINE g == work[w].gen
<1>1. Resting \in Work /\ Resting.pc = "rest"
      BY DEF Resting, Work, Gen, Message
<1>2. g \in Gen
      BY DEF TypeOK, Work
<1>3. /\ work'[w].pc = "rest"
      /\ \A v \in Worker : v # w => work'[v] = work[v]
      /\ work' \in [Worker -> Work]
      BY <1>1 DEF Rest, TypeOK
<1>4. /\ batch' \in [Gen -> Row] /\ batch'[g] = row
      /\ \A h \in Gen : h # g => batch'[h] = batch[h]
      BY <1>2 DEF TypeOK
<1>5. TypeOK'
      BY <1>3, <1>4 DEF TypeOK
<1>6. LockInv'
      BY <1>3 DEF LockInv, Sharers
<1>7. WriteInv' /\ ChargeInv'
      BY <1>3 DEF WriteInv, ChargeInv, InCharge
<1>8. AloneInv'
  <2> SUFFICES ASSUME Unraced, NEW v \in Worker, v # w, work[v].pc # "rest"
               PROVE  /\ batch'[work[v].gen] = batch[work[v].gen]
                      /\ work[v].gen # g
      BY <1>3 DEF AloneInv, Unraced
  <2>1. work[v].gen # g
        BY DEF AloneInv
  <2>2. work[v].gen \in Gen
        BY DEF TypeOK, Work
  <2> QED
      BY <1>4, <2>1, <2>2
<1>9. ContextInv'
      BY <1>3 DEF ContextInv, Unraced, HasContext
<1>10. CompletedIsConsideredUnraced'
  <2> SUFFICES ASSUME Unraced, NEW m \in Message, home[m] # 0,
                      batch'[home[m]].status = "completed"
               PROVE  Considered(m, decision[home[m]].context)
      BY DEF CompletedIsConsideredUnraced, CompletedIsConsidered, Unraced
  <2>1. home[m] \in Gen /\ home[m] # g
        BY <1>4 DEF TypeOK
  <2> QED
      BY <1>4, <2>1 DEF CompletedIsConsideredUnraced, CompletedIsConsidered,
                        Unraced
<1> QED
    BY <1>5, <1>6, <1>7, <1>8, <1>9, <1>10

(***************************************************************************)
(* A message that the latest ones leave out has a window of later ones.    *)
(***************************************************************************)
LEMMA LatestIsConsidered ==
    ASSUME NEW context \in SUBSET inbox, Latest(context), NEW m \in inbox
    PROVE  Considered(m, context)
<1>1. CASE m \in context
      BY <1>1 DEF Considered
<1>2. CASE m \notin context
      BY <1>2 DEF Considered, Latest
<1> QED
    BY <1>1, <1>2

(***************************************************************************)
(* The steps of processBatch that leave the batch alone.                   *)
(***************************************************************************)
LEMMA ReadKeeps ==
    ASSUME IInv, NEW w \in Worker, ReadOwner(w) \/ ReadContext(w)
    PROVE  IInv'
<1> USE DEF IInv
<1>1. /\ work[w] \in Work /\ spent \in Spent
      /\ batch[work[w].gen].attempts \in 0..MaxAttempts
      /\ conv.version \in Nat /\ spent.people \in 0..MaxPeople
      BY DEF TypeOK, Work, Row, Conv, NoConv, Spent
<1>2. CASE ReadOwner(w)
  <2> DEFINE job == [work[w] EXCEPT
                 !.pc = IF conv.own = "ai_active" THEN "context" ELSE "cancel",
                 !.version = conv.version,
                 !.attempts = batch[work[w].gen].attempts,
                 !.turn = spent.people]
  <2>1. /\ job \in Work /\ job.gen = work[w].gen
        /\ job.pc \in {"context", "cancel"}
        /\ job.version = conv.version /\ job.turn = spent.people
        BY <1>1 DEF Work
  <2>2. work[w].pc # "rest" /\ work' = [work EXCEPT ![w] = job]
        BY <1>2 DEF ReadOwner
  <2> HIDE DEF job
  <2>3. job.pc \notin HasContext
        BY <2>1 DEF HasContext
  <2>4. /\ job.version <= conv.version /\ job.turn = spent.people
        /\ job.pc # "locked"
        BY <1>1, <2>1
  <2>5. UNCHANGED <<conv, copies, inbox, batch, decision, ing, hand, spent,
                    home, raced, undone>>
        BY <1>2 DEF ReadOwner
  <2> QED
      BY <1>1, <2>1, <2>2, <2>3, <2>4, <2>5, GotoKeeps
<1>3. CASE ReadContext(w) /\ Rest(w)
      BY <1>1, <1>3, RestKeeps DEF ReadContext
<1>4. CASE ReadContext(w) /\ work' = [work EXCEPT ![w].pc = "cancel"]
  <2> DEFINE job == [work[w] EXCEPT !.pc = "cancel"]
  <2>1. job \in Work /\ job.gen = work[w].gen /\ job.pc = "cancel"
        BY <1>1 DEF Work
  <2>2. work[w].pc # "rest" /\ work' = [work EXCEPT ![w] = job]
        BY <1>4 DEF ReadContext
  <2> HIDE DEF job
  <2>3. job.pc \notin InCharge \cup HasContext
        BY <2>1 DEF HasContext, InCharge
  <2> QED
      BY <1>1, <1>4, <2>1, <2>2, <2>3, GotoKeeps DEF ReadContext
<1>5. ASSUME ReadContext(w), NEW context \in SUBSET inbox, Latest(context),
             work' = [work EXCEPT ![w].pc = "model", ![w].context = context]
      PROVE  IInv'
  <2> DEFINE job == [work[w] EXCEPT !.pc = "model", !.context = context]
  <2>1. /\ job \in Work /\ job.gen = work[w].gen /\ job.pc = "model"
        /\ job.version = work[w].version /\ job.turn = work[w].turn
        /\ job.context = context
    <3>1. context \in SUBSET Message
          BY DEF TypeOK
    <3> QED
        BY <1>1, <3>1 DEF Work
  <2>2. work[w].pc = "context" /\ work' = [work EXCEPT ![w] = job]
        BY <1>5 DEF ReadContext
  <2> HIDE DEF job
  <2>3. ~undone => /\ job.version <= conv.version
                   /\ job.turn # spent.people => job.version < conv.version
        BY <2>1, <2>2 DEF ChargeInv, InCharge
  <2>4. job.gen # 0
        BY <2>1 DEF Work, Gen
  <2>5. \A m \in Message : home[m] = job.gen => Considered(m, job.context)
    <3>1. \A m \in inbox : Considered(m, context)
          BY <1>5, LatestIsConsidered
    <3> QED
        BY <2>1, <2>4, <3>1 DEF ContextInv
  <2> QED
      BY <1>1, <1>5, <2>1, <2>2, <2>3, <2>5, GotoKeeps DEF ReadContext
<1> QED
    BY <1>2, <1>3, <1>4, <1>5 DEF ReadContext

\* A worker that holds its answer takes the next step with it.
LEMMA GoOnKeeps ==
    ASSUME IInv, NEW w \in Worker,
           NEW pc \in {"proposed", "locking", "locked"},
           work[w].pc \in {"model", "proposed", "locking"},
           work' = [work EXCEPT ![w].pc = pc],
           pc = "locked" => /\ conv \in Conv /\ hand = "rest"
                            /\ ing.pc \notin Written
                            /\ work[w].version = conv.version,
           UNCHANGED <<conv, copies, inbox, batch, decision, ing, hand, spent,
                       home, raced, undone>>
    PROVE  IInv'
<1> USE DEF IInv
<1> DEFINE job == [work[w] EXCEPT !.pc = pc]
<1>1. work[w] \in Work /\ spent \in Spent
      BY DEF TypeOK
<1>2. /\ job \in Work /\ job.gen = work[w].gen /\ job.pc = pc
      /\ job.version = work[w].version /\ job.turn = work[w].turn
      /\ job.context = work[w].context
      BY <1>1 DEF Work
<1>3. work[w].pc # "rest" /\ work' = [work EXCEPT ![w] = job]
      OBVIOUS
<1> HIDE DEF job
<1>4. ~undone => /\ job.version <= conv.version
                 /\ job.turn # spent.people => job.version < conv.version
      BY <1>2 DEF ChargeInv, InCharge
<1>5. Unraced => \A m \in Message : home[m] = job.gen
                                      => Considered(m, job.context)
      BY <1>2 DEF ContextInv, HasContext
<1> QED
    BY <1>1, <1>2, <1>3, <1>4, <1>5, GotoKeeps

LEMMA ProposeKeeps ==
    ASSUME IInv, NEW w \in Worker, Propose(w) \/ LockBatch(w)
    PROVE  IInv'
BY GoOnKeeps DEF Propose, LockBatch

(***************************************************************************)
(* The steps that end a batch, or put it back.                             *)
(***************************************************************************)
LEMMA CancelKeeps ==
    ASSUME IInv, NEW w \in Worker, work[w].pc # "rest", Rest(w),
           batch' = [batch EXCEPT ![work[w].gen].status = "cancelled"],
           UNCHANGED <<conv, copies, inbox, decision, ing, hand, spent, home,
                       raced, undone>>
    PROVE  IInv'
<1> DEFINE row == [batch[work[w].gen] EXCEPT !.status = "cancelled"]
<1>1. batch[work[w].gen] \in Row
      BY DEF IInv, TypeOK, Work
<1>2. row \in Row /\ row.status # "completed"
      BY <1>1 DEF Row
<1>3. batch' = [batch EXCEPT ![work[w].gen] = row]
      OBVIOUS
<1> HIDE DEF row
<1> QED
    BY <1>2, <1>3, EndKeeps

LEMMA FailureKeeps ==
    ASSUME IInv, NEW w \in Worker, RecordFailure(w)
    PROVE  IInv'
<1> DEFINE again == [batch[work[w].gen] EXCEPT
                       !.status = "pending", !.due = FALSE, !.lapsed = FALSE]
           failed == [batch[work[w].gen] EXCEPT !.status = "failed"]
<1>1. batch[work[w].gen] \in Row
      BY DEF IInv, TypeOK, Work
<1>2. /\ again \in Row /\ again.status # "completed"
      /\ failed \in Row /\ failed.status # "completed"
      BY <1>1 DEF Row
<1>3. \/ batch' = [batch EXCEPT ![work[w].gen] = again]
      \/ batch' = [batch EXCEPT ![work[w].gen] = failed]
      BY DEF RecordFailure
<1> HIDE DEF again, failed
<1> QED
    BY <1>2, <1>3, EndKeeps DEF RecordFailure

(***************************************************************************)
(* The conversation is shared with a version that is still the worker's.   *)
(***************************************************************************)
LEMMA LockKeeps ==
    ASSUME IInv, NEW w \in Worker, LockConversation(w)
    PROVE  IInv'
<1>1. CASE StillInCharge(w)
  <2>1. conv \in Conv /\ conv # NoConv
        BY <1>1 DEF StillInCharge, IInv, TypeOK, NoConv
  <2>2. hand = "rest" /\ ing.pc \notin Written
        BY <2>1 DEF LockConversation, ConvHeld, Written
  <2> QED
      BY <1>1, <2>1, <2>2, GoOnKeeps DEF LockConversation, StillInCharge
<1>2. CASE ~StillInCharge(w)
      BY <1>2, CancelKeeps DEF LockConversation
<1> QED
    BY <1>1, <1>2

LEMMA DropKeeps ==
    ASSUME IInv, NEW w \in Worker, Drop(w) \/ DecisionAborted(w)
    PROVE  IInv'
<1>1. spent \in Spent
      BY DEF IInv, TypeOK
<1>2. CASE DecisionAborted(w)
  <2>1. work[w].pc # "rest"
        BY <1>2 DEF DecisionAborted, WaitsForSharer, WaitsForIngestion,
                    WaitsForTransition, Sharers
  <2> QED
      BY <1>1, <1>2, <2>1, RestKeeps DEF DecisionAborted
<1>3. CASE Drop(w)
  <2>1. /\ spent' \in Spent /\ spent'.people = spent.people
        /\ spent'.lapses = spent.lapses
        BY <1>1, <1>3 DEF Drop, Spent, Faults
  <2> QED
      BY <1>3, <2>1, RestKeeps DEF Drop
<1> QED
    BY <1>2, <1>3

(***************************************************************************)
(* A decision completes the batch with all that it stands for.             *)
(***************************************************************************)
LEMMA DecideKeeps ==
    ASSUME IInv, NEW w \in Worker, Decide(w)
    PROVE  IInv'
<1> USE DEF IInv
<1> DEFINE g == work[w].gen
<1>1. /\ g \in Gen /\ work[w].context \in SUBSET Message
      /\ work[w].pc = "locked" /\ spent \in Spent /\ batch[g] \in Row
      BY DEF TypeOK, Work, Decide
<1>2. CASE decision[g].made
      BY <1>1, <1>2, RestKeeps DEF Decide
<1>3. CASE ~decision[g].made
  <2> DEFINE row == [batch[g] EXCEPT !.status = "completed"]
             made == [made |-> TRUE, context |-> work[w].context]
  <2>1. /\ batch' = [batch EXCEPT ![g] = row]
        /\ decision' = [decision EXCEPT ![g] = made]
        /\ row \in Row
        /\ made \in [made : BOOLEAN, context : SUBSET Message]
        /\ made.context = work[w].context
        BY <1>1, <1>3 DEF Decide, Row
  <2> HIDE DEF row, made
  <2>2. /\ batch' \in [Gen -> Row] /\ batch'[g] = row
        /\ decision' \in [Gen -> [made : BOOLEAN, context : SUBSET Message]]
        /\ decision'[g] = made
        /\ \A h \in Gen : h # g => /\ batch'[h] = batch[h]
                                   /\ decision'[h] = decision[h]
        BY <1>1, <2>1 DEF TypeOK
  <2>3. Resting \in Work /\ Resting.pc = "rest"
        BY DEF Resting, Work, Gen, Message
  <2>4. /\ work'[w].pc = "rest"
        /\ \A v \in Worker : v # w => work'[v] = work[v]
        /\ work' \in [Worker -> Work]
        BY <2>3 DEF Decide, Rest, TypeOK
  <2>5. UNCHANGED <<conv, copies, inbox, ing, hand, spent, home, raced,
                    undone>>
        BY DEF Decide
  <2>6. TypeOK'
        BY <2>2, <2>4, <2>5 DEF TypeOK
  <2>7. LockInv' /\ WriteInv' /\ ChargeInv'
        BY <2>4, <2>5 DEF LockInv, Sharers, WriteInv, ChargeInv, InCharge
  <2>8. AloneInv'
    <3> SUFFICES ASSUME Unraced, NEW v \in Worker, v # w, work[v].pc # "rest"
                 PROVE  /\ batch'[work[v].gen] = batch[work[v].gen]
                        /\ work[v].gen # g
        BY <2>4, <2>5 DEF AloneInv, Unraced
    <3>1. work[v].gen # g
          BY <1>1 DEF AloneInv
    <3>2. work[v].gen \in Gen
          BY DEF TypeOK, Work
    <3> QED
        BY <2>2, <3>1, <3>2
  <2>9. ContextInv'
        BY <2>4, <2>5 DEF ContextInv, Unraced, HasContext
  <2>10. CompletedIsConsideredUnraced'
    <3> SUFFICES ASSUME Unraced, NEW m \in Message, home[m] # 0,
                        batch'[home[m]].status = "completed"
                 PROVE  Considered(m, decision'[home[m]].context)
        BY <2>5 DEF CompletedIsConsideredUnraced, CompletedIsConsidered,
                    Unraced
    <3>1. home[m] \in Gen
          BY DEF TypeOK
    <3>2. CASE home[m] = g
          BY <1>1, <2>1, <2>2, <3>2 DEF ContextInv, HasContext
    <3>3. CASE home[m] # g
          BY <2>2, <3>1, <3>3 DEF CompletedIsConsideredUnraced,
                                  CompletedIsConsidered, Unraced
    <3> QED
        BY <3>2, <3>3
  <2> QED
      BY <2>6, <2>7, <2>8, <2>9, <2>10
<1> QED
    BY <1>2, <1>3

(***************************************************************************)
(* A batch that is claimed was nobody's, unless a claim lapsed.            *)
(***************************************************************************)
LEMMA TakeKeeps ==
    ASSUME IInv, NEW w \in Worker, NEW g \in Gen, Take(w, g),
           batch[g].attempts < MaxAttempts,
           \/ batch[g].status = "pending"
           \/ batch[g].status = "processing" /\ batch[g].lapsed
    PROVE  IInv'
<1> USE DEF IInv
<1> DEFINE row == [status |-> "processing",
                   attempts |-> batch[g].attempts + 1, due |-> FALSE,
                   lapsed |-> FALSE]
           job == [Resting EXCEPT !.pc = "claimed", !.gen = g]
<1>1. batch[g] \in Row
      BY DEF TypeOK
<1>2. /\ row \in Row /\ row.status = "processing" /\ ~row.lapsed
      /\ job \in Work /\ job.pc = "claimed" /\ job.gen = g
  <2>1. batch[g].attempts + 1 \in 0..MaxAttempts
        BY <1>1 DEF Row
  <2>2. row \in Row
        BY <2>1 DEF Row
  <2>3. Resting \in Work
        BY DEF Resting, Work, Gen, Message
  <2>4. job \in Work /\ job.pc = "claimed" /\ job.gen = g
        BY <2>3 DEF Work
  <2> QED
      BY <2>2, <2>4
<1>3. /\ batch' = [batch EXCEPT ![g] = row]
      /\ work' = [work EXCEPT ![w] = job]
      /\ UNCHANGED <<conv, copies, inbox, decision, ing, hand, spent, home,
                     raced, undone>>
      BY DEF Take
<1> HIDE DEF row, job
<1>4. /\ batch' \in [Gen -> Row] /\ batch'[g] = row
      /\ \A h \in Gen : h # g => batch'[h] = batch[h]
      /\ work' \in [Worker -> Work] /\ work'[w] = job
      /\ \A v \in Worker : v # w => work'[v] = work[v]
      BY <1>2, <1>3 DEF TypeOK
<1>5. TypeOK'
      BY <1>3, <1>4 DEF TypeOK
<1>6. LockInv' /\ WriteInv' /\ ChargeInv'
      BY <1>2, <1>3, <1>4 DEF LockInv, Sharers, WriteInv, ChargeInv, InCharge
<1>7. AloneInv'
  <2> SUFFICES ASSUME Unraced, NEW v \in Worker, v # w, work[v].pc # "rest"
               PROVE  /\ batch'[work[v].gen] = batch[work[v].gen]
                      /\ work[v].gen # g
      BY <1>2, <1>3, <1>4 DEF AloneInv, Unraced
  <2>1. work[v].gen # g
        BY DEF AloneInv
  <2>2. work[v].gen \in Gen
        BY DEF TypeOK, Work
  <2> QED
      BY <1>4, <2>1, <2>2
<1>8. ContextInv'
      BY <1>2, <1>3, <1>4 DEF ContextInv, Unraced, HasContext
<1>9. CompletedIsConsideredUnraced'
  <2> SUFFICES ASSUME Unraced, NEW m \in Message, home[m] # 0,
                      batch'[home[m]].status = "completed"
               PROVE  Considered(m, decision[home[m]].context)
      BY <1>3 DEF CompletedIsConsideredUnraced, CompletedIsConsidered, Unraced
  <2>1. home[m] \in Gen /\ home[m] # g
        BY <1>2, <1>4 DEF TypeOK
  <2> QED
      BY <1>4, <2>1 DEF CompletedIsConsideredUnraced, CompletedIsConsidered,
                        Unraced
<1> QED
    BY <1>5, <1>6, <1>7, <1>8, <1>9

LEMMA ClaimKeeps ==
    ASSUME IInv, NEW w \in Worker, Claim(w) \/ Trigger(w)
    PROVE  IInv'
BY TakeKeeps DEF Claim, Trigger, Claimable, DuePending

(***************************************************************************)
(* Time only marks batches; a claim that somebody works on lapses for good *)
(* reason: it is counted.                                                  *)
(***************************************************************************)
LEMMA MarkKeeps ==
    ASSUME IInv, NEW g \in Gen, NEW row \in Row,
           batch' = [batch EXCEPT ![g] = row],
           row.status = batch[g].status,
           \/ row.lapsed = batch[g].lapsed
           \/ \A w \in Worker : work[w].pc # "rest" => work[w].gen # g
           \/ spent'.lapses # 0,
           spent' \in Spent, spent'.people = spent.people,
           spent.lapses <= spent'.lapses,
           UNCHANGED <<conv, copies, inbox, decision, ing, work, hand, home,
                       raced, undone>>
    PROVE  IInv'
<1> USE DEF IInv
<1>1. /\ batch' \in [Gen -> Row] /\ batch'[g] = row
      /\ \A h \in Gen : batch'[h].status = batch[h].status
      /\ \A h \in Gen : h # g => batch'[h] = batch[h]
      BY DEF TypeOK
<1>2. spent.lapses \in Nat /\ spent'.lapses \in Nat
      BY DEF TypeOK, Spent
<1>3. Unraced' => Unraced
      BY <1>2 DEF Unraced
<1>4. TypeOK'
      BY <1>1 DEF TypeOK
<1>5. LockInv' /\ WriteInv' /\ ChargeInv'
      BY DEF LockInv, Sharers, WriteInv, ChargeInv
<1>6. AloneInv'
  <2> SUFFICES ASSUME Unraced', NEW w \in Worker, work[w].pc # "rest"
               PROVE  /\ batch'[work[w].gen].status = batch[work[w].gen].status
                      /\ batch'[work[w].gen].lapsed = batch[work[w].gen].lapsed
      BY <1>3 DEF AloneInv
  <2>1. work[w].gen \in Gen
        BY DEF TypeOK, Work
  <2> QED
      BY <1>1, <2>1 DEF Unraced
<1>7. ContextInv'
      BY <1>3 DEF ContextInv
<1>8. CompletedIsConsideredUnraced'
  <2> SUFFICES ASSUME Unraced', NEW m \in Message, home[m] # 0,
                      batch'[home[m]].status = "completed"
               PROVE  Considered(m, decision[home[m]].context)
      BY DEF CompletedIsConsideredUnraced, CompletedIsConsidered, Unraced
  <2>1. home[m] \in Gen
        BY DEF TypeOK
  <2> QED
      BY <1>1, <1>3, <2>1 DEF CompletedIsConsideredUnraced,
                              CompletedIsConsidered, Unraced
<1> QED
    BY <1>4, <1>5, <1>6, <1>7, <1>8

LEMMA TimeKeeps ==
    ASSUME IInv, NEW g \in Gen, FallsDue(g) \/ ClaimLapses(g)
    PROVE  IInv'
<1>1. batch[g] \in Row /\ spent \in Spent
      BY DEF IInv, TypeOK
<1>2. CASE FallsDue(g)
  <2> DEFINE row == [batch[g] EXCEPT !.due = TRUE]
  <2>1. /\ row \in Row /\ row.status = batch[g].status
        /\ row.lapsed = batch[g].lapsed
        BY <1>1 DEF Row
  <2>2. batch' = [batch EXCEPT ![g] = row]
        BY <1>2 DEF FallsDue
  <2> HIDE DEF row
  <2>3. UNCHANGED spent /\ spent.lapses <= spent.lapses
        BY <1>1, <1>2 DEF FallsDue, Spent
  <2> QED
      BY <1>1, <1>2, <2>1, <2>2, <2>3, MarkKeeps DEF FallsDue
<1>3. CASE ClaimLapses(g)
  <2> DEFINE row == [batch[g] EXCEPT !.lapsed = TRUE]
  <2>1. row \in Row /\ row.status = batch[g].status
        BY <1>1 DEF Row
  <2>2. batch' = [batch EXCEPT ![g] = row]
        BY <1>3 DEF ClaimLapses
  <2> HIDE DEF row
  <2>3. /\ spent' \in Spent /\ spent'.people = spent.people
        /\ spent.lapses <= spent'.lapses
        /\ Busy(g) = {} \/ spent'.lapses # 0
    <3>1. CASE Busy(g) = {}
          BY <1>1, <1>3, <3>1 DEF ClaimLapses, Spent
    <3>2. CASE Busy(g) # {}
          BY <1>1, <1>3, <3>2 DEF ClaimLapses, Spent, Faults
    <3> QED
        BY <3>1, <3>2
  <2>4. Busy(g) = {} => \A w \in Worker : work[w].pc # "rest"
                                            => work[w].gen # g
        BY DEF Busy
  <2> QED
      BY <1>1, <1>3, <2>1, <2>2, <2>3, <2>4, MarkKeeps DEF ClaimLapses
<1> QED
    BY <1>2, <1>3

(***************************************************************************)
(* An ingestion reads, or prepares what it will write.                     *)
(***************************************************************************)
LEMMA PrepareKeeps ==
    ASSUME IInv, ing' \in Ingestion, LockInv', WriteInv',
           UNCHANGED <<conv, copies, inbox, batch, decision, work, hand, home,
                       raced, undone>>,
           spent' \in Spent, spent'.people = spent.people,
           spent'.lapses = spent.lapses
    PROVE  IInv'
<1> USE DEF IInv
<1>1. TypeOK'
      BY DEF TypeOK
<1>2. ChargeInv' /\ AloneInv' /\ ContextInv'
      BY DEF ChargeInv, AloneInv, ContextInv, Unraced
<1>3. CompletedIsConsideredUnraced'
      BY DEF CompletedIsConsideredUnraced, CompletedIsConsidered
<1> QED
    BY <1>1, <1>2, <1>3

LEMMA UnreadTyped == Unread \in Ingestion /\ Unread.pc = "rest"
<1>1. NoRow \in Row
      BY DEF NoRow, Row
<1> QED
    BY <1>1 DEF Unread, Ingestion, Message

\* It is rolled back.
LEMMA UnreadKeeps ==
    ASSUME IInv, IngestionFails \/ IngestionAborted
    PROVE  IInv'
<1> USE DEF IInv
<1>1. /\ ing' \in Ingestion /\ ing'.pc = "rest"
      /\ UNCHANGED <<conv, copies, inbox, batch, decision, work, hand, home,
                     raced, undone>>
      BY UnreadTyped DEF IngestionFails, IngestionAborted
<1>2. /\ spent' \in Spent /\ spent'.people = spent.people
      /\ spent'.lapses = spent.lapses
      BY DEF TypeOK, Spent, Faults, IngestionFails, IngestionAborted
<1>3. LockInv' /\ WriteInv'
      BY <1>1, <1>2 DEF LockInv, Sharers, WriteInv, Written
<1> QED
    BY <1>1, <1>2, <1>3, PrepareKeeps

LEMMA ReadConversationKeeps ==
    ASSUME IInv, NEW m \in Message, ReadConversation(m)
    PROVE  IInv'
<1> USE DEF IInv
<1>1. PICK c \in IF conv = NoConv THEN Created ELSE AfterMessage(conv) :
        ing' = [Unread EXCEPT !.pc = "read", !.msg = m, !.read = conv,
                              !.mine = c]
      BY DEF ReadConversation
<1>2. c \in Conv /\ conv.version <= c.version
  <2>1. CASE conv = NoConv
    <3>1. c \in Created
          BY <2>1
    <3>2. c \in Conv /\ c.version = 1
      <4>1. CASE c = [own |-> "ai_active", version |-> 1,
                      qual |-> "qualified", optout |-> FALSE]
            BY <4>1 DEF Conv
      <4>2. CASE c \in [own : {"paused"}, version : {1},
                        qual : {"open", "qualified", "internal"},
                        optout : BOOLEAN]
            BY <4>2 DEF Conv
      <4> QED
          BY <3>1, <4>1, <4>2 DEF Created
    <3> QED
        BY <2>1, <3>2 DEF NoConv
  <2>2. CASE conv # NoConv
        BY <2>2, TurnedIsConv DEF TypeOK
  <2> QED
      BY <2>1, <2>2
<1>3. /\ ing' \in Ingestion /\ ing'.pc = "read" /\ ing'.mine = c
      /\ ing'.read = conv
      BY <1>1, <1>2, UnreadTyped DEF Ingestion, TypeOK
<1>4. UNCHANGED <<conv, copies, inbox, batch, decision, work, hand, spent,
                  home, raced, undone>>
      BY DEF ReadConversation
<1>5. LockInv' /\ WriteInv'
      BY <1>2, <1>3, <1>4 DEF LockInv, Sharers, WriteInv, Written
<1>6. spent \in Spent
      BY DEF TypeOK
<1> QED
    BY <1>3, <1>4, <1>5, <1>6, PrepareKeeps

LEMMA SaveKeeps ==
    ASSUME IInv, ReloadConversation \/ SaveConversation
    PROVE  IInv'
<1> USE DEF IInv
<1>1. /\ ing \in Ingestion /\ spent \in Spent
      /\ conv \in Conv \cup {NoConv} /\ ing.seen \in Conv \cup {NoConv}
      BY DEF TypeOK, Ingestion
<1>2. UNCHANGED <<conv, copies, inbox, batch, decision, work, hand, spent,
                  home, raced, undone>>
      BY DEF ReloadConversation, SaveConversation
<1>3. CASE ReloadConversation
  <2>1. /\ ing' \in Ingestion /\ ing'.pc = "loaded" /\ ing'.mine = ing.mine
        /\ ing'.read = ing.read /\ ing'.seen = conv /\ ing.pc = "read"
        BY <1>1, <1>3 DEF ReloadConversation, Ingestion
  <2>2. LockInv' /\ WriteInv'
        BY <1>2, <2>1 DEF LockInv, Sharers, WriteInv, Written
  <2> QED
      BY <1>1, <1>2, <2>1, <2>2, PrepareKeeps
<1>4. CASE SaveConversation
  <2> DEFINE c == SavedConv(ing.mine, ing.seen, conv)
  <2>1. ing.mine \in Conv /\ (conv = NoConv => ing.seen = NoConv)
        BY <1>4 DEF WriteInv, SaveConversation
  <2>2. c \in Conv /\ c.version \in {ing.mine.version, conv.version}
        BY <1>1, <2>1, SavedIsConv
  <2>3. ing' = [ing EXCEPT !.pc = "saved", !.seen = c] /\ ing.pc = "loaded"
        BY <1>4 DEF SaveConversation
  <2> HIDE DEF c
  <2>4. /\ ing' \in Ingestion /\ ing'.pc = "saved" /\ ing'.mine = ing.mine
        /\ ing'.read = ing.read /\ ing'.seen = c
        BY <1>1, <2>2, <2>3 DEF Ingestion
  <2>5. WriteInv'
        BY <1>2, <2>2, <2>3, <2>4 DEF WriteInv, Written
  <2>6. LockInv'
    <3>1. hand = "rest" /\ Sharers = {}
          BY <1>4 DEF SaveConversation, ConvHeld
    <3> QED
        BY <1>2, <3>1 DEF LockInv, Sharers
  <2> QED
      BY <1>1, <1>2, <2>4, <2>5, <2>6, PrepareKeeps
<1> QED
    BY <1>3, <1>4

LEMMA FindKeeps ==
    ASSUME IInv, FindBatch \/ ReloadBatch
    PROVE  IInv'
<1> USE DEF IInv
<1>1. ing \in Ingestion /\ spent \in Spent /\ \A g \in Gen : batch[g] \in Row
      BY DEF TypeOK
<1>2. UNCHANGED <<conv, copies, inbox, batch, decision, work, hand, spent,
                  home, raced, undone>>
      BY DEF FindBatch, ReloadBatch
<1>3. ing.pc \in {"saved", "found"} /\ ing'.pc \in {"found", "reloaded"}
      /\ ing' \in Ingestion /\ ing'.mine = ing.mine /\ ing'.read = ing.read
      /\ ing'.seen = ing.seen
      /\ ing'.gen \in Gen /\ ing'.row.status = "pending"
  <2>1. CASE FindBatch
    <3>1. PICK g \in Extendable :
            ing' = [ing EXCEPT !.pc = "found", !.gen = g, !.row = batch[g]]
          BY <2>1 DEF FindBatch
    <3>2. g \in Gen /\ batch[g].status = "pending"
          BY DEF Extendable, Pending
    <3> QED
        BY <1>1, <2>1, <3>1, <3>2 DEF FindBatch, Ingestion
  <2>2. CASE ReloadBatch
    <3>1. ing.gen \in Gen /\ ing.row.status = "pending"
          BY <2>2 DEF WriteInv, ReloadBatch
    <3> QED
        BY <1>1, <2>2, <3>1 DEF ReloadBatch, Ingestion
  <2> QED
      BY <2>1, <2>2
<1>4. WriteInv'
      BY <1>2, <1>3 DEF WriteInv, Written
<1>5. LockInv'
      BY <1>2, <1>3 DEF LockInv, Sharers, Written
<1> QED
    BY <1>1, <1>2, <1>3, <1>4, <1>5, PrepareKeeps

(***************************************************************************)
(* An ingestion commits: its message joins a batch that is pending and     *)
(* that nobody processes, and the ownership does not go back unnoticed.    *)
(***************************************************************************)
LEMMA CommitKeeps ==
    ASSUME IInv, ing.pc \in Written, NEW g \in {0} \cup Gen,
           CommitIngestion(g),
           batch' \in [Gen -> Row],
           \A h \in Gen : h # g => batch'[h] = batch[h],
           raced' \in BOOLEAN, ~raced' => ~raced,
           ~raced' /\ g # 0 => /\ batch'[g].status = "pending"
                               /\ batch[g].status \in {"none", "pending"}
    PROVE  IInv'
<1> USE DEF IInv
<1>1. /\ ing \in Ingestion /\ ing.msg \in Message /\ ing.seen \in Conv
      /\ ing.mine \in Conv /\ ing.read.version <= ing.mine.version
      /\ ing.seen.version \in {ing.mine.version, conv.version}
      BY DEF TypeOK, Ingestion, WriteInv, Written
<1>2. /\ conv' = ing.seen /\ inbox' = inbox \cup {ing.msg}
      /\ home' = [home EXCEPT ![ing.msg] = g] /\ ing' = Unread
      /\ UNCHANGED <<copies, decision, work, hand, spent>>
      /\ undone' = (undone \/ WritesBack)
      BY DEF CommitIngestion
<1>3. /\ home' \in [Message -> {0} \cup Gen] /\ home'[ing.msg] = g
      /\ \A m \in Message : m # ing.msg => home'[m] = home[m]
      BY <1>1, <1>2 DEF TypeOK
<1>4. undone' \in BOOLEAN
      BY <1>2 DEF TypeOK, WritesBack
<1>5. TypeOK'
      BY <1>1, <1>2, <1>3, <1>4, UnreadTyped DEF TypeOK
<1>6. hand = "rest" /\ Sharers = {} /\ \A w \in Worker : work[w].pc # "locked"
      BY DEF LockInv, Written, Sharers
<1>7. LockInv' /\ WriteInv'
      BY <1>2, <1>6, UnreadTyped DEF LockInv, Sharers, WriteInv, Written
<1>8. ChargeInv'
  <2>1. ~undone' => conv.version <= conv'.version
    <3> SUFFICES ASSUME ~undone'
                 PROVE  conv.version <= ing.seen.version
        BY <1>2
    <3>1. conv.version \in Nat /\ ing.mine.version \in Nat
          BY <1>1 DEF TypeOK, Conv, NoConv
    <3>2. conv.version \in {ing.read.version, ing.seen.version}
          BY <1>2 DEF WritesBack
    <3> QED
        BY <1>1, <3>1, <3>2
  <2>2. /\ \A w \in Worker : work[w].version \in Nat
        /\ conv.version \in Nat /\ conv'.version \in Nat
        BY <1>1, <1>2 DEF TypeOK, Work, Conv, NoConv
  <2>3. UNCHANGED <<work, spent>> /\ (~undone' => ~undone)
        BY <1>2
  <2>4. \A w \in Worker : work'[w].pc # "locked"
        BY <1>6, <2>3
  <2>5. ASSUME ~undone', NEW w \in Worker, work[w].pc \in InCharge
        PROVE  /\ work[w].version <= conv'.version
               /\ work[w].turn # spent.people
                    => work[w].version < conv'.version
    <3>1. /\ work[w].version <= conv.version
          /\ work[w].turn # spent.people => work[w].version < conv.version
          BY <2>3, <2>5 DEF ChargeInv
    <3> QED
        BY <2>1, <2>2, <2>5, <3>1
  <2> QED
      BY <2>3, <2>4, <2>5 DEF ChargeInv
<1>9. Unraced' => Unraced
      BY <1>2 DEF Unraced
<1>10. ASSUME Unraced', NEW w \in Worker, work[w].pc # "rest"
       PROVE  work[w].gen \in Gen /\ work[w].gen # g
  <2>1. work[w].gen \in Gen
        BY DEF TypeOK, Work
  <2>2. batch[work[w].gen].status \in {"processing", "cancelled"}
        BY <1>9, <1>10 DEF AloneInv
  <2> QED
      BY <1>10, <2>1, <2>2 DEF Unraced, Gen
<1>11. AloneInv'
  <2> SUFFICES ASSUME Unraced', NEW w \in Worker, work[w].pc # "rest"
               PROVE  batch'[work[w].gen] = batch[work[w].gen]
      BY <1>2, <1>9 DEF AloneInv
  <2> QED
      BY <1>10
<1>12. ContextInv'
  <2>1. \A m \in Message : home'[m] # 0 => m \in inbox'
        BY <1>1, <1>2, <1>3 DEF ContextInv
  <2>2. ASSUME Unraced', NEW w \in Worker, NEW m \in Message,
               work[w].pc \in HasContext, home'[m] = work[w].gen
        PROVE  Considered(m, work[w].context)
    <3>1. home[m] = work[w].gen
          BY <1>3, <1>10, <2>2 DEF HasContext
    <3> QED
        BY <1>9, <2>2, <3>1 DEF ContextInv
  <2> QED
      BY <1>2, <2>1, <2>2 DEF ContextInv
<1>13. CompletedIsConsideredUnraced'
  <2> SUFFICES ASSUME Unraced', NEW m \in Message, home'[m] # 0,
                      batch'[home'[m]].status = "completed"
               PROVE  Considered(m, decision[home'[m]].context)
      BY <1>2 DEF CompletedIsConsideredUnraced, CompletedIsConsidered, Unraced
  <2>1. home'[m] \in Gen /\ home'[m] # g
        BY <1>3 DEF Unraced
  <2>2. home'[m] = home[m] /\ batch'[home[m]] = batch[home[m]]
        BY <1>3, <2>1
  <2> QED
      BY <1>9, <2>2 DEF CompletedIsConsideredUnraced, CompletedIsConsidered,
                        Unraced
<1> QED
    BY <1>5, <1>7, <1>8, <1>11, <1>12, <1>13

LEMMA StoreKeeps ==
    ASSUME IInv, StoreOnly
    PROVE  IInv'
<1>1. /\ ing.pc \in Written /\ CommitIngestion(0) /\ UNCHANGED <<batch, raced>>
      /\ batch \in [Gen -> Row] /\ raced \in BOOLEAN
      BY DEF StoreOnly, Written, IInv, TypeOK
<1> QED
    BY <1>1, CommitKeeps

LEMMA OpenKeeps ==
    ASSUME IInv, OpenBatch
    PROVE  IInv'
<1>1. PICK g \in Gen :
        /\ NextGeneration(g)
        /\ batch' = [batch EXCEPT ![g] = [NoRow EXCEPT !.status = "pending"]]
        /\ CommitIngestion(g)
      BY DEF OpenBatch
<1>2. batch[g].status = "none"
  <2>1. g \in Nat /\ ~(g < g)
        BY DEF Gen
  <2> QED
      BY <1>1, <2>1 DEF NextGeneration
<1>3. /\ [NoRow EXCEPT !.status = "pending"] \in Row
      /\ [NoRow EXCEPT !.status = "pending"].status = "pending"
  <2>1. NoRow \in Row
        BY DEF NoRow, Row
  <2> QED
      BY <2>1 DEF Row
<1>4. /\ batch' \in [Gen -> Row] /\ batch'[g].status = "pending"
      /\ \A h \in Gen : h # g => batch'[h] = batch[h]
      BY <1>1, <1>3 DEF IInv, TypeOK
<1>5. ing.pc \in Written /\ UNCHANGED raced /\ raced \in BOOLEAN
      BY DEF OpenBatch, Written, IInv, TypeOK
<1> QED
    BY <1>1, <1>2, <1>4, <1>5, CommitKeeps

LEMMA ExtendKeeps ==
    ASSUME IInv, ExtendBatch
    PROVE  IInv'
<1> USE DEF IInv
<1> DEFINE g == ing.gen
           row == [status |-> Saved(ing.row.status, ing.found.status,
                                    batch[g].status),
                   attempts |-> Saved(ing.row.attempts, ing.found.attempts,
                                      batch[g].attempts),
                   due |-> FALSE,
                   lapsed |-> IF ing.found.status = "processing" THEN FALSE
                              ELSE batch[g].lapsed]
<1>1. /\ g \in Gen /\ ing.row.status = "pending" /\ ing.pc \in Written
      /\ ing.row \in Row /\ ing.found \in Row /\ batch[g] \in Row
      BY DEF WriteInv, ExtendBatch, Written, TypeOK, Ingestion
<1>2. row \in Row
      BY <1>1 DEF Row, Saved
<1>3. batch' = [batch EXCEPT ![g] = row]
      BY DEF ExtendBatch
<1>4. batch[g].status = "pending" => row.status = "pending"
      BY <1>1 DEF Saved
<1>5. /\ CommitIngestion(g)
      /\ raced' = (raced \/ batch[g].status # "pending")
      BY <1>1 DEF ExtendBatch
<1> HIDE DEF row
<1>6. /\ batch' \in [Gen -> Row] /\ batch'[g] = row
      /\ \A h \in Gen : h # g => batch'[h] = batch[h]
      BY <1>1, <1>2, <1>3 DEF TypeOK
<1>7. raced' \in BOOLEAN
      BY <1>5 DEF TypeOK
<1> QED
    BY <1>1, <1>4, <1>5, <1>6, <1>7, CommitKeeps

(***************************************************************************)
(* Messages of ours, and requests that save the conversation they read.    *)
(***************************************************************************)
LEMMA OursKeeps ==
    ASSUME IInv, NEW m \in Message, StoreOurs(m)
    PROVE  IInv'
<1> USE DEF IInv
<1>1. /\ inbox' = inbox \cup {m}
      /\ UNCHANGED <<conv, copies, batch, decision, ing, work, hand, spent,
                     home, raced, undone>>
      BY DEF StoreOurs
<1>2. TypeOK'
      BY <1>1 DEF TypeOK
<1>3. LockInv' /\ WriteInv' /\ ChargeInv' /\ AloneInv'
      BY <1>1 DEF LockInv, Sharers, WriteInv, ChargeInv, AloneInv, Unraced
<1>4. ContextInv'
      BY <1>1 DEF ContextInv, Unraced
<1>5. CompletedIsConsideredUnraced'
      BY <1>1 DEF CompletedIsConsideredUnraced, CompletedIsConsidered
<1> QED
    BY <1>2, <1>3, <1>4, <1>5

LEMMA CopyKeeps ==
    ASSUME IInv, CopyConversation
    PROVE  IInv'
<1> USE DEF IInv
<1>1. /\ conv \in Conv /\ copies' = copies \cup {conv}
      /\ UNCHANGED <<conv, inbox, batch, decision, ing, work, hand, home,
                     raced, undone>>
      BY DEF CopyConversation, TypeOK
<1>2. /\ spent' \in Spent /\ spent'.people = spent.people
      /\ spent'.lapses = spent.lapses
      BY DEF CopyConversation, TypeOK, Spent, Faults
<1>3. TypeOK'
      BY <1>1, <1>2 DEF TypeOK
<1>4. LockInv'
      BY <1>1, <1>2 DEF LockInv, Sharers
<1>5. WriteInv' /\ ChargeInv' /\ AloneInv' /\ ContextInv'
      BY <1>1, <1>2 DEF WriteInv, ChargeInv, AloneInv, ContextInv, Unraced
<1>6. CompletedIsConsideredUnraced'
      BY <1>1, <1>2 DEF CompletedIsConsideredUnraced, CompletedIsConsidered
<1> QED
    BY <1>3, <1>4, <1>5, <1>6

LEMMA SaveCopyKeeps ==
    ASSUME IInv, NEW read \in copies, SaveCopy(read)
    PROVE  IInv'
<1> USE DEF IInv
<1>1. conv \in Conv /\ read \in Conv /\ conv # NoConv
      BY DEF TypeOK, LockInv, Conv, NoConv
<1>2. /\ hand = "rest" /\ ing.pc \notin Written /\ Sharers = {}
      /\ copies' = copies \ {read}
      /\ UNCHANGED <<inbox, batch, decision, ing, work, hand, spent, home,
                     raced>>
      BY <1>1 DEF SaveCopy, ConvHeld, Written
<1>3. /\ conv' \in Conv /\ conv' # NoConv /\ undone' \in BOOLEAN
      /\ ~undone' => ~undone /\ conv'.version = conv.version
  <2>1. /\ conv' \in [own : {read.own, conv.own},
                      version : {read.version, conv.version},
                      qual : {read.qual, conv.qual},
                      optout : {read.optout, conv.optout}]
        /\ undone' = (undone \/ conv'.own # conv.own
                             \/ conv'.version # conv.version)
        BY DEF SaveCopy
  <2>2. conv' \in Conv
    <3>1. /\ {read.own, conv.own} \subseteq {"ai_active", "paused", "held"}
          /\ {read.version, conv.version} \subseteq Nat
          /\ {read.qual, conv.qual} \subseteq {"open", "qualified", "internal"}
          /\ {read.optout, conv.optout} \subseteq BOOLEAN
          BY <1>1 DEF Conv
    <3> QED
        BY <2>1, <3>1 DEF Conv
  <2>3. conv' # NoConv
        BY <2>2 DEF Conv, NoConv
  <2>4. undone' \in BOOLEAN /\ (~undone' => ~undone)
        BY <2>1 DEF TypeOK
  <2> QED
      BY <2>1, <2>2, <2>3, <2>4
<1>4. TypeOK'
      BY <1>2, <1>3 DEF TypeOK
<1>5. LockInv' /\ WriteInv'
      BY <1>2, <1>3 DEF LockInv, Sharers, WriteInv, Written
<1>6. ChargeInv'
      BY <1>2, <1>3 DEF ChargeInv, Sharers
<1>7. AloneInv' /\ ContextInv'
      BY <1>2 DEF AloneInv, ContextInv, Unraced
<1>8. CompletedIsConsideredUnraced'
      BY <1>2 DEF CompletedIsConsideredUnraced, CompletedIsConsidered
<1> QED
    BY <1>4, <1>5, <1>6, <1>7, <1>8

(***************************************************************************)
(* People take the conversation or give it back.                           *)
(***************************************************************************)
LEMMA HandKeeps ==
    ASSUME IInv, (\E own \in {"ai_active", "paused", "held"} :
                    LockForTransition(own)) \/ TransitionAborted
    PROVE  IInv'
<1> USE DEF IInv
<1>1. UNCHANGED <<conv, copies, inbox, batch, decision, ing, work, spent, home,
                  raced, undone>>
      BY DEF LockForTransition, TransitionAborted
<1>2. TypeOK'
      BY <1>1 DEF TypeOK, LockForTransition, TransitionAborted
<1>3. LockInv'
  <2>1. CASE TransitionAborted
        BY <1>1, <2>1 DEF LockInv, Sharers, TransitionAborted
  <2>2. CASE \E own \in {"ai_active", "paused", "held"} :
               LockForTransition(own)
    <3>1. /\ conv \in Conv /\ spent.people < MaxPeople
          /\ ing.pc \notin Written /\ Sharers = {}
          BY <2>2 DEF LockForTransition, ConvHeld, Written, TypeOK
    <3> QED
        BY <1>1, <3>1 DEF LockInv, Sharers
  <2> QED
      BY <2>1, <2>2
<1>4. WriteInv' /\ ChargeInv' /\ AloneInv' /\ ContextInv'
      BY <1>1 DEF WriteInv, ChargeInv, AloneInv, ContextInv, Unraced
<1>5. CompletedIsConsideredUnraced'
      BY <1>1 DEF CompletedIsConsideredUnraced, CompletedIsConsidered
<1> QED
    BY <1>2, <1>3, <1>4, <1>5

LEMMA TransitionKeeps ==
    ASSUME IInv, CommitTransition
    PROVE  IInv'
<1> USE DEF IInv
<1>1. /\ hand # "rest" /\ conv \in Conv /\ spent.people < MaxPeople
      /\ ing.pc \notin Written /\ \A w \in Worker : work[w].pc # "locked"
      /\ spent \in Spent
      BY DEF CommitTransition, LockInv, Sharers, TypeOK
<1>2. /\ conv' \in Conv /\ conv'.version = conv.version + 1
      /\ hand' = "rest"
      /\ spent' \in Spent /\ spent'.people = spent.people + 1
      /\ spent'.lapses = spent.lapses
      BY <1>1 DEF CommitTransition, Conv, Spent, TypeOK
<1>3. UNCHANGED <<copies, inbox, decision, ing, work, home, raced, undone>>
      BY DEF CommitTransition
<1>4. /\ batch' \in [Gen -> Row]
      /\ \A g \in Gen : \/ batch'[g] = batch[g]
                        \/ batch'[g].status = "cancelled"
  <2>1. CASE hand = "ai_active"
        BY <2>1 DEF CommitTransition, TypeOK
  <2>2. CASE hand # "ai_active"
    <3>1. batch' = [g \in Gen |->
                      IF Open(g) THEN [batch[g] EXCEPT !.status = "cancelled"]
                      ELSE batch[g]]
          BY <2>2 DEF CommitTransition
    <3>2. \A g \in Gen :
            /\ [batch[g] EXCEPT !.status = "cancelled"] \in Row
            /\ [batch[g] EXCEPT !.status = "cancelled"].status = "cancelled"
      <4>1. \A g \in Gen : batch[g] \in Row
            BY DEF TypeOK
      <4>2. \A row \in Row : /\ [row EXCEPT !.status = "cancelled"] \in Row
                             /\ [row EXCEPT !.status = "cancelled"].status
                                  = "cancelled"
            BY DEF Row
      <4> QED
          BY <4>1, <4>2
    <3>3. \A g \in Gen : batch[g] \in Row
          BY DEF TypeOK
    <3> QED
        BY <3>1, <3>2, <3>3
  <2> QED
      BY <2>1, <2>2
<1>5. TypeOK'
      BY <1>2, <1>3, <1>4 DEF TypeOK
<1>6. LockInv'
      BY <1>1, <1>2, <1>3 DEF LockInv, Sharers
<1>7. WriteInv'
  <2>1. conv # NoConv /\ conv' # NoConv
        BY <1>1, <1>2 DEF Conv, NoConv
  <2> QED
      BY <1>1, <1>3, <2>1 DEF WriteInv, Written
<1>8. ChargeInv'
  <2>1. /\ \A w \in Worker : /\ work[w].version \in Nat
                             /\ work[w].turn \in 0..MaxPeople
        /\ conv.version \in Nat /\ spent.people \in Nat
        BY <1>1 DEF TypeOK, Work, Conv, Spent
  <2> QED
      BY <1>1, <1>2, <1>3, <2>1 DEF ChargeInv
<1>9. AloneInv'
  <2> SUFFICES ASSUME Unraced, NEW w \in Worker, work[w].pc # "rest"
               PROVE  \/ batch'[work[w].gen] = batch[work[w].gen]
                      \/ batch'[work[w].gen].status = "cancelled"
      BY <1>2, <1>3 DEF AloneInv, Unraced
  <2>1. work[w].gen \in Gen
        BY DEF TypeOK, Work
  <2> QED
      BY <1>4, <2>1
<1>10. ContextInv'
       BY <1>2, <1>3 DEF ContextInv, Unraced
<1>11. CompletedIsConsideredUnraced'
  <2> SUFFICES ASSUME Unraced, NEW m \in Message, home[m] # 0,
                      batch'[home[m]].status = "completed"
               PROVE  Considered(m, decision[home[m]].context)
      BY <1>2, <1>3 DEF CompletedIsConsideredUnraced, CompletedIsConsidered,
                        Unraced
  <2>1. home[m] \in Gen
        BY DEF TypeOK
  <2> QED
      BY <1>4, <2>1 DEF CompletedIsConsideredUnraced, CompletedIsConsidered,
                        Unraced
<1> QED
    BY <1>5, <1>6, <1>7, <1>8, <1>9, <1>10, <1>11

(***************************************************************************)
(* The invariant is inductive.                                             *)
(***************************************************************************)
LEMMA InboundStep == ASSUME IInv, [Next]_vars PROVE IInv'
<1>1. CASE UNCHANGED vars
  <2>1. (TypeOK /\ LockInv /\ WriteInv /\ ChargeInv)'
        BY <1>1 DEF IInv, vars, TypeOK, LockInv, Sharers, WriteInv, ChargeInv
  <2>2. (AloneInv /\ ContextInv /\ CompletedIsConsideredUnraced)'
        BY <1>1 DEF IInv, vars, AloneInv, ContextInv, Unraced,
                    CompletedIsConsideredUnraced, CompletedIsConsidered
  <2> QED
      BY <2>1, <2>2 DEF IInv
<1>2. CASE (\E m \in Message : ReadConversation(m)) \/ IngestionStep
             \/ IngestionFails
      BY <1>2, ReadConversationKeeps, SaveKeeps, StoreKeeps, OpenKeeps,
         FindKeeps, ExtendKeeps, UnreadKeeps DEF IngestionStep
<1>3. CASE \E g \in Gen : FallsDue(g) \/ ClaimLapses(g)
      BY <1>3, TimeKeeps
<1>4. CASE \E w \in Worker : Claim(w) \/ Trigger(w) \/ WorkStep(w) \/ Drop(w)
  <2> SUFFICES ASSUME NEW w \in Worker,
                      Claim(w) \/ Trigger(w) \/ WorkStep(w) \/ Drop(w)
               PROVE  IInv'
      BY <1>4
  <2>1. CASE CancelBatch(w)
        BY <2>1, CancelKeeps DEF CancelBatch
  <2> QED
      BY <2>1, ClaimKeeps, ReadKeeps, FailureKeeps, ProposeKeeps, LockKeeps,
         DecideKeeps, DropKeeps DEF WorkStep
<1>5. CASE (\E own \in {"ai_active", "paused", "held"} :
              LockForTransition(own)) \/ TransitionStep
      BY <1>5, HandKeeps, TransitionKeeps DEF TransitionStep
<1>6. CASE \/ \E m \in Message : StoreOurs(m)
           \/ CopyConversation
           \/ \E read \in copies : SaveCopy(read)
      BY <1>6, OursKeeps, CopyKeeps, SaveCopyKeeps
<1> QED
    BY <1>1, <1>2, <1>3, <1>4, <1>5, <1>6 DEF Next

LEMMA InboundInvariance == Spec => []IInv
<1> QED
    BY InboundInitially, InboundStep, PTL DEF Spec

-----------------------------------------------------------------------------

\* The conversation, its batches and everything under way keep their types; in
\* particular a batch is never claimed more often than it has attempts.
THEOREM InboundTypeCorrect == Spec => []TypeOK
<1>1. IInv => TypeOK
      BY DEF IInv
<1> QED
    BY <1>1, InboundInvariance, PTL

\* extendDebounce and processBatch: a completed batch has been dealt with to
\* its last message, unless one of the two races happened.
THEOREM CompletedConsidered == Spec => []CompletedIsConsideredUnraced
<1>1. IInv => CompletedIsConsideredUnraced
      BY DEF IInv
<1> QED
    BY <1>1, InboundInvariance, PTL

\* processBatch and transition: no decision is stored once people have taken
\* the conversation since its owner was read.
THEOREM OnlyInCharge == Spec => DecidedInCharge
<1> DEFINE Decided == \A w \in Sharers :
               ~undone /\ decision'[work[w].gen] # decision[work[w].gen]
                 => work[w].turn = spent.people
<1>1. IInv => \A w \in Sharers : ~undone => work[w].turn = spent.people
  <2> SUFFICES ASSUME IInv, NEW w \in Worker, work[w].pc = "locked", ~undone
               PROVE  work[w].turn = spent.people
      BY DEF Sharers
  <2>1. work[w].version = conv.version /\ conv.version \in Nat
        BY DEF IInv, ChargeInv, TypeOK, Conv, NoConv
  <2> QED
      BY <2>1 DEF IInv, ChargeInv, InCharge
<1>2. IInv => Decided
      BY <1>1
<1>3. IInv /\ [Next]_vars => [Decided]_vars
      BY <1>2
<1> QED
    BY <1>3, InboundInvariance, PTL DEF Spec, DecidedInCharge
=============================================================================
