----------------------- MODULE GovernedActions_proofs -----------------------
(***************************************************************************)
(* The governed actions for any number of decisions, workers, events and   *)
(* faults.  No lock and no fence stands between two workers that hold the  *)
(* same action; what keeps a reply, a stage and the ownership from being   *)
(* acted on twice is the message's key, the deal's version and stage, and  *)
(* the version of the ownership.                                           *)
(***************************************************************************)
EXTENDS GovernedActions, TLAPS

USE GovernedAssumption

\* Messages are counted with the events.
InboundCounted == inbound <= spent.events

Undecided == {d \in Decision : decision[d].status \in {"none", "drafted"}}

\* Nothing is done for a decision that is not made.
DecidedFirst ==
    /\ \A d \in Decision, k \in Kind : action[d][k].status # "none" =>
         d \notin Undecided
    /\ \A w \in Worker : work[w].pc # "rest" => work[w].d \notin Undecided
    /\ \A d \in Decision : decision[d].status = "none" =>
         d \notin history.taken

\* The provider is called once for a stored message, by who stored it.
ReplyInv ==
    /\ \A d \in Decision : message[d] = "none" => history.delivered[d] = 0
    /\ \A w \in Worker : work[w].pc = "call" =>
         message[work[w].d] # "none" /\ history.delivered[work[w].d] = 0
    /\ \A v, w \in Worker : /\ work[v].pc = "call" /\ work[w].pc = "call"
                            /\ work[v].d = work[w].d
         => v = w
    /\ ReplyOnce

\* A decision that moved the deal has seen an older version of it, and is in
\* another stage unless the deal was brought back; whoever moved it a second
\* time has ended the review.
MoveInv ==
    /\ \A d \in Decision : decision[d].status # "none" =>
         /\ decision[d].card.version <= card.version
         /\ decision[d].card.stage # decision[d].to
    /\ \A d \in Decision : history.moved[d] > 0 =>
         /\ d \notin Undecided
         /\ decision[d].card.version < card.version
         /\ decision[d].card.stage # card.stage \/ d \in history.back
    /\ \A d \in Decision : history.moved[d] > 1 =>
         decision[d].status # "proposed"
    /\ StageMovedOnce

\* While no late write undid it, the version of the ownership only grows.
OwnerInv ==
    ~history.undone =>
        /\ history.late = {}
        /\ \A d \in Decision : decision[d].status # "none" =>
             decision[d].version <= conv.version
        /\ \A d \in history.taken : decision[d].version < conv.version

\* The worker that applied the last action is on its way to settle.
SettleInv ==
    \A d \in Decision :
        /\ spent.crashes = 0
        /\ decision[d].status = "proposed"
        /\ \E k \in Kind : action[d][k].status = "applied"
        /\ AllApplied(d)
        => \E w \in Worker : work[w].pc = "settle" /\ work[w].d = d

IInv == /\ TypeOK /\ InboundCounted /\ DecidedFirst
        /\ ReplyInv /\ MoveInv /\ OwnerInv /\ SettleInv

(***************************************************************************)
(* The parts of the invariant, by what they read.                          *)
(***************************************************************************)
LEMMA GovernedInitially == Init => IInv
<1> SUFFICES ASSUME Init
             PROVE  IInv
    OBVIOUS
<1>1. 1 \in Decision
      BY DEF Decision
<1>2. Resting \in Work
      BY <1>1 DEF Resting, Work, Conv, Owner, Kind
<1>3. /\ conv \in Conv /\ card \in Card
      /\ \A d \in Decision : decision[d] \in Made
      /\ \A d \in Decision, k \in Kind : action[d][k] \in Row
      BY DEF Init, Conv, Card, Owner, Made, Row, ActionStatus
<1>4. /\ spent \in [events : 0..MaxEvents, copies : 0..MaxFaults,
                    crashes : 0..MaxFaults, slow : 0..MaxFaults]
      /\ history \in [delivered : [Decision -> 0..2],
                      moved : [Decision -> 0..2],
                      back : SUBSET Decision, again : SUBSET Decision,
                      taken : SUBSET Decision, late : SUBSET Decision,
                      undone : BOOLEAN]
      BY DEF Init
<1>5. TypeOK
      BY <1>2, <1>3, <1>4 DEF Init, TypeOK
<1>6. InboundCounted /\ DecidedFirst /\ ReplyInv /\ MoveInv /\ OwnerInv
      BY DEF Init, InboundCounted, DecidedFirst, Undecided, ReplyInv,
             ReplyOnce, MoveInv, StageMovedOnce, OwnerInv, Resting
<1>7. SettleInv
      BY DEF Init, SettleInv
<1> QED
    BY <1>5, <1>6, <1>7 DEF IInv

(***************************************************************************)
(* A draft notes the ownership and the deal as they are.                   *)
(***************************************************************************)
LEMMA DraftKeeps ==
    ASSUME IInv, NEW d \in Decision, NEW to \in Stage, Draft(d, to)
    PROVE  IInv'
<1> USE DEF IInv, Draft
<1> DEFINE made == [status |-> "drafted", version |-> conv.version,
                    card |-> card, to |-> to, inbound |-> inbound]
<1>0. /\ made \in Made /\ decision[d] \in Made /\ decision[d].status = "none"
      /\ decision' = [decision EXCEPT ![d] = made]
      BY DEF TypeOK, Made, Conv
<1>1. /\ decision[d] \in Made /\ decision[d].status = "none"
      /\ decision'[d] \in Made /\ decision'[d].status = "drafted"
      /\ decision'[d].version = conv.version /\ decision'[d].card = card
      /\ decision'[d].to # card.stage
      /\ \A e \in Decision : e # d => decision'[e] = decision[e]
      /\ decision' \in [Decision -> Made]
      BY <1>0 DEF TypeOK
<1>2. UNCHANGED <<conv, copies, card, inbound, action, message, work, spent,
                  history>>
      OBVIOUS
<1> HIDE DEF Draft
<1>3. TypeOK' /\ InboundCounted'
      BY <1>1, <1>2 DEF TypeOK, InboundCounted
<1>4. DecidedFirst'
      BY <1>1, <1>2 DEF DecidedFirst, Undecided
<1>5. ReplyInv'
      BY <1>2 DEF ReplyInv, ReplyOnce
<1>6. MoveInv'
  <2>1. card.version \in Nat
        BY DEF TypeOK, Card
  <2> QED
      BY <1>1, <1>2, <2>1 DEF MoveInv, StageMovedOnce, Undecided
<1>7. OwnerInv'
  <2>1. conv.version \in Nat /\ d \notin history.taken
        BY <1>1 DEF TypeOK, Conv, DecidedFirst
  <2>2. \A e \in history.taken : e \in Decision /\ e # d
        BY <2>1 DEF TypeOK
  <2> QED
      BY <1>1, <1>2, <2>1, <2>2 DEF OwnerInv
<1>8. SettleInv'
      BY <1>1, <1>2 DEF SettleInv, AllApplied
<1> QED
    BY <1>3, <1>4, <1>5, <1>6, <1>7, <1>8

(***************************************************************************)
(* Who is on its way to settle a decision stays there while others work.   *)
(***************************************************************************)
LEMMA OthersSettle ==
    ASSUME IInv, NEW w \in Worker, work[w].pc # "settle",
           \A v \in Worker : v # w => work'[v] = work[v],
           \A d \in Decision : decision'[d].status = "proposed" =>
             decision[d].status = "proposed",
           UNCHANGED action, spent'.crashes = 0 => spent.crashes = 0
    PROVE  SettleInv'
<1> SUFFICES ASSUME NEW d \in Decision,
                    spent'.crashes = 0, decision'[d].status = "proposed",
                    \E k \in Kind : action[d][k].status = "applied",
                    AllApplied(d)
             PROVE  \E v \in Worker : work'[v].pc = "settle" /\ work'[v].d = d
    BY DEF SettleInv, AllApplied
<1>1. PICK v \in Worker : work[v].pc = "settle" /\ work[v].d = d
      BY DEF IInv, SettleInv
<1> QED
    BY <1>1

(***************************************************************************)
(* A worker's step that only changes what it is doing, and actions.        *)
(***************************************************************************)
LEMMA WorkKeeps ==
    ASSUME IInv, NEW w \in Worker, NEW job \in Work,
           work' = [work EXCEPT ![w] = job], job.pc # "call",
           job.pc # "rest" => job.d \notin Undecided,
           action' \in [Decision -> [Kind -> Row]],
           \A d \in Decision, k \in Kind : action'[d][k].status # "none" =>
             d \notin Undecided,
           spent' \in [events : 0..MaxEvents, copies : 0..MaxFaults,
                       crashes : 0..MaxFaults, slow : 0..MaxFaults],
           spent'.events = spent.events,
           UNCHANGED <<conv, copies, card, inbound, decision, message,
                       history>>,
           SettleInv'
    PROVE  IInv'
<1> USE DEF IInv
<1>1. /\ work' \in [Worker -> Work] /\ work'[w] = job
      /\ \A v \in Worker : v # w => work'[v] = work[v]
      BY DEF TypeOK
<1>2. TypeOK' /\ InboundCounted'
      BY <1>1 DEF TypeOK, InboundCounted
<1>3. DecidedFirst'
      BY <1>1 DEF DecidedFirst, Undecided
<1>4. ReplyInv'
      BY <1>1 DEF ReplyInv, ReplyOnce
<1>5. MoveInv' /\ OwnerInv'
      BY DEF MoveInv, StageMovedOnce, Undecided, OwnerInv
<1> QED
    BY <1>2, <1>3, <1>4, <1>5

(***************************************************************************)
(* What a worker may turn to keeps its type.                               *)
(***************************************************************************)
LEMMA OutcomeTyped ==
    ASSUME TypeOK, NEW w \in Worker,
           NEW pc \in {"finish", "fail", "settle"},
           NEW result \in {"applied", "stale", "blocked"},
           Outcome(w, pc, result)
    PROVE  \E job \in Work : /\ work' = [work EXCEPT ![w] = job]
                             /\ job.pc = pc /\ job.d = work[w].d
                             /\ job.kind = work[w].kind
                             /\ job.result = result
<1> DEFINE job == [work[w] EXCEPT !.pc = pc, !.snap = Resting.snap,
                                  !.result = result]
<1>1. work[w] \in Work
      BY DEF TypeOK
<1>2. Resting.snap \in Conv
      BY DEF Resting, Conv, Owner
<1>3. /\ job \in Work /\ job.pc = pc /\ job.d = work[w].d
      /\ job.kind = work[w].kind /\ job.result = result
      BY <1>1, <1>2 DEF Work
<1>4. work' = [work EXCEPT ![w] = job]
      BY DEF Outcome
<1> QED
    BY <1>3, <1>4

(***************************************************************************)
(* A worker that knows the outcome, and has changed nothing.               *)
(***************************************************************************)
LEMMA OutcomeKeeps ==
    ASSUME IInv, NEW w \in Worker, work[w].pc \notin {"rest", "settle"},
           \/ \E result \in {"applied", "stale", "blocked"} : End(w, result)
           \/ Abort(w),
           UNCHANGED <<conv, copies, card, inbound, decision, action, message,
                       spent,
                       history>>
    PROVE  IInv'
<1>1. PICK job \in Work : /\ work' = [work EXCEPT ![w] = job]
                          /\ job.pc \in {"finish", "fail"}
                          /\ job.d = work[w].d
  <2>1. Resting.result \in {"applied", "stale", "blocked"}
        BY DEF Resting
  <2> QED
      BY <2>1, OutcomeTyped DEF IInv, End, Abort
<1>2. \A v \in Worker : v # w => work'[v] = work[v]
      BY <1>1 DEF IInv, TypeOK
<1>3. SettleInv'
      BY <1>2, OthersSettle
<1>4. job.d \notin Undecided
      BY <1>1 DEF IInv, DecidedFirst
<1> QED
    BY <1>1, <1>3, <1>4, WorkKeeps DEF IInv, TypeOK, DecidedFirst

(***************************************************************************)
(* Claims, and claims that run out.                                        *)
(***************************************************************************)
LEMMA ClaimKeeps ==
    ASSUME IInv, NEW w \in Worker, NEW d \in Decision, NEW k \in Kind,
           Claim(w, d, k)
    PROVE  IInv'
<1> DEFINE job == [Resting EXCEPT !.pc = "claimed", !.d = d, !.kind = k]
           row == [status |-> "claimed", expired |-> FALSE]
<1>1. /\ job \in Work /\ job.pc = "claimed" /\ job.d = d
      /\ work[w].pc = "rest" /\ work' = [work EXCEPT ![w] = job]
      BY DEF Claim, Resting, Work, Conv, Owner
<1>2. /\ row \in Row /\ row.status = "claimed"
      /\ action' = [action EXCEPT ![d][k] = row]
      /\ UNCHANGED <<conv, copies, card, inbound, decision, message, spent,
                     history>>
      BY DEF Claim, Row, ActionStatus
<1> HIDE DEF job, row
<1>3. /\ action' \in [Decision -> [Kind -> Row]]
      /\ action'[d][k].status = "claimed"
      /\ \A e \in Decision, l \in Kind :
           e # d \/ l # k => action'[e][l] = action[e][l]
      BY <1>2 DEF IInv, TypeOK
<1>4. d \notin Undecided
      BY DEF Claim, IInv, DecidedFirst, Claimable
<1>5. \A v \in Worker : v # w => work'[v] = work[v]
      BY <1>1 DEF IInv, TypeOK
<1>6. SettleInv'
  <2> SUFFICES ASSUME NEW e \in Decision,
                      spent.crashes = 0, decision[e].status = "proposed",
                      \E l \in Kind : action'[e][l].status = "applied",
                      AllApplied(e)'
               PROVE  \E v \in Worker : work'[v].pc = "settle" /\ work'[v].d = e
      BY <1>2 DEF SettleInv
  <2>1. e # d
        BY <1>3 DEF AllApplied
  <2>2. AllApplied(e) /\ \E l \in Kind : action[e][l].status = "applied"
        BY <1>3, <2>1 DEF AllApplied
  <2>3. PICK v \in Worker : work[v].pc = "settle" /\ work[v].d = e
        BY <2>2 DEF IInv, SettleInv
  <2> QED
      BY <1>1, <1>5, <2>3
<1>7. \A e \in Decision, l \in Kind : action'[e][l].status # "none" =>
        e \notin Undecided
      BY <1>3, <1>4 DEF IInv, DecidedFirst
<1> QED
    BY <1>1, <1>2, <1>3, <1>4, <1>6, <1>7, WorkKeeps DEF IInv, TypeOK

LEMMA ClaimRunsOutKeeps ==
    ASSUME IInv, NEW d \in Decision, NEW k \in Kind, ClaimRunsOut(d, k)
    PROVE  IInv'
<1> DEFINE row == [action[d][k] EXCEPT !.expired = TRUE]
<1> USE DEF IInv
<1>1. row \in Row /\ row.status = action[d][k].status
  <2>1. action[d][k] \in Row
        BY DEF TypeOK
  <2> HIDE DEF IInv
  <2> QED
      BY <2>1 DEF Row
<1>2. /\ action' = [action EXCEPT ![d][k] = row]
      /\ UNCHANGED <<conv, copies, card, inbound, decision, message, work,
                     history>>
      BY DEF ClaimRunsOut
<1> HIDE DEF row
<1>3. /\ action' \in [Decision -> [Kind -> Row]]
      /\ \A e \in Decision, l \in Kind :
           action'[e][l].status = action[e][l].status
  <2>1. action \in [Decision -> [Kind -> Row]]
        BY DEF TypeOK
  <2> HIDE DEF IInv
  <2> QED
      BY <1>1, <1>2, <2>1
<1>4. /\ spent' \in [events : 0..MaxEvents, copies : 0..MaxFaults,
                     crashes : 0..MaxFaults, slow : 0..MaxFaults]
      /\ spent'.events = spent.events /\ spent'.crashes = spent.crashes
      BY DEF TypeOK, ClaimRunsOut, Faults
<1>5. TypeOK' /\ InboundCounted'
      BY <1>2, <1>3, <1>4 DEF TypeOK, InboundCounted
<1>6. DecidedFirst'
      BY <1>2, <1>3 DEF DecidedFirst, Undecided
<1>7. (ReplyInv /\ MoveInv /\ OwnerInv)'
      BY <1>2 DEF ReplyInv, ReplyOnce, MoveInv, StageMovedOnce, Undecided,
                  OwnerInv
<1>8. SettleInv'
      BY <1>2, <1>3, <1>4 DEF SettleInv, AllApplied
<1> QED
    BY <1>5, <1>6, <1>7, <1>8

(***************************************************************************)
(* A worker looks at the conversation, and goes on or ends.                *)
(***************************************************************************)
LEMMA GotoKeeps ==
    ASSUME IInv, NEW w \in Worker, NEW job \in Work,
           work' = [work EXCEPT ![w] = job],
           work[w].pc \notin {"rest", "settle"},
           job.pc # "call", job.d = work[w].d,
           UNCHANGED <<conv, copies, card, inbound, decision, action, message,
                       spent,
                       history>>
    PROVE  IInv'
<1>1. \A v \in Worker : v # w => work'[v] = work[v]
      BY DEF IInv, TypeOK
<1>2. SettleInv'
      BY <1>1, OthersSettle
<1>3. job.d \notin Undecided
      BY DEF IInv, DecidedFirst
<1> QED
    BY <1>2, <1>3, WorkKeeps DEF IInv, TypeOK, DecidedFirst

LEMMA ExamineKeeps ==
    ASSUME IInv, NEW w \in Worker, Examine(w)
    PROVE  IInv'
<1>1. CASE End(w, "blocked") \/ End(w, "stale")
      BY <1>1, OutcomeKeeps DEF Examine
<1>2. CASE Goto(w, work[w].kind)
  <2> DEFINE job == [work[w] EXCEPT !.pc = work[w].kind]
  <2>1. work[w] \in Work
        BY DEF IInv, TypeOK
  <2>2. /\ job \in Work /\ job.pc # "call" /\ job.d = work[w].d
        BY <2>1 DEF Work, Kind
  <2>3. work' = [work EXCEPT ![w] = job]
        BY <1>2 DEF Goto
  <2> HIDE DEF job
  <2> QED
      BY <2>2, <2>3, GotoKeeps DEF Examine
<1> QED
    BY <1>1, <1>2 DEF Examine

LEMMA PrepareKeeps ==
    ASSUME IInv, NEW w \in Worker, PrepareReply(w)
    PROVE  IInv'
<1>1. CASE End(w, "applied") \/ Abort(w)
      BY <1>1, OutcomeKeeps DEF PrepareReply
<1>2. CASE work' = [work EXCEPT ![w].pc = "persist", ![w].snap = conv]
  <2> DEFINE job == [work[w] EXCEPT !.pc = "persist", !.snap = conv]
  <2>1. work[w] \in Work /\ conv \in Conv
        BY DEF IInv, TypeOK
  <2>2. job \in Work /\ job.pc # "call" /\ job.d = work[w].d
        BY <2>1 DEF Work
  <2>3. work' = [work EXCEPT ![w] = job]
        BY <1>2
  <2> HIDE DEF job
  <2> QED
      BY <2>2, <2>3, GotoKeeps DEF PrepareReply
<1> QED
    BY <1>1, <1>2 DEF PrepareReply

(***************************************************************************)
(* The message is stored once: a single worker gets to call the provider.  *)
(***************************************************************************)
LEMMA PersistKeeps ==
    ASSUME IInv, NEW w \in Worker, Persist(w)
    PROVE  IInv'
<1> DEFINE d == work[w].d
           job == [work[w] EXCEPT !.pc = "call"]
<1>1. CASE ~KeyFree(d)
      BY <1>1, OutcomeKeeps DEF Persist
<1>2. CASE KeyFree(d)
  <2> USE <1>2 DEF IInv
  <2>1. /\ work[w] \in Work /\ d \in Decision /\ message[d] = "none"
        /\ work[w].pc = "persist"
        /\ message' = [message EXCEPT ![d] = "pending"]
        /\ work' = [work EXCEPT ![w] = job]
        /\ UNCHANGED <<conv, copies, card, inbound, decision, action, spent,
                       history>>
        BY DEF TypeOK, Work, KeyFree, Persist, Goto
  <2>2. /\ work'[w].pc = "call" /\ work'[w].d = d
        /\ \A v \in Worker : v # w => work'[v] = work[v]
        /\ work' \in [Worker -> Work]
        BY <2>1 DEF TypeOK, Work
  <2>3. TypeOK' /\ InboundCounted'
        BY <2>1, <2>2 DEF TypeOK, InboundCounted
  <2>4. DecidedFirst'
        BY <2>1, <2>2 DEF DecidedFirst, Undecided
  <2>5. ReplyInv'
        BY <2>1, <2>2 DEF ReplyInv, ReplyOnce, TypeOK
  <2>6. (MoveInv /\ OwnerInv)'
        BY <2>1 DEF MoveInv, StageMovedOnce, Undecided, OwnerInv
  <2>7. SettleInv'
        BY <2>1, <2>2, OthersSettle
  <2> QED
      BY <2>3, <2>4, <2>5, <2>6, <2>7
<1> QED
    BY <1>1, <1>2

(***************************************************************************)
(* The one call for a stored message delivers it at most once.             *)
(***************************************************************************)
LEMMA CallKeeps ==
    ASSUME IInv, NEW w \in Worker, CallProvider(w)
    PROVE  IInv'
<1> DEFINE d == work[w].d
<1> USE DEF IInv
<1>1. /\ work[w] \in Work /\ work[w].pc = "call" /\ d \in Decision
      /\ d \notin Undecided
      /\ message[d] # "none" /\ history.delivered[d] = 0
      BY DEF CallProvider, TypeOK, Work, ReplyInv, DecidedFirst
<1>2. \E job \in Work : /\ work' = [work EXCEPT ![w] = job]
                        /\ job.pc \in {"confirm", "fail"} /\ job.d = d
  <2>1. CASE Abort(w)
    <3>1. Resting.result \in {"applied", "stale", "blocked"}
          BY DEF Resting
    <3> QED
        BY <2>1, <3>1, OutcomeTyped DEF Abort
  <2>2. CASE Goto(w, "confirm")
    <3> DEFINE job == [work[w] EXCEPT !.pc = "confirm"]
    <3>1. job \in Work /\ job.pc = "confirm" /\ job.d = d
          BY <1>1 DEF Work
    <3>2. work' = [work EXCEPT ![w] = job]
          BY <2>2 DEF Goto
    <3> QED
        BY <3>1, <3>2
  <2> QED
      BY <2>1, <2>2 DEF CallProvider
<1>3. /\ work' \in [Worker -> Work] /\ work'[w].pc \in {"confirm", "fail"}
      /\ work'[w].d = d
      /\ \A v \in Worker : v # w => work'[v] = work[v]
      BY <1>2 DEF TypeOK
<1>4. /\ message' \in [Decision -> {"none", "pending", "sent", "failed"}]
      /\ \A e \in Decision : message'[e] = "none" => message[e] = "none"
      BY <1>1 DEF TypeOK, CallProvider
<1>5. /\ history' \in [delivered : [Decision -> 0..2],
                       moved : [Decision -> 0..2],
                       back : SUBSET Decision, again : SUBSET Decision,
                       taken : SUBSET Decision, late : SUBSET Decision,
                       undone : BOOLEAN]
      /\ history'.delivered[d] \in 0..1
      /\ \A e \in Decision : e # d =>
           history'.delivered[e] = history.delivered[e]
      /\ history'.moved = history.moved /\ history'.taken = history.taken
      /\ history'.back = history.back /\ history'.again = history.again
      /\ history'.late = history.late /\ history'.undone = history.undone
  <2>1. CASE history' = history
        BY <1>1, <2>1 DEF TypeOK
  <2>2. CASE history' = [history EXCEPT !.delivered[d] = @ + 1]
    <3>1. /\ history \in [delivered : [Decision -> 0..2],
                          moved : [Decision -> 0..2],
                          back : SUBSET Decision, again : SUBSET Decision,
                          taken : SUBSET Decision, late : SUBSET Decision,
                          undone : BOOLEAN]
          BY DEF TypeOK
    <3> HIDE DEF IInv
    <3> QED
        BY <1>1, <2>2, <3>1
  <2> QED
      BY <2>1, <2>2 DEF CallProvider
<1>6. UNCHANGED <<conv, copies, card, inbound, decision, action, spent>>
      BY DEF CallProvider
<1>7. TypeOK' /\ InboundCounted'
      BY <1>3, <1>4, <1>5, <1>6 DEF TypeOK, InboundCounted
<1>8. DecidedFirst'
      BY <1>1, <1>3, <1>5, <1>6 DEF DecidedFirst, Undecided
<1>9. ReplyInv'
  <2>1. \A e \in Decision : message'[e] = "none" =>
          history'.delivered[e] = 0
        BY <1>1, <1>4, <1>5 DEF ReplyInv, CallProvider, TypeOK
  <2>2. \A v \in Worker : work'[v].pc = "call" =>
          v # w /\ work[v].pc = "call" /\ work[v].d # d
        BY <1>1, <1>3 DEF ReplyInv
  <2>3. \A v \in Worker : work'[v].pc = "call" =>
          message'[work'[v].d] # "none" /\ history'.delivered[work'[v].d] = 0
    <3>1. \A v \in Worker : work[v].d \in Decision
          BY DEF TypeOK, Work
    <3> QED
        BY <1>3, <1>4, <1>5, <2>2, <3>1 DEF ReplyInv
  <2>4. ReplyOnce'
        BY <1>5 DEF ReplyInv, ReplyOnce
  <2> QED
      BY <1>3, <2>1, <2>2, <2>3, <2>4 DEF ReplyInv
<1>10. (MoveInv /\ OwnerInv)'
      BY <1>5, <1>6 DEF MoveInv, StageMovedOnce, Undecided, OwnerInv
<1>11. SettleInv'
      BY <1>1, <1>3, <1>6, OthersSettle
<1> QED
    BY <1>7, <1>8, <1>9, <1>10, <1>11

(***************************************************************************)
(* A save writes what it was given, or leaves a mixture of two owners.     *)
(***************************************************************************)
LEMMA SavedFacts ==
    ASSUME TypeOK, NEW read \in Conv, NEW written \in Conv,
           conv' \in Saved(read, written)
    PROVE  conv' \in Conv /\ (read = conv => conv' = written)
<1>1. conv \in Conv
      BY DEF TypeOK
<1>2. CASE read = conv
      BY <1>2 DEF Saved
<1>3. CASE read # conv
      BY <1>1, <1>3 DEF Saved, Conv
<1> QED
    BY <1>2, <1>3

(***************************************************************************)
(* A late confirmation may undo the ownership, and is then on record.      *)
(***************************************************************************)
LEMMA ConfirmKeeps ==
    ASSUME IInv, NEW w \in Worker, ConfirmReply(w)
    PROVE  IInv'
<1> DEFINE d == work[w].d
<1> USE DEF IInv
<1>1. /\ work[w] \in Work /\ work[w].pc = "confirm" /\ d \in Decision
      /\ d \notin Undecided /\ work[w].snap \in Conv
      BY DEF ConfirmReply, TypeOK, Work, DecidedFirst
<1>2. \E job \in Work : /\ work' = [work EXCEPT ![w] = job]
                        /\ job.pc = "finish" /\ job.d = d
      BY OutcomeTyped DEF ConfirmReply, End
<1>3. /\ work' \in [Worker -> Work] /\ work'[w].pc = "finish"
      /\ work'[w].d = d
      /\ \A v \in Worker : v # w => work'[v] = work[v]
      BY <1>2 DEF TypeOK
<1>4. /\ message' \in [Decision -> {"none", "pending", "sent", "failed"}]
      /\ \A e \in Decision : message'[e] = "none" => message[e] = "none"
      BY <1>1 DEF TypeOK, ConfirmReply
<1>5. /\ history' \in [delivered : [Decision -> 0..2],
                       moved : [Decision -> 0..2],
                       back : SUBSET Decision, again : SUBSET Decision,
                       taken : SUBSET Decision, late : SUBSET Decision,
                       undone : BOOLEAN]
      /\ history'.delivered = history.delivered
      /\ history'.moved = history.moved /\ history'.taken = history.taken
      /\ history'.back = history.back /\ history'.again = history.again
      /\ history'.late = history.late
      /\ history'.back = history.back /\ history'.again = history.again
      /\ ~history'.undone => ~history.undone /\ conv = work[w].snap
      BY DEF TypeOK, ConfirmReply
<1>6. /\ conv' \in Conv /\ (conv = work[w].snap => conv' = conv)
      /\ UNCHANGED <<copies, card, inbound, decision, action, spent>>
      BY <1>1, SavedFacts DEF ConfirmReply
<1>7. TypeOK' /\ InboundCounted'
      BY <1>3, <1>4, <1>5, <1>6 DEF TypeOK, InboundCounted
<1>8. DecidedFirst'
      BY <1>1, <1>3, <1>5, <1>6 DEF DecidedFirst, Undecided
<1>9. ReplyInv'
  <2>1. \A v \in Worker : work'[v].pc = "call" => v # w
        BY <1>3
  <2>2. \A v \in Worker : work[v].d \in Decision
        BY DEF TypeOK, Work
  <2> QED
      BY <1>3, <1>4, <1>5, <2>1, <2>2 DEF ReplyInv, ReplyOnce
<1>10. MoveInv'
      BY <1>5, <1>6 DEF MoveInv, StageMovedOnce, Undecided
<1>11. OwnerInv'
      BY <1>5, <1>6 DEF OwnerInv
<1>12. SettleInv'
      BY <1>1, <1>3, <1>6, OthersSettle
<1> QED
    BY <1>7, <1>8, <1>9, <1>10, <1>11, <1>12

(***************************************************************************)
(* The deal is moved from the stage the proposal saw, for an ownership     *)
(* that has not moved on.                                                  *)
(***************************************************************************)
LEMMA ApplyKeeps ==
    ASSUME IInv, NEW w \in Worker, ApplyStage(w)
    PROVE  IInv'
<1> DEFINE d == work[w].d
<1> USE DEF IInv
<1>1. CASE ~StillApplies(d)
      BY <1>1, OutcomeKeeps DEF ApplyStage
<1>2. CASE StillApplies(d)
  <2>1. /\ work[w] \in Work /\ work[w].pc = "set_stage" /\ d \in Decision
        /\ d \notin Undecided
        BY DEF ApplyStage, TypeOK, Work, DecidedFirst
  <2>2. \E job \in Work : /\ work' = [work EXCEPT ![w] = job]
                          /\ job.pc = "finish" /\ job.d = d
        BY <1>2, OutcomeTyped DEF ApplyStage, End
  <2>3. /\ work' \in [Worker -> Work] /\ work'[w].pc = "finish"
        /\ work'[w].d = d
        /\ \A v \in Worker : v # w => work'[v] = work[v]
        BY <2>2 DEF TypeOK
  <2>4. /\ card.version \in Nat /\ card.version = decision[d].card.version
        /\ card.stage = decision[d].card.stage
        /\ card'.version = card.version + 1 /\ card'.stage = decision[d].to
        /\ card' \in Card
        /\ UNCHANGED <<conv, copies, inbound, decision, action, message, spent>>
    <3>1. decision[d] \in Made /\ card \in Card
          BY <2>1 DEF TypeOK
    <3> QED
        BY <1>2, <3>1 DEF ApplyStage, Card, Made, StillApplies, DealUnmoved
  <2>5. history.moved \in [Decision -> 0..2] /\ history.moved[d] = 0
        BY <2>1, <2>4 DEF TypeOK, MoveInv
  <2>6. history.undone \/ d \notin history.taken
        BY <1>2 DEF OwnerInv, StillApplies, Agrees, TypeOK, Conv, Made
  <2>7. /\ history' \in [delivered : [Decision -> 0..2],
                         moved : [Decision -> 0..2],
                         back : SUBSET Decision, again : SUBSET Decision,
                         taken : SUBSET Decision, late : SUBSET Decision,
                         undone : BOOLEAN]
        /\ history'.delivered = history.delivered
        /\ history'.moved[d] = 1
        /\ \A e \in Decision : e # d => history'.moved[e] = history.moved[e]
        /\ history'.taken = history.taken
        /\ history'.back = history.back \cup Left(decision[d].to)
        /\ history'.again = history.again
        /\ history'.undone = history.undone
        /\ history.undone \/ history'.late = history.late
    <3>1. /\ history \in [delivered : [Decision -> 0..2],
                          moved : [Decision -> 0..2],
                          back : SUBSET Decision, again : SUBSET Decision,
                          taken : SUBSET Decision, late : SUBSET Decision,
                          undone : BOOLEAN]
          BY DEF TypeOK
    <3> DEFINE late == IF d \in history.taken THEN history.late \cup {d}
                       ELSE history.late
               moved == [history.moved EXCEPT ![d] = @ + 1]
               back == history.back \cup Left(decision[d].to)
    <3>2. history' = [history EXCEPT !.moved = moved, !.back = back,
                                     !.again = history.again, !.late = late]
          BY <1>2, <2>5 DEF ApplyStage
    <3> HIDE DEF IInv
    <3>5. back \in SUBSET Decision
          BY <3>1 DEF Left
    <3>3. late \in SUBSET Decision /\ (history.undone \/ late = history.late)
          BY <2>1, <2>6, <3>1
    <3>4. /\ moved \in [Decision -> 0..2] /\ moved[d] = 1
          /\ \A e \in Decision : e # d => moved[e] = history.moved[e]
          BY <2>1, <2>5
    <3> HIDE DEF late, moved, back
    <3> QED
        BY <3>1, <3>2, <3>3, <3>4, <3>5 DEF back
  <2>8. TypeOK' /\ InboundCounted'
        BY <2>3, <2>4, <2>7 DEF TypeOK, InboundCounted
  <2>9. DecidedFirst'
        BY <2>1, <2>3, <2>4, <2>7 DEF DecidedFirst, Undecided
  <2>10. ReplyInv'
        BY <2>3, <2>4, <2>7 DEF ReplyInv, ReplyOnce
  <2>11. MoveInv'
    <3>1. \A e \in Decision : decision[e].card.version \in Nat
          BY DEF TypeOK, Made, Card
    <3>2. history.moved \in [Decision -> 0..2]
          BY DEF TypeOK
    <3>3. decision[d].status # "none"
          BY <2>1 DEF Undecided
    <3>4. \A e \in Decision : history'.moved[e] > 0 =>
            \/ decision[e].card.stage # card'.stage
            \/ e \in history'.back
          BY <2>1, <2>4, <2>7, <3>3 DEF MoveInv, Left
    <3>5. StageMovedOnce'
          BY <2>1, <2>7, <3>2 DEF MoveInv, StageMovedOnce
    <3> QED
        BY <2>1, <2>4, <2>7, <3>1, <3>2, <3>3, <3>4, <3>5
           DEF MoveInv, Undecided
  <2>12. OwnerInv'
        BY <2>4, <2>7 DEF OwnerInv
  <2>13. SettleInv'
        BY <2>1, <2>3, <2>4, OthersSettle
  <2> QED
      BY <2>8, <2>9, <2>10, <2>11, <2>12, <2>13
<1> QED
    BY <1>1, <1>2

(***************************************************************************)
(* Nobody proposes again what the ownership has invalidated.               *)
(***************************************************************************)
LEMMA InvalidatedFacts ==
    ASSUME TypeOK
    PROVE  /\ Invalidated \in [Decision -> Made]
           /\ \A d \in Decision :
                /\ Invalidated[d].version = decision[d].version
                /\ Invalidated[d].card = decision[d].card
                /\ Invalidated[d].to = decision[d].to
                /\ Invalidated[d].status \in {"none", "drafted"}
                     <=> decision[d].status \in {"none", "drafted"}
                /\ Invalidated[d].status = "none"
                     <=> decision[d].status = "none"
                /\ Invalidated[d].status # "proposed"
<1> SUFFICES ASSUME NEW d \in Decision
             PROVE  /\ Invalidated[d] \in Made
                    /\ Invalidated[d].version = decision[d].version
                    /\ Invalidated[d].card = decision[d].card
                    /\ Invalidated[d].to = decision[d].to
                    /\ Invalidated[d].status \in {"none", "drafted"}
                         <=> decision[d].status \in {"none", "drafted"}
                    /\ Invalidated[d].status = "none"
                         <=> decision[d].status = "none"
                    /\ Invalidated[d].status # "proposed"
    BY DEF Invalidated
<1>1. decision[d] \in Made
      BY DEF TypeOK
<1> QED
    BY <1>1 DEF Invalidated, Made

(***************************************************************************)
(* A handoff starts the next version of the ownership.                     *)
(***************************************************************************)
LEMMA HandoffKeeps ==
    ASSUME IInv, NEW w \in Worker, Handoff(w)
    PROVE  IInv'
<1> DEFINE d == work[w].d
<1> USE DEF IInv
<1>1. CASE conv.owner = "handoff_requested"
      BY <1>1, OutcomeKeeps DEF Handoff
<1>2. CASE conv.owner # "handoff_requested"
  <2>1. /\ work[w] \in Work /\ work[w].pc = "handoff" /\ d \in Decision
        /\ d \notin Undecided
        BY DEF Handoff, TypeOK, Work, DecidedFirst
  <2>2. \E job \in Work : /\ work' = [work EXCEPT ![w] = job]
                          /\ job.pc = "finish" /\ job.d = d
        BY OutcomeTyped DEF Handoff, End
  <2>3. /\ work' \in [Worker -> Work] /\ work'[w].pc = "finish"
        /\ work'[w].d = d
        /\ \A v \in Worker : v # w => work'[v] = work[v]
        BY <2>2 DEF TypeOK
  <2>4. /\ conv.version \in Nat /\ conv'.version = conv.version + 1
        /\ conv' \in Conv /\ decision' = Invalidated
        /\ UNCHANGED <<copies, card, inbound, action, message, spent, history>>
        BY <1>2 DEF Handoff, TypeOK, Conv, Owner
  <2>5. TypeOK' /\ InboundCounted'
        BY <2>3, <2>4, InvalidatedFacts DEF TypeOK, InboundCounted
  <2>6. DecidedFirst'
        BY <2>1, <2>3, <2>4, InvalidatedFacts DEF DecidedFirst, Undecided
  <2>7. ReplyInv'
        BY <2>3, <2>4 DEF ReplyInv, ReplyOnce
  <2>8. MoveInv'
        BY <2>4, InvalidatedFacts DEF MoveInv, StageMovedOnce, Undecided
  <2>9. OwnerInv'
    <3>1. /\ \A e \in Decision : decision[e].version \in Nat
          /\ history.taken \subseteq Decision
          BY DEF TypeOK, Made
    <3> QED
        BY <2>4, <3>1, InvalidatedFacts DEF OwnerInv
  <2>10. SettleInv'
        BY <2>4, InvalidatedFacts DEF SettleInv
  <2> QED
      BY <2>5, <2>6, <2>7, <2>8, <2>9, <2>10
<1> QED
    BY <1>1, <1>2

(***************************************************************************)
(* Whoever saves an action's outcome settles the decision next, or has     *)
(* saved a failure.                                                        *)
(***************************************************************************)
LEMMA FinishKeeps ==
    ASSUME IInv, NEW w \in Worker, Finish(w) \/ Fail(w)
    PROVE  IInv'
<1> DEFINE d == work[w].d
           kind == work[w].kind
<1> USE DEF IInv
<1>1. /\ work[w] \in Work /\ work[w].pc \in {"finish", "fail"}
      /\ d \in Decision /\ kind \in Kind
      /\ d \notin Undecided
      /\ UNCHANGED <<conv, copies, card, inbound, decision, message, spent,
                     history>>
      BY DEF Finish, Fail, TypeOK, Work, DecidedFirst
<1>2. Resting \in Work /\ Resting.pc = "rest"
  <2>1. 1 \in Decision
        BY <1>1 DEF Decision
  <2> QED
      BY <2>1 DEF Resting, Work, Conv, Owner, Kind
<1>3. PICK row \in Row : action' = [action EXCEPT ![d][kind] = row]
  <2>1. work[w].result \in {"applied", "stale", "blocked"}
        BY <1>1 DEF Work
  <2>2. CASE Finish(w)
    <3>1. [status |-> work[w].result, expired |-> FALSE] \in Row
          BY <2>1 DEF Row, ActionStatus
    <3> QED
        BY <2>2, <3>1 DEF Finish
  <2>3. CASE Fail(w)
    <3>1. [status |-> "failed", expired |-> FALSE] \in Row
          BY DEF Row, ActionStatus
    <3> QED
        BY <2>3, <3>1 DEF Fail
  <2> QED
      BY <2>2, <2>3
<1>4. /\ action' \in [Decision -> [Kind -> Row]]
      /\ \A e \in Decision, l \in Kind : e # d => action'[e][l] = action[e][l]
      /\ action'[d][kind] = row
  <2>1. action \in [Decision -> [Kind -> Row]]
        BY DEF TypeOK
  <2> HIDE DEF IInv
  <2> QED
      BY <1>1, <1>3, <2>1
<1>5. \E job \in Work :
        /\ work' = [work EXCEPT ![w] = job]
        /\ \/ job.pc = "settle" /\ job.d = d
           \/ job.pc = "rest" /\ row.status = "failed"
  <2>1. CASE Finish(w)
    <3>1. Resting.result \in {"applied", "stale", "blocked"}
          BY DEF Resting
    <3> QED
        BY <2>1, <3>1, OutcomeTyped DEF Finish
  <2>2. CASE Fail(w)
    <3>1. row.status = "failed"
      <4>1. action' = [action EXCEPT ![d][kind] =
                         [status |-> "failed", expired |-> FALSE]]
            BY <2>2 DEF Fail
      <4>2. action'[d][kind] = [status |-> "failed", expired |-> FALSE]
            BY <1>1, <4>1 DEF TypeOK
      <4> QED
          BY <1>4, <4>2
    <3> QED
        BY <1>2, <2>2, <3>1 DEF Fail
  <2> QED
      BY <2>1, <2>2
<1>6. PICK job \in Work :
        /\ work' = [work EXCEPT ![w] = job]
        /\ \/ job.pc = "settle" /\ job.d = d
           \/ job.pc = "rest" /\ row.status = "failed"
      BY <1>5
<1>7. /\ \A v \in Worker : v # w => work'[v] = work[v]
      /\ work'[w] = job
      BY <1>6 DEF TypeOK
<1>8. SettleInv'
  <2> SUFFICES ASSUME NEW e \in Decision,
                      spent.crashes = 0, decision[e].status = "proposed",
                      \E l \in Kind : action'[e][l].status = "applied",
                      AllApplied(e)'
               PROVE  \E v \in Worker : work'[v].pc = "settle" /\ work'[v].d = e
      BY <1>1 DEF SettleInv
  <2>1. CASE e = d
        BY <1>1, <1>4, <1>6, <1>7, <2>1 DEF AllApplied
  <2>2. CASE e # d
    <3>1. AllApplied(e) /\ \E l \in Kind : action[e][l].status = "applied"
          BY <1>4, <2>2 DEF AllApplied
    <3>2. PICK v \in Worker : work[v].pc = "settle" /\ work[v].d = e
          BY <3>1 DEF SettleInv
    <3> QED
        BY <1>1, <1>7, <3>2
  <2> QED
      BY <2>1, <2>2
<1>9. \A e \in Decision, l \in Kind : action'[e][l].status # "none" =>
        e \notin Undecided
      BY <1>1, <1>4 DEF DecidedFirst
<1> QED
    BY <1>1, <1>4, <1>6, <1>8, <1>9, WorkKeeps DEF TypeOK

(***************************************************************************)
(* Settling: the decision is approved, or still has an action to go.       *)
(***************************************************************************)
LEMMA SettleKeeps ==
    ASSUME IInv, NEW w \in Worker, SettleDecision(w)
    PROVE  IInv'
<1> DEFINE d == work[w].d
<1> USE DEF IInv
<1>1. /\ d \in Decision /\ work[w].pc = "settle" /\ d \notin Undecided
      /\ UNCHANGED <<conv, copies, card, inbound, action, message, spent,
                     history>>
      BY DEF SettleDecision, TypeOK, Work, DecidedFirst
<1>2. Resting \in Work /\ Resting.pc = "rest"
  <2>1. 1 \in Decision
        BY <1>1 DEF Decision
  <2> QED
      BY <2>1 DEF Resting, Work, Conv, Owner, Kind
<1>3. /\ work' \in [Worker -> Work] /\ work'[w].pc = "rest"
      /\ \A v \in Worker : v # w => work'[v] = work[v]
      BY <1>2 DEF SettleDecision, TypeOK
<1>4. /\ decision' \in [Decision -> Made]
      /\ \A e \in Decision :
           /\ decision'[e].version = decision[e].version
           /\ decision'[e].card = decision[e].card
           /\ decision'[e].to = decision[e].to
           /\ decision'[e].status \in {"none", "drafted"}
                <=> decision[e].status \in {"none", "drafted"}
           /\ decision'[e].status = "none" <=> decision[e].status = "none"
           /\ decision'[e].status = "proposed" =>
                decision[e].status = "proposed" /\ (e = d => ~AllApplied(d))
  <2>1. \A e \in Decision : decision[e] \in Made
        BY DEF TypeOK
  <2>2. CASE decision[d].status = "proposed" /\ AllApplied(d)
    <3> DEFINE row == [decision[d] EXCEPT !.status = "approved"]
    <3>1. /\ row \in Made /\ row.status = "approved"
          /\ row.version = decision[d].version /\ row.card = decision[d].card
          /\ row.to = decision[d].to
          BY <1>1, <2>1 DEF Made
    <3>2. decision' = [decision EXCEPT ![d] = row]
          BY <2>2 DEF SettleDecision
    <3> HIDE DEF row
    <3> QED
        BY <1>1, <2>2, <3>1, <3>2 DEF TypeOK
  <2>3. CASE ~(decision[d].status = "proposed" /\ AllApplied(d))
        BY <2>1, <2>3 DEF SettleDecision, TypeOK
  <2> QED
      BY <2>2, <2>3
<1>5. TypeOK' /\ InboundCounted'
      BY <1>1, <1>3, <1>4 DEF TypeOK, InboundCounted
<1>6. DecidedFirst'
      BY <1>1, <1>3, <1>4 DEF DecidedFirst, Undecided
<1>7. ReplyInv'
      BY <1>1, <1>3 DEF ReplyInv, ReplyOnce
<1>8. (MoveInv /\ OwnerInv)'
  <2>1. history.taken \subseteq Decision
        BY DEF TypeOK
  <2> QED
      BY <1>1, <1>4, <2>1 DEF MoveInv, StageMovedOnce, Undecided, OwnerInv
<1>9. SettleInv'
  <2> SUFFICES ASSUME NEW e \in Decision,
                      spent.crashes = 0, decision'[e].status = "proposed",
                      \E k \in Kind : action[e][k].status = "applied",
                      AllApplied(e)
               PROVE  \E v \in Worker : work'[v].pc = "settle" /\ work'[v].d = e
      BY <1>1 DEF SettleInv, AllApplied
  <2>1. PICK v \in Worker : work[v].pc = "settle" /\ work[v].d = e
        BY <1>4 DEF SettleInv
  <2> QED
      BY <1>3, <1>4, <2>1
<1> QED
    BY <1>5, <1>6, <1>7, <1>8, <1>9

(***************************************************************************)
(* The plan is written once, and nothing in it is done yet.                *)
(***************************************************************************)
LEMMA DecideKeeps ==
    ASSUME IInv, NEW d \in Decision, NEW plan \in Plans, Decide(d, plan)
    PROVE  IInv'
<1> USE DEF IInv
<1> DEFINE kinds == [k \in Kind |->
                      [status |-> IF plan[k] # "none"
                                       /\ inbound # decision[d].inbound
                                  THEN "stale" ELSE plan[k],
                       expired |-> FALSE]]
<1>1. /\ decision[d].status = "drafted" /\ d \in Undecided
      /\ UNCHANGED <<conv, copies, card, inbound, message, work, spent,
                     history>>
      BY DEF Decide, Undecided
<1>2. /\ kinds \in [Kind -> Row]
      /\ \A k \in Kind : kinds[k].status # "applied"
  <2> SUFFICES ASSUME NEW k \in Kind
               PROVE  kinds[k] \in Row /\ kinds[k].status # "applied"
      OBVIOUS
  <2>1. plan[k] \in {"none", "planned", "requires_human"}
        BY DEF Kind
  <2> QED
      BY <2>1 DEF Row, ActionStatus
<1> HIDE DEF kinds
<1>3. /\ action' \in [Decision -> [Kind -> Row]]
      /\ \A e \in Decision : e # d => action'[e] = action[e]
      /\ \A k \in Kind : \/ action'[d][k].status # "applied"
                         \/ decision'[d].status = "cancelled"
  <2>1. CASE Agrees(d, conv)
    <3>1. action' = [action EXCEPT ![d] = kinds]
          BY <2>1 DEF Decide, kinds
    <3> QED
        BY <1>2, <3>1 DEF TypeOK
  <2>2. CASE ~Agrees(d, conv)
    <3>1. decision[d] \in Made
          BY DEF TypeOK
    <3>2. /\ decision' = [decision EXCEPT ![d].status = "cancelled"]
          /\ action' = action
          BY <2>2 DEF Decide
    <3>3. decision'[d].status = "cancelled"
          BY <3>1, <3>2 DEF TypeOK, Made
    <3> QED
        BY <3>2, <3>3 DEF TypeOK
  <2> QED
      BY <2>1, <2>2
<1>4. /\ decision' \in [Decision -> Made]
      /\ \A e \in Decision : e # d => decision'[e] = decision[e]
      /\ decision'[d].version = decision[d].version
      /\ decision'[d].card = decision[d].card
      /\ decision'[d].to = decision[d].to
      /\ decision'[d].status \in {"proposed", "cancelled"}
      /\ \/ decision'[d].status = "proposed"
         \/ decision'[d].status = "cancelled" /\ action' = action
  <2>1. decision[d] \in Made
        BY DEF TypeOK
  <2>2. PICK status \in {"proposed", "cancelled"} :
          /\ decision' = [decision EXCEPT ![d].status = status]
          /\ status = "cancelled" => action' = action
        BY DEF Decide
  <2> DEFINE made == [decision[d] EXCEPT !.status = status]
  <2>3. /\ made \in Made /\ made.status = status
        /\ made.version = decision[d].version /\ made.card = decision[d].card
        /\ made.to = decision[d].to
        BY <2>1 DEF Made
  <2>4. decision' = [decision EXCEPT ![d] = made]
        BY <2>2
  <2> HIDE DEF made
  <2>5. decision \in [Decision -> Made]
        BY DEF TypeOK
  <2>6. /\ decision' \in [Decision -> Made] /\ decision'[d] = made
        /\ \A e \in Decision : e # d => decision'[e] = decision[e]
        BY <2>3, <2>4, <2>5
  <2> QED
      BY <2>2, <2>3, <2>6
<1>5. TypeOK' /\ InboundCounted'
      BY <1>1, <1>3, <1>4 DEF TypeOK, InboundCounted
<1>6. DecidedFirst'
  <2>1. Undecided' = Undecided \ {d}
        BY <1>4 DEF Undecided
  <2>2. \A e \in Decision, k \in Kind : action'[e][k].status # "none" =>
          e \notin Undecided'
        BY <1>3, <2>1 DEF DecidedFirst
  <2>3. \A w \in Worker : work[w].pc # "rest" => work[w].d \notin Undecided'
        BY <2>1 DEF DecidedFirst
  <2>4. \A e \in Decision : decision'[e].status = "none" =>
          e \notin history.taken
        BY <1>4 DEF DecidedFirst
  <2> QED
      BY <1>1, <2>2, <2>3, <2>4 DEF DecidedFirst
<1>7. ReplyInv'
      BY <1>1 DEF ReplyInv, ReplyOnce
<1>8. MoveInv'
  <2>1. \A e \in Decision :
          /\ decision'[e].card = decision[e].card
          /\ decision'[e].to = decision[e].to
        BY <1>4
  <2>2. \A e \in Decision : decision'[e].status # "none" =>
          decision[e].status # "none"
        BY <1>1, <1>4
  <2>3. history.moved[d] <= 1
        BY <1>1 DEF MoveInv, TypeOK
  <2>4. \A e \in Decision : history.moved[e] > 1 =>
          decision'[e].status # "proposed"
        BY <1>1, <1>4, <2>3 DEF MoveInv, TypeOK
  <2>5. \A e \in Decision : e \in Undecided' => e \in Undecided
        BY <1>4 DEF Undecided
  <2> QED
      BY <1>1, <2>1, <2>2, <2>4, <2>5 DEF MoveInv, StageMovedOnce
<1>9. OwnerInv'
  <2>1. history.taken \subseteq Decision
        BY DEF TypeOK
  <2> QED
      BY <1>1, <1>4, <2>1 DEF OwnerInv
<1>10. SettleInv'
      BY <1>1, <1>3, <1>4 DEF SettleInv, AllApplied
<1> QED
    BY <1>5, <1>6, <1>7, <1>8, <1>9, <1>10

(***************************************************************************)
(* A crash may leave an applied decision open; it is counted.              *)
(***************************************************************************)
LEMMA CrashKeeps ==
    ASSUME IInv, NEW w \in Worker, Crash(w)
    PROVE  IInv'
<1>1. /\ work[w] \in Work
      /\ UNCHANGED <<conv, copies, card, inbound, decision, action, message,
                     history>>
      BY DEF IInv, TypeOK, Crash
<1>2. Resting \in Work /\ Resting.pc = "rest"
  <2>1. 1 \in Decision
        BY <1>1 DEF Decision
  <2> QED
      BY <2>1 DEF Resting, Work, Conv, Owner, Kind
<1>3. /\ spent' \in [events : 0..MaxEvents, copies : 0..MaxFaults,
                     crashes : 0..MaxFaults, slow : 0..MaxFaults]
      /\ spent'.events = spent.events /\ spent'.crashes # 0
      BY DEF IInv, TypeOK, Crash, Faults
<1>4. SettleInv'
      BY <1>3 DEF SettleInv
<1> QED
    BY <1>1, <1>2, <1>3, <1>4, WorkKeeps DEF Crash, IInv, TypeOK, DecidedFirst

(***************************************************************************)
(* People change no action, no message and no worker.                      *)
(***************************************************************************)
LEMMA PeopleKeep ==
    ASSUME IInv, TypeOK', InboundCounted', MoveInv', OwnerInv',
           UNCHANGED <<action, message, work>>,
           spent'.crashes = spent.crashes,
           history'.delivered = history.delivered,
           \A d \in Decision :
             /\ decision'[d].status \in {"none", "drafted"}
                  <=> decision[d].status \in {"none", "drafted"}
             /\ decision'[d].status = "none" => d \notin history'.taken
             /\ decision'[d].status = "proposed" =>
                  decision[d].status = "proposed"
    PROVE  IInv'
<1> USE DEF IInv
<1>1. DecidedFirst'
      BY DEF DecidedFirst, Undecided
<1>2. ReplyInv'
      BY DEF ReplyInv, ReplyOnce
<1>3. SettleInv'
      BY DEF SettleInv, AllApplied
<1> QED
    BY <1>1, <1>2, <1>3

\* One more event is still within its bound.
LEMMA EventCounted ==
    ASSUME TypeOK, spent.events < MaxEvents,
           spent' = [spent EXCEPT !.events = @ + 1]
    PROVE  /\ spent' \in [events : 0..MaxEvents, copies : 0..MaxFaults,
                          crashes : 0..MaxFaults, slow : 0..MaxFaults]
           /\ spent'.events = spent.events + 1
           /\ spent.events \in Nat
           /\ spent'.crashes = spent.crashes
BY DEF TypeOK

LEMMA TransitionKeeps ==
    ASSUME IInv, NEW t \in DOMAIN NextOwner, Transition(t)
    PROVE  IInv'
<1> USE DEF IInv
<1>1. /\ conv.version \in Nat /\ conv'.version = conv.version + 1
      /\ conv' \in Conv /\ inbound \in Nat
      /\ UNCHANGED <<copies, card, inbound, action, message, work>>
      BY DEF Transition, TypeOK, Conv, Owner, NextOwner
<1>2. /\ decision' \in [Decision -> Made]
      /\ \A d \in Decision :
           /\ decision'[d].version = decision[d].version
           /\ decision'[d].card = decision[d].card
           /\ decision'[d].to = decision[d].to
           /\ decision'[d].status \in {"none", "drafted"}
                <=> decision[d].status \in {"none", "drafted"}
           /\ decision'[d].status = "none" <=> decision[d].status = "none"
           /\ decision'[d].status = "proposed" =>
                decision[d].status = "proposed"
  <2>1. CASE t = "return_ai"
        BY <2>1 DEF Transition, TypeOK
  <2>2. CASE t # "return_ai"
        BY <2>2, InvalidatedFacts DEF Transition
  <2> QED
      BY <2>1, <2>2
<1>3. /\ spent' \in [events : 0..MaxEvents, copies : 0..MaxFaults,
                     crashes : 0..MaxFaults, slow : 0..MaxFaults]
      /\ spent'.events = spent.events + 1 /\ spent.events \in Nat
      /\ spent'.crashes = spent.crashes
      BY EventCounted DEF Transition
<1> DEFINE taken == history.taken \cup
                      {d \in Decision : decision[d].status # "none"}
<1>4. /\ history' \in [delivered : [Decision -> 0..2],
                       moved : [Decision -> 0..2],
                       back : SUBSET Decision, again : SUBSET Decision,
                       taken : SUBSET Decision, late : SUBSET Decision,
                       undone : BOOLEAN]
      /\ history'.delivered = history.delivered
      /\ history'.moved = history.moved /\ history'.late = history.late
      /\ history'.back = history.back /\ history'.again = history.again
      /\ history'.undone = history.undone
      /\ history'.taken = taken
  <2>1. /\ history \in [delivered : [Decision -> 0..2],
                        moved : [Decision -> 0..2],
                        back : SUBSET Decision, again : SUBSET Decision,
                        taken : SUBSET Decision, late : SUBSET Decision,
                        undone : BOOLEAN]
        /\ taken \in SUBSET Decision
        BY DEF TypeOK
  <2>2. history' = [history EXCEPT !.taken = taken]
        BY DEF Transition
  <2> HIDE DEF taken, IInv
  <2> QED
      BY <2>1, <2>2
<1>5. TypeOK' /\ InboundCounted'
      BY <1>1, <1>2, <1>3, <1>4 DEF TypeOK, InboundCounted
<1>6. MoveInv'
      BY <1>1, <1>2, <1>4 DEF MoveInv, StageMovedOnce, Undecided
<1>7. OwnerInv'
  <2>1. \A d \in Decision : decision[d].version \in Nat
        BY DEF TypeOK, Made
  <2>2. history.taken \subseteq Decision
        BY DEF TypeOK
  <2> SUFFICES ASSUME ~history.undone
               PROVE  /\ history'.late = {}
                      /\ \A d \in Decision : decision[d].status # "none" =>
                           decision[d].version <= conv.version + 1
                      /\ \A d \in taken : decision[d].version < conv.version + 1
      BY <1>1, <1>2, <1>4, <2>2 DEF OwnerInv
  <2> QED
      BY <1>1, <1>4, <2>1, <2>2 DEF OwnerInv
<1>8. \A d \in Decision : decision[d].status = "none" => d \notin taken
      BY DEF DecidedFirst
<1> QED
    BY <1>1, <1>2, <1>3, <1>4, <1>5, <1>6, <1>7, <1>8, PeopleKeep

LEMMA NewInboundKeeps == ASSUME IInv, NewInbound PROVE IInv'
<1> USE DEF IInv
<1>1. UNCHANGED <<conv, copies, card, decision, action, message, work, history>>
      BY DEF NewInbound
<1>2. /\ spent' \in [events : 0..MaxEvents, copies : 0..MaxFaults,
                     crashes : 0..MaxFaults, slow : 0..MaxFaults]
      /\ spent'.events = spent.events + 1 /\ spent.events \in Nat
      /\ spent'.crashes = spent.crashes
      BY EventCounted DEF NewInbound
<1>3. TypeOK' /\ InboundCounted'
      BY <1>1, <1>2 DEF NewInbound, TypeOK, InboundCounted
<1>4. (MoveInv /\ OwnerInv)'
      BY <1>1 DEF MoveInv, StageMovedOnce, Undecided, OwnerInv
<1> QED
    BY <1>1, <1>2, <1>3, <1>4, PeopleKeep DEF DecidedFirst

\* Whoever brings the deal back to a stage is on record.
LEMMA BackNoted ==
    ASSUME IInv, NEW stage \in Stage,
           card'.version > card.version, card'.stage = stage, card' \in Card,
           UNCHANGED decision,
           history'.moved = history.moved, history'.again = history.again,
           history'.back = IF stage # card.stage
                             THEN history.back \cup Left(stage)
                             ELSE history.back
    PROVE  MoveInv'
<1> USE DEF IInv
<1>1. /\ card.version \in Nat /\ card'.version \in Nat
      /\ \A d \in Decision : decision[d].card.version \in Nat
      BY DEF TypeOK, Made, Card
<1>2. \A d \in Decision : history.moved[d] > 0 =>
        decision[d].card.stage # card'.stage \/ d \in history'.back
      BY DEF MoveInv, Left
<1>3. StageMovedOnce'
      BY DEF MoveInv, StageMovedOnce
<1> QED
    BY <1>1, <1>2, <1>3 DEF MoveInv, Undecided

LEMMA EditDealKeeps ==
    ASSUME IInv, NEW stage \in Stage, EditDeal(stage)
    PROVE  IInv'
<1> USE DEF IInv
<1>1. UNCHANGED <<conv, copies, inbound, decision, action, message, work>>
      BY DEF EditDeal
<1>2. /\ spent' \in [events : 0..MaxEvents, copies : 0..MaxFaults,
                     crashes : 0..MaxFaults, slow : 0..MaxFaults]
      /\ spent'.events = spent.events + 1 /\ spent.events \in Nat
      /\ spent'.crashes = spent.crashes
      BY EventCounted DEF EditDeal
<1>3. /\ card' \in Card /\ card'.version > card.version
      /\ card'.stage = stage
      BY DEF EditDeal, TypeOK, Card
<1> DEFINE back == IF stage # card.stage THEN history.back \cup Left(stage)
                   ELSE history.back
<1>4. /\ history' = [history EXCEPT !.back = back]
      /\ back \in SUBSET Decision
      BY DEF EditDeal, TypeOK, Left
<1>5. /\ history' \in [delivered : [Decision -> 0..2],
                       moved : [Decision -> 0..2],
                       back : SUBSET Decision, again : SUBSET Decision,
                       taken : SUBSET Decision, late : SUBSET Decision,
                       undone : BOOLEAN]
      /\ history'.delivered = history.delivered
      /\ history'.moved = history.moved /\ history'.taken = history.taken
      /\ history'.back = back /\ history'.again = history.again
      /\ history'.late = history.late /\ history'.undone = history.undone
  <2>1. history \in [delivered : [Decision -> 0..2],
                     moved : [Decision -> 0..2],
                     back : SUBSET Decision, again : SUBSET Decision,
                     taken : SUBSET Decision, late : SUBSET Decision,
                     undone : BOOLEAN]
        BY DEF TypeOK
  <2> HIDE DEF back, IInv
  <2> QED
      BY <1>4, <2>1
<1>6. TypeOK' /\ InboundCounted'
      BY <1>1, <1>2, <1>3, <1>5 DEF TypeOK, InboundCounted
<1>7. MoveInv'
      BY <1>1, <1>3, <1>5, BackNoted
<1>8. OwnerInv'
      BY <1>1, <1>5 DEF OwnerInv
<1> QED
    BY <1>1, <1>2, <1>5, <1>6, <1>7, <1>8, PeopleKeep DEF DecidedFirst

(***************************************************************************)
(* A request that saves what it read leaves the ownership, or is on record *)
(* as having undone it.                                                    *)
(***************************************************************************)
LEMMA ReadKeeps == ASSUME IInv, ReadConversation PROVE IInv'
<1> USE DEF IInv
<1>1. UNCHANGED <<conv, card, inbound, decision, action, message, work,
                  history>>
      BY DEF ReadConversation
<1>2. /\ spent' \in [events : 0..MaxEvents, copies : 0..MaxFaults,
                     crashes : 0..MaxFaults, slow : 0..MaxFaults]
      /\ spent'.events = spent.events /\ spent'.crashes = spent.crashes
      /\ copies' \in SUBSET Conv
      BY DEF ReadConversation, TypeOK, Faults
<1>3. TypeOK' /\ InboundCounted'
      BY <1>1, <1>2 DEF TypeOK, InboundCounted
<1>4. (MoveInv /\ OwnerInv)'
      BY <1>1 DEF MoveInv, StageMovedOnce, Undecided, OwnerInv
<1> QED
    BY <1>1, <1>2, <1>3, <1>4, PeopleKeep DEF DecidedFirst

LEMMA SaveKeeps ==
    ASSUME IInv, NEW read \in copies, SaveConversation(read)
    PROVE  IInv'
<1> USE DEF IInv
<1>1. UNCHANGED <<card, inbound, decision, action, message, work, spent>>
      BY DEF SaveConversation
<1>2. /\ read \in Conv /\ copies' \in SUBSET Conv
      /\ conv' \in Conv /\ (read = conv => conv' = conv)
  <2>1. copies \in SUBSET Conv /\ read \in Conv
        BY DEF TypeOK
  <2> QED
      BY <2>1, SavedFacts DEF SaveConversation
<1>3. /\ history' \in [delivered : [Decision -> 0..2],
                       moved : [Decision -> 0..2],
                       back : SUBSET Decision, again : SUBSET Decision,
                       taken : SUBSET Decision, late : SUBSET Decision,
                       undone : BOOLEAN]
      /\ history'.delivered = history.delivered
      /\ history'.moved = history.moved /\ history'.taken = history.taken
      /\ history'.back = history.back /\ history'.again = history.again
      /\ history'.late = history.late
      /\ ~history'.undone => ~history.undone /\ conv = read
      BY DEF TypeOK, SaveConversation
<1>4. TypeOK' /\ InboundCounted'
      BY <1>1, <1>2, <1>3 DEF TypeOK, InboundCounted
<1>5. MoveInv'
      BY <1>1, <1>3 DEF MoveInv, StageMovedOnce, Undecided
<1>6. OwnerInv'
      BY <1>1, <1>2, <1>3 DEF OwnerInv
<1> QED
    BY <1>1, <1>3, <1>4, <1>5, <1>6, PeopleKeep DEF DecidedFirst

(***************************************************************************)
(* A reviewer moves the deal only from the stage the decision saw.         *)
(***************************************************************************)
LEMMA ReviewKeeps ==
    ASSUME IInv, NEW d \in Decision, NEW approve \in BOOLEAN,
           NEW keys \in SUBSET Kind, NEW read \in copies \cup {conv},
           Review(d, approve, keys, read)
    PROVE  IInv'
<1> USE DEF IInv
<1> DEFINE moves == "set_stage" \in keys
<1>1. /\ UNCHANGED <<copies, inbound, action, message, work, spent>>
      /\ decision[d].status = "proposed" /\ d \notin Undecided
      /\ read \in Conv
      BY DEF Review, Undecided, TypeOK
<1>2. /\ decision' \in [Decision -> Made]
      /\ \A e \in Decision :
           /\ decision'[e].version = decision[e].version
           /\ decision'[e].card = decision[e].card
           /\ decision'[e].to = decision[e].to
           /\ decision'[e].status \in {"none", "drafted"}
                <=> decision[e].status \in {"none", "drafted"}
           /\ decision'[e].status = "none" <=> decision[e].status = "none"
           /\ decision'[e].status = "proposed" =>
                decision[e].status = "proposed" /\ e # d
  <2>1. PICK status \in {"approved", "rejected"} :
          decision' = [decision EXCEPT ![d].status = status]
        BY DEF Review
  <2> DEFINE made == [decision[d] EXCEPT !.status = status]
  <2>2. decision[d] \in Made
        BY DEF TypeOK
  <2>3. /\ made \in Made /\ made.status = status
        /\ made.version = decision[d].version /\ made.card = decision[d].card
        /\ made.to = decision[d].to
        BY <2>2 DEF Made
  <2>4. decision' = [decision EXCEPT ![d] = made]
        BY <2>1
  <2> HIDE DEF made
  <2>5. decision \in [Decision -> Made]
        BY DEF TypeOK
  <2>6. /\ decision' \in [Decision -> Made] /\ decision'[d] = made
        /\ \A e \in Decision : e # d => decision'[e] = decision[e]
        BY <2>3, <2>4, <2>5
  <2> QED
      BY <1>1, <2>1, <2>3, <2>6
<1>3. /\ card' \in Card /\ card.version \in Nat /\ card'.version \in Nat
      /\ card'.version >= card.version
      /\ moves => /\ card.stage = decision[d].card.stage
                  /\ card'.stage = decision[d].to
                  /\ card'.version > card.version
      /\ ~moves => card'.stage = card.stage
  <2>1. card.version \in Nat /\ card \in Card /\ decision[d].to \in Stage
        BY DEF TypeOK, Card, Made
  <2>2. moves => DealUnmoved(d)
        BY DEF Review
  <2>3. card' = IF moves THEN [version |-> card.version + 2,
                               stage |-> decision[d].to]
                ELSE IF approve THEN [card EXCEPT !.version = @ + 1] ELSE card
        BY DEF Review
  <2> QED
      BY <2>1, <2>2, <2>3 DEF DealUnmoved, Card
<1>4. /\ conv \in Conv /\ conv' \in Conv /\ conv.version \in Nat
      /\ conv'.version \in Nat
      /\ \/ approve /\ conv # read
         \/ conv'.version >= conv.version
  <2>1. CASE ~approve
        BY <2>1 DEF Review, TypeOK, Conv
  <2>2. CASE approve
    <3> DEFINE written == IF "handoff" \in keys
                            THEN [owner |-> "handoff_requested",
                                  version |-> read.version + 1]
                            ELSE read
    <3>1. written \in Conv /\ written.version >= read.version
          BY <1>1 DEF Conv, Owner
    <3>2. conv' \in Saved(read, written)
          BY <2>2 DEF Review
    <3> HIDE DEF written
    <3>3. conv' \in Conv /\ (read = conv => conv' = written)
          BY <1>1, <3>1, <3>2, SavedFacts
    <3> QED
        BY <2>2, <3>1, <3>3 DEF TypeOK, Conv
  <2> QED
      BY <2>1, <2>2
<1> DEFINE moved == [history.moved EXCEPT ![d] = IF moves THEN @ + 1 ELSE @]
           back == IF moves THEN history.back \cup Left(decision[d].to)
                   ELSE history.back
           undone == history.undone \/ (approve /\ conv # read)
<1>5. /\ history.moved \in [Decision -> 0..2] /\ history.moved[d] \in 0..1
      /\ moved \in [Decision -> 0..2] /\ back \in SUBSET Decision
      /\ \A e \in Decision : e # d => moved[e] = history.moved[e]
      /\ moved[d] = history.moved[d] + (IF moves THEN 1 ELSE 0)
  <2>1. history.moved \in [Decision -> 0..2]
        BY DEF TypeOK
  <2>2. history.moved[d] \in 0..1
        BY <1>1, <2>1 DEF MoveInv
  <2>3. back \in SUBSET Decision
        BY DEF TypeOK, Left
  <2> QED
      BY <2>1, <2>2, <2>3
<1>6. /\ history' \in [delivered : [Decision -> 0..2],
                       moved : [Decision -> 0..2],
                       back : SUBSET Decision, again : SUBSET Decision,
                       taken : SUBSET Decision, late : SUBSET Decision,
                       undone : BOOLEAN]
      /\ history'.delivered = history.delivered
      /\ history'.late = history.late /\ history'.undone = undone
      /\ history'.taken = history.taken
      /\ history'.moved = moved /\ history'.back = back
      /\ history'.again = history.again
  <2>1. /\ history \in [delivered : [Decision -> 0..2],
                        moved : [Decision -> 0..2],
                        back : SUBSET Decision, again : SUBSET Decision,
                        taken : SUBSET Decision, late : SUBSET Decision,
                        undone : BOOLEAN]
        BY DEF TypeOK
  <2>2. history' = [history EXCEPT !.moved = moved, !.back = back,
                                   !.undone = undone]
        BY DEF Review
  <2>3. undone \in BOOLEAN
        BY <2>1
  <2> HIDE DEF moved, back, undone, IInv
  <2> QED
      BY <1>5, <2>1, <2>2, <2>3
<1>7. TypeOK' /\ InboundCounted'
      BY <1>1, <1>2, <1>3, <1>4, <1>6 DEF TypeOK, InboundCounted
<1>8. MoveInv'
  <2>1. \A e \in Decision : decision[e].card.version \in Nat
        BY DEF TypeOK, Made, Card
  <2>2. decision[d].status # "none" /\ decision[d].card.stage # decision[d].to
        BY <1>1 DEF MoveInv
  <2>3. \A e \in Decision : moved[e] > 0 =>
          /\ e \notin Undecided
          /\ decision[e].card.version < card'.version
          /\ decision[e].card.stage # card'.stage \/ e \in back
        BY <1>1, <1>3, <1>5, <2>1, <2>2 DEF MoveInv, Left
  <2>4. \A e \in Decision : moved[e] > 1 =>
          decision'[e].status # "proposed" /\ e \in back
    <3>1. \A e \in Decision : history.moved[e] > 1 =>
            decision[e].status # "proposed" /\ e \in back
          BY <1>5 DEF MoveInv, StageMovedOnce
    <3>2. moved[d] > 1 => d \in back
          BY <1>3, <1>5 DEF MoveInv
    <3> QED
        BY <1>2, <1>5, <3>1, <3>2
  <2>5. StageMovedOnce'
        BY <1>5, <1>6, <2>4 DEF MoveInv, StageMovedOnce
  <2>6. \A e \in Decision : decision'[e].status # "none" =>
          /\ decision'[e].card.version <= card'.version
          /\ decision'[e].card.stage # decision'[e].to
        BY <1>2, <1>3, <2>1 DEF MoveInv
  <2> HIDE DEF moved, back
  <2> QED
      BY <1>2, <1>6, <2>3, <2>4, <2>5, <2>6 DEF MoveInv, Undecided
<1>9. OwnerInv'
  <2>1. /\ \A e \in Decision : decision[e].version \in Nat
        /\ history.taken \subseteq Decision
        BY DEF TypeOK, Made
  <2> QED
      BY <1>2, <1>4, <1>6, <2>1 DEF OwnerInv
<1> QED
    BY <1>1, <1>2, <1>6, <1>7, <1>8, <1>9, PeopleKeep DEF DecidedFirst

(***************************************************************************)
(* Together: the invariant holds of every state.                           *)
(***************************************************************************)
LEMMA GovernedStep == ASSUME IInv, [Next]_vars PROVE IInv'
<1>1. ASSUME NEW w \in Worker, WorkerStep(w) PROVE IInv'
      BY <1>1, ClaimKeeps, ExamineKeeps, PrepareKeeps, PersistKeeps, CallKeeps,
         ConfirmKeeps, ApplyKeeps, HandoffKeeps, FinishKeeps, SettleKeeps
         DEF WorkerStep
<1>2. CASE UNCHANGED vars
      BY <1>2 DEF vars, IInv, TypeOK, InboundCounted, DecidedFirst, Undecided,
                  ReplyInv, ReplyOnce, MoveInv, StageMovedOnce, OwnerInv,
                  SettleInv, AllApplied
<1> QED
    BY <1>1, <1>2, DraftKeeps, DecideKeeps, CrashKeeps,
       ClaimRunsOutKeeps, TransitionKeeps, NewInboundKeeps, EditDealKeeps,
       ReadKeeps, SaveKeeps, ReviewKeeps DEF Next

LEMMA GovernedInvariance == Spec => []IInv
<1> QED
    BY GovernedInitially, GovernedStep, PTL DEF Spec

-----------------------------------------------------------------------------

\* The state of the conversation, of its decisions and of the workers keeps
\* its type: in particular nothing is delivered or moved a third time.
THEOREM GovernedTypeCorrect == Spec => []TypeOK
<1>1. IInv => TypeOK
      BY DEF IInv
<1> QED
    BY <1>1, GovernedInvariance, PTL

\* sendTextForActor: a reply reaches the customer at most once, whoever
\* crashes, and however many workers hold the same claim.
THEOREM ReplyGoesOutOnce == Spec => []ReplyOnce
<1>1. IInv => ReplyOnce
      BY DEF IInv, ReplyInv
<1> QED
    BY <1>1, GovernedInvariance, PTL

\* applyCrm and applyApprovedActions: no worker moves the deal again for a
\* decision that moved it, and a reviewer only when it was brought back.
THEOREM StageIsMovedOnce == Spec => []StageMovedOnce
<1>1. IInv => StageMovedOnce
      BY DEF IInv, MoveInv
<1> QED
    BY <1>1, GovernedInvariance, PTL

\* Both together: the reply goes out once, and the deal is moved once unless
\* it was brought back.
THEOREM GovernedOnce == Spec => []EffectsOnce
<1>1. ReplyOnce /\ StageMovedOnce => EffectsOnce
      BY DEF EffectsOnce
<1> QED
    BY <1>1, ReplyGoesOutOnce, StageIsMovedOnce, PTL

\* applyCrm: an ownership that has moved on ends the deal's moves, unless a
\* save of the conversation as it was read has put the old ownership back.
THEOREM OwnershipEndsMoves == Spec => []MovesEndWithOwnership
<1>1. IInv => MovesEndWithOwnership
      BY DEF IInv, OwnerInv, MovesEndWithOwnership
<1> QED
    BY <1>1, GovernedInvariance, PTL

\* finish and settleDecision: while no worker crashes, a decision whose
\* actions were all applied does not stay open.
THEOREM AppliedDecisionSettles == Spec => []AppliedIsSettled
<1>1. IInv => AppliedIsSettled
  <2> SUFFICES ASSUME IInv, NEW d \in Decision, spent.crashes = 0,
                      \A w \in Worker : work[w].pc = "rest" \/ work[w].d # d,
                      \E k \in Kind : action[d][k].status = "applied",
                      AllApplied(d), decision[d].status = "proposed"
               PROVE  FALSE
      BY DEF AppliedIsSettled
  <2>1. PICK w \in Worker : work[w].pc = "settle" /\ work[w].d = d
        BY DEF IInv, SettleInv
  <2> QED
      BY <2>1
<1> QED
    BY <1>1, GovernedInvariance, PTL
=============================================================================
