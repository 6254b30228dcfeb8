---------------------------- MODULE GovernedActions ----------------------------
(***************************************************************************)
(* What the AI agent decided about one conversation, on its way to being   *)
(* done: InboxGovernedActionWorker claims the actions planned for each     *)
(* decision and carries them out, while people take the conversation over  *)
(* (ConversationOwnershipService), review the decision                     *)
(* (InboxAgentRuntimeService.review) and edit the deal.                    *)
(*                                                                         *)
(* An action belongs to one version of the conversation's ownership.  The  *)
(* worker compares versions when it picks the action up; a CRM change      *)
(* compares again under the conversation's lock, a reply before it is      *)
(* stored, a handoff never.  A claim older than two minutes is taken over, *)
(* whether its worker is lost or only slow.                                *)
(*                                                                         *)
(* Many requests read the conversation without a lock and save the whole   *)
(* entity later: to mark it read, archive or flag it, to send a message,   *)
(* to ingest one.  What they read meanwhile waits in copies.               *)
(***************************************************************************)
EXTENDS Naturals, FiniteSets

CONSTANTS
    Worker,          \* worker processes
    Plans,           \* what policy may leave of a decision's actions
    Stage,           \* stages of the deal's pipeline
    FirstStage,      \* the stage it starts in
    MaxDecisions,    \* bound: decisions of the agent, in their order
    MaxEvents,       \* bound: takeovers and the like, new messages, edits
    MaxFaults        \* bound: crashes, claims that a slow worker outlives, and
                     \* requests that save the conversation they read

Kind == {"reply", "set_stage", "handoff"}

ASSUME GovernedAssumption ==
    /\ Plans \subseteq [Kind -> {"none", "planned", "requires_human"}]
    /\ FirstStage \in Stage
    /\ MaxDecisions \in Nat \ {0} /\ MaxEvents \in Nat
    /\ MaxFaults \in Nat

VARIABLES
    conv,      \* the conversation's owner and ownership version
    copies,    \* the conversation as requests under way have read it
    card,      \* the deal's row version and its stage
    inbound,   \* inbound messages of the conversation
    decision,  \* Decision -> its status and what it was made upon
    action,    \* Decision -> Kind -> row of inbox_governed_actions
    message,   \* Decision -> the message stored under its reply's key
    work,      \* Worker -> what it is doing
    spent,     \* events counted against their bounds
    history    \* deliveries, moves, and what a late write undid

vars == <<conv, copies, card, inbound, decision, action, message, work, spent,
          history>>

Decision == 1..MaxDecisions
Owner == {"ai_active", "handoff_requested", "human_active", "paused",
          "closed"}

Conv == [owner : Owner, version : Nat]

Card == [version : Nat, stage : Stage]

ActionStatus == {"none", "planned", "requires_human", "claimed", "applied",
                 "stale", "failed", "blocked"}

Made == [status : {"none", "drafted", "cancelled", "proposed", "approved",
                   "rejected", "invalidated"},
         version : Nat, card : Card, to : Stage, inbound : 0..MaxEvents]

Row == [status : ActionStatus, expired : BOOLEAN]

Work == [pc : {"rest", "claimed", "reply", "persist", "call", "confirm",
               "set_stage", "handoff", "finish", "settle", "fail"},
         d : Decision, kind : Kind, snap : Conv,
         result : {"applied", "stale", "blocked"}]

Resting == [pc |-> "rest", d |-> 1, kind |-> "reply",
            snap |-> [owner |-> "ai_active", version |-> 0],
            result |-> "applied"]

TypeOK ==
    /\ conv \in Conv /\ copies \in SUBSET Conv
    /\ card \in Card /\ inbound \in 0..MaxEvents
    /\ decision \in [Decision -> Made]
    /\ action \in [Decision -> [Kind -> Row]]
    /\ message \in [Decision -> {"none", "pending", "sent", "failed"}]
    /\ work \in [Worker -> Work]
    /\ spent \in [events : 0..MaxEvents, copies : 0..MaxFaults,
                  crashes : 0..MaxFaults, slow : 0..MaxFaults]
    /\ history \in [delivered : [Decision -> 0..2],
                    moved : [Decision -> 0..2],
                    back : SUBSET Decision, again : SUBSET Decision,
                    taken : SUBSET Decision, late : SUBSET Decision,
                    undone : BOOLEAN]

Init ==
    /\ conv = [owner |-> "ai_active", version |-> 0]
    /\ copies = {}
    /\ card = [version |-> 0, stage |-> FirstStage] /\ inbound = 0
    /\ decision = [d \in Decision |->
         [status |-> "none", version |-> 0, card |-> card, to |-> FirstStage,
          inbound |-> 0]]
    /\ action = [d \in Decision |-> [k \in Kind |->
         [status |-> "none", expired |-> FALSE]]]
    /\ message = [d \in Decision |-> "none"]
    /\ work = [w \in Worker |-> Resting]
    /\ spent = [events |-> 0, copies |-> 0, crashes |-> 0, slow |-> 0]
    /\ history = [delivered |-> [d \in Decision |-> 0],
                  moved |-> [d \in Decision |-> 0],
                  back |-> {}, again |-> {},
                  taken |-> {}, late |-> {}, undone |-> FALSE]

-----------------------------------------------------------------------------
(* The agent runtime leaves a decision and its plan.                       *)

\* What the conversation must be for an action of d.
Agrees(d, c) == c.owner = "ai_active" /\ c.version = decision[d].version

\* processBatch reads the conversation and the deal, and asks the model, which
\* proposes a stage to move it to.
Draft(d, to) ==
    /\ decision[d].status = "none"
    /\ to # card.stage
    /\ conv.owner = "ai_active"
    /\ decision' = [decision EXCEPT ![d] =
         [status |-> "drafted", version |-> conv.version, card |-> card,
          to |-> to, inbound |-> inbound]]
    /\ UNCHANGED <<conv, copies, card, inbound, action, message, work, spent,
                   history>>

\* The transaction that ends it: under a lock, the ownership must be what was
\* read.  With a newer message in, policy calls it all stale.
Decide(d, plan) ==
    /\ decision[d].status = "drafted"
    /\ \A e \in Decision :
         e < d => decision[e].status \notin {"none", "drafted"}
    /\ IF Agrees(d, conv)
         THEN /\ decision' = [decision EXCEPT ![d].status = "proposed"]
              /\ action' = [action EXCEPT ![d] = [k \in Kind |->
                   [status |-> IF plan[k] # "none"
                                    /\ inbound # decision[d].inbound
                                 THEN "stale" ELSE plan[k],
                    expired |-> FALSE]]]
         ELSE /\ decision' = [decision EXCEPT ![d].status = "cancelled"]
              /\ UNCHANGED action
    /\ UNCHANGED <<conv, copies, card, inbound, message, work, spent, history>>

-----------------------------------------------------------------------------
(* Claims.                                                                 *)

Rank(k) == CASE k = "reply" -> 2 [] k = "set_stage" -> 3 [] k = "handoff" -> 5

\* Mutant of Claimable: a claim that ran out is not taken over.
ClaimablePlanned(d, k) == action[d][k].status = "planned"

Claimable(d, k) ==
    \/ action[d][k].status = "planned"
    \/ action[d][k].status = "claimed" /\ action[d][k].expired

\* ORDER BY the kind, then the age.
Before(d, k, e, l) == Rank(k) < Rank(l) \/ (k = l /\ d <= e)

Claim(w, d, k) ==
    /\ work[w].pc = "rest"
    /\ Claimable(d, k)
    /\ \A e \in Decision, l \in Kind : Claimable(e, l) => Before(d, k, e, l)
    /\ action' = [action EXCEPT ![d][k] =
                    [status |-> "claimed", expired |-> FALSE]]
    /\ work' = [work EXCEPT ![w] =
                    [Resting EXCEPT !.pc = "claimed", !.d = d, !.kind = k]]
    /\ UNCHANGED <<conv, copies, card, inbound, decision, message, spent,
                   history>>

Faults == spent.copies + spent.crashes + spent.slow

Holder(d, k) == {w \in Worker : work[w].pc # "rest" /\ work[w].d = d
                                  /\ work[w].kind = k}

\* Two minutes pass: no worker has the action any more, or a slow one does.
ClaimRunsOut(d, k) ==
    /\ action[d][k].status = "claimed" /\ ~action[d][k].expired
    /\ IF Holder(d, k) = {} THEN UNCHANGED spent
       ELSE /\ Faults < MaxFaults
            /\ spent' = [spent EXCEPT !.slow = @ + 1]
    /\ action' = [action EXCEPT ![d][k].expired = TRUE]
    /\ UNCHANGED <<conv, copies, card, inbound, decision, message, work,
                   history>>

-----------------------------------------------------------------------------
(* A worker carries an action out.                                         *)

Goto(w, pc) == work' = [work EXCEPT ![w].pc = pc]

\* The outcome is known; what was read on the way is forgotten.
Outcome(w, pc, result) ==
    work' = [work EXCEPT ![w].pc = pc, ![w].snap = Resting.snap,
                         ![w].result = result]
End(w, result) == Outcome(w, "finish", result)
Abort(w) == Outcome(w, "fail", Resting.result)

\* The kill switch may be on; a stale action is not carried out.
Examine(w) ==
    LET d == work[w].d IN
    /\ work[w].pc = "claimed"
    /\ \/ End(w, "blocked")
       \/ Agrees(d, conv) /\ Goto(w, work[w].kind)
       \/ ~Agrees(d, conv) /\ End(w, "stale")
    /\ UNCHANGED <<conv, copies, card, inbound, decision, action, message,
                   spent, history>>

\* sendTextForActor, up to the message: the conversation is read (and kept),
\* the action must still be under way, a stored message answers a replay.
PrepareReply(w) ==
    LET d == work[w].d IN
    /\ work[w].pc = "reply"
    /\ IF /\ Agrees(d, conv)
          /\ action[d]["reply"].status \in {"planned", "claimed", "applied"}
         THEN IF message[d] # "none" THEN End(w, "applied")
              ELSE work' = [work EXCEPT ![w].pc = "persist",
                                        ![w].snap = conv]
         ELSE Abort(w)
    /\ UNCHANGED <<conv, copies, card, inbound, decision, action, message,
                   spent, history>>

KeyFree(d) == message[d] = "none"

\* persistPendingMessage: who lost the race answers with the other's message.
Persist(w) ==
    LET d == work[w].d IN
    /\ work[w].pc = "persist"
    /\ IF KeyFree(d) THEN /\ message' = [message EXCEPT ![d] = "pending"]
                          /\ Goto(w, "call")
       ELSE End(w, "applied") /\ UNCHANGED message
    /\ UNCHANGED <<conv, copies, card, inbound, decision, action, spent,
                   history>>

\* The provider accepts the reply, and its answer arrives or does not; or it
\* refuses it.
CallProvider(w) ==
    LET d == work[w].d IN
    /\ work[w].pc = "call"
    /\ \E accepted, answered \in BOOLEAN :
         /\ history' = IF accepted
              THEN [history EXCEPT !.delivered[d] = @ + 1]
              ELSE history
         /\ IF accepted /\ answered
              THEN Goto(w, "confirm") /\ UNCHANGED message
              ELSE /\ Abort(w)
                   /\ message' = [message EXCEPT ![d] = "failed"]
    /\ UNCHANGED <<conv, copies, card, inbound, decision, action, spent>>

\* What a save of the whole conversation leaves in its row: save() reads the
\* row again and writes the columns in which it differs, so that a column may
\* keep what somebody commits in between.
Saved(read, written) ==
    IF read = conv THEN {written}
    ELSE [owner : {written.owner, conv.owner},
          version : {written.version, conv.version}]

\* The message is sent, and the conversation is saved as it was read before
\* the call.
ConfirmReply(w) ==
    LET d == work[w].d IN
    /\ work[w].pc = "confirm"
    /\ message' = [message EXCEPT ![d] = "sent"]
    /\ conv' \in Saved(work[w].snap, work[w].snap)
    /\ history' = [history EXCEPT !.undone = @ \/ (conv # work[w].snap)]
    /\ End(w, "applied")
    /\ UNCHANGED <<copies, card, inbound, decision, action, spent>>

\* The deal is in the stage the proposal moves it from.
DealUnmoved(d) == card.stage = decision[d].card.stage

\* Mutant of StillApplies: the worker's own first look is enough.
StillAppliesUnlocked(d) ==
    /\ inbound = decision[d].inbound
    /\ DealUnmoved(d) /\ card.version = decision[d].card.version

\* Mutant of StillApplies: the deal's version is not compared.
StillAppliesInPlace(d) ==
    Agrees(d, conv) /\ inbound = decision[d].inbound /\ DealUnmoved(d)

\* applyCrm, under the conversation's and the deal's locks.
StillApplies(d) ==
    /\ Agrees(d, conv)
    /\ inbound = decision[d].inbound
    /\ DealUnmoved(d) /\ card.version = decision[d].card.version

\* Decisions that moved the deal away from this stage before.
Left(stage) == {d \in Decision : /\ history.moved[d] > 0
                                 /\ decision[d].card.stage = stage}

ApplyStage(w) ==
    LET d == work[w].d IN
    /\ work[w].pc = "set_stage"
    /\ IF StillApplies(d)
         THEN /\ card' = [version |-> card.version + 1,
                          stage |-> decision[d].to]
              /\ history' = [history EXCEPT !.moved[d] = @ + 1,
                   !.back = @ \cup Left(decision[d].to),
                   !.again = IF history.moved[d] > 0 THEN @ \cup {d} ELSE @,
                   !.late = IF d \in history.taken THEN @ \cup {d} ELSE @]
              /\ End(w, "applied")
         ELSE Abort(w) /\ UNCHANGED <<card, history>>
    /\ UNCHANGED <<conv, copies, inbound, decision, action, message, spent>>

\* invalidateAutomation: proposed decisions of the conversation.
Invalidated == [d \in Decision |->
    IF decision[d].status = "proposed"
      THEN [decision[d] EXCEPT !.status = "invalidated"] ELSE decision[d]]

\* requestHandoff: a conversation that waits for a person already is left.
Handoff(w) ==
    /\ work[w].pc = "handoff"
    /\ IF conv.owner = "handoff_requested" THEN UNCHANGED <<conv, decision>>
       ELSE /\ conv' = [owner |-> "handoff_requested",
                        version |-> conv.version + 1]
            /\ decision' = Invalidated
    /\ End(w, "applied")
    /\ UNCHANGED <<copies, card, inbound, action, message, spent, history>>

\* Mutant of Finish: the decision is settled first.
FinishUnsettled(w) ==
    LET d == work[w].d IN
    /\ work[w].pc = "finish"
    /\ action' = [action EXCEPT ![d][work[w].kind] =
                    [status |-> work[w].result, expired |-> FALSE]]
    /\ work' = [work EXCEPT ![w] = Resting]
    /\ UNCHANGED <<conv, copies, card, inbound, decision, message, spent,
                   history>>

\* finish saves the action's outcome, whatever became of the claim ...
Finish(w) ==
    LET d == work[w].d IN
    /\ work[w].pc = "finish"
    /\ action' = [action EXCEPT ![d][work[w].kind] =
                    [status |-> work[w].result, expired |-> FALSE]]
    /\ Outcome(w, "settle", Resting.result)
    /\ UNCHANGED <<conv, copies, card, inbound, decision, message, spent,
                   history>>

AllApplied(d) == \A k \in Kind : action[d][k].status \in {"none", "applied"}

\* ... and settleDecision approves a decision all of whose actions are applied.
SettleDecision(w) ==
    LET d == work[w].d IN
    /\ work[w].pc = "settle"
    /\ decision' = IF decision[d].status = "proposed" /\ AllApplied(d)
                     THEN [decision EXCEPT ![d].status = "approved"]
                     ELSE decision
    /\ work' = [work EXCEPT ![w] = Resting]
    /\ UNCHANGED <<conv, copies, card, inbound, action, message, spent,
                   history>>

\* An error is final: a failed action is never claimed again.
Fail(w) ==
    /\ work[w].pc = "fail"
    /\ action' = [action EXCEPT ![work[w].d][work[w].kind] =
                    [status |-> "failed", expired |-> FALSE]]
    /\ work' = [work EXCEPT ![w] = Resting]
    /\ UNCHANGED <<conv, copies, card, inbound, decision, message, spent,
                   history>>

Crash(w) ==
    /\ work[w].pc # "rest"
    /\ Faults < MaxFaults
    /\ spent' = [spent EXCEPT !.crashes = @ + 1]
    /\ work' = [work EXCEPT ![w] = Resting]
    /\ UNCHANGED <<conv, copies, card, inbound, decision, action, message,
                   history>>

-----------------------------------------------------------------------------
(* People.                                                                 *)

\* Mutant of NextOwner: the table lacks a command.
NextOwnerUnmapped == [request_handoff |-> "handoff_requested",
                      assume |-> "human_active", pause |-> "paused",
                      return_ai |-> "ai_active", close |-> "undefined"]

\* resolveTransition
NextOwner == [request_handoff |-> "handoff_requested",
              assume |-> "human_active", pause |-> "paused",
              return_ai |-> "ai_active", close |-> "closed"]

\* A person's command; repeating assume or request_handoff changes nothing.
Transition(t) ==
    /\ spent.events < MaxEvents
    /\ spent' = [spent EXCEPT !.events = @ + 1]
    /\ t \in {"assume", "request_handoff"} => conv.owner # NextOwner[t]
    /\ conv' = [owner |-> NextOwner[t], version |-> conv.version + 1]
    /\ decision' = IF t = "return_ai" THEN decision ELSE Invalidated
    /\ history' = [history EXCEPT !.taken = @ \cup
                     {d \in Decision : decision[d].status # "none"}]
    /\ UNCHANGED <<copies, card, inbound, action, message, work>>

NewInbound ==
    /\ spent.events < MaxEvents
    /\ spent' = [spent EXCEPT !.events = @ + 1]
    /\ inbound' = inbound + 1
    /\ UNCHANGED <<conv, copies, card, decision, action, message, work,
                   history>>

\* A person edits the deal, and may move it, on or back.
EditDeal(stage) ==
    /\ spent.events < MaxEvents
    /\ spent' = [spent EXCEPT !.events = @ + 1]
    /\ card' = [version |-> card.version + 1, stage |-> stage]
    /\ history' = [history EXCEPT !.back =
                     IF stage # card.stage THEN @ \cup Left(stage) ELSE @]
    /\ UNCHANGED <<conv, copies, inbound, decision, action, message, work>>

\* A request reads the conversation: patch, mark read or unread, archive,
\* flag, a person's or an automation's send, an inbound message or status ...
ReadConversation ==
    /\ Faults < MaxFaults
    /\ spent' = [spent EXCEPT !.copies = @ + 1]
    /\ copies' = copies \cup {conv}
    /\ UNCHANGED <<conv, card, inbound, decision, action, message, work,
                   history>>

\* ... and saves it, with the ownership it read.
SaveConversation(read) ==
    /\ read \in copies /\ copies' = copies \ {read}
    /\ conv' \in Saved(read, read)
    /\ history' = [history EXCEPT !.undone = @ \/ conv # read]
    /\ UNCHANGED <<card, inbound, decision, action, message, work, spent>>

\* A reviewer rejects a proposed decision, or approves it and applies the
\* actions selected as their own.  The transaction holds the decision's lock,
\* which a takeover needs too, and the deal's.  The conversation is read
\* without a lock, and an approval saves it, like the deal.
Review(d, approve, keys, read) ==
    LET moves == "set_stage" \in keys
        hands == "handoff" \in keys IN
    /\ decision[d].status = "proposed"
    /\ Agrees(d, read)
    /\ keys # {} => approve
    /\ \A k \in keys : k # "reply" /\ action[d][k].status # "none"
    /\ moves => DealUnmoved(d)
    /\ decision' = [decision EXCEPT ![d].status =
                      IF approve THEN "approved" ELSE "rejected"]
    /\ card' = IF moves THEN [version |-> card.version + 2,
                              stage |-> decision[d].to]
               ELSE IF approve THEN [card EXCEPT !.version = @ + 1] ELSE card
    /\ IF approve
         THEN conv' \in Saved(read,
                IF hands THEN [owner |-> "handoff_requested",
                               version |-> read.version + 1]
                ELSE read)
         ELSE UNCHANGED conv
    /\ history' = [history EXCEPT
         !.moved[d] = IF moves THEN @ + 1 ELSE @,
         !.back = IF moves THEN @ \cup Left(decision[d].to) ELSE @,
         !.undone = @ \/ (approve /\ conv # read)]
    /\ UNCHANGED <<copies, inbound, action, message, work, spent>>

-----------------------------------------------------------------------------

WorkerStep(w) ==
    \/ \E d \in Decision, k \in Kind : Claim(w, d, k)
    \/ Examine(w) \/ PrepareReply(w) \/ Persist(w) \/ CallProvider(w)
    \/ ConfirmReply(w) \/ ApplyStage(w) \/ Handoff(w) \/ Finish(w)
    \/ SettleDecision(w) \/ Fail(w)

Next ==
    \/ \E d \in Decision : \/ \E to \in Stage : Draft(d, to)
                           \/ \E plan \in Plans : Decide(d, plan)
    \/ \E w \in Worker : WorkerStep(w) \/ Crash(w)
    \/ \E d \in Decision, k \in Kind : ClaimRunsOut(d, k)
    \/ \E t \in DOMAIN NextOwner : Transition(t)
    \/ NewInbound
    \/ \E stage \in Stage : EditDeal(stage)
    \/ ReadConversation \/ \E read \in copies : SaveConversation(read)
    \/ \E d \in Decision, approve \in BOOLEAN, keys \in SUBSET Kind,
          read \in copies \cup {conv} : Review(d, approve, keys, read)

Spec == Init /\ [][Next]_vars

\* Workers poll, and two minutes pass for the claims nobody works on.
FairSpec ==
    /\ Spec
    /\ \A w \in Worker : WF_vars(WorkerStep(w))
    /\ WF_vars(\E d \in Decision, k \in Kind :
                  Holder(d, k) = {} /\ ClaimRunsOut(d, k))

-----------------------------------------------------------------------------

\* A reply reaches the customer at most once, although the action may be
\* claimed again by a second worker while the first is still sending, or
\* after a crash anywhere between the message and the outcome.
ReplyOnce == \A d \in Decision : history.delivered[d] <= 1

\* A decision moves the deal once, whether a worker does, its slow twin or the
\* reviewer who approves the same action.  Only a reviewer moves it again, and
\* only a deal that somebody brought back in between: no worker does even then.
StageMovedOnce ==
    /\ history.again = {}
    /\ \A d \in Decision : history.moved[d] <= 1 \/ d \in history.back

\* What a decision governs is carried out once, on either channel: the reply
\* by the message's key, the stage by the deal's version and its stage.
EffectsOnce == ReplyOnce /\ StageMovedOnce

\* No worker moves the deal for a decision the ownership has moved past,
\* except where a save of the conversation as it was read before, by a reply,
\* a review or any other request, put the old ownership back.
MovesEndWithOwnership == history.late = {} \/ history.undone

\* A decision whose actions were all applied does not stay open for review,
\* in whichever order two workers finish; a crash in between may leave it so.
AppliedIsSettled ==
    \A d \in Decision :
        /\ spent.crashes = 0
        /\ \A w \in Worker : work[w].pc = "rest" \/ work[w].d # d
        /\ \E k \in Kind : action[d][k].status = "applied"
        /\ AllApplied(d)
        => decision[d].status # "proposed"

\* Every planned action is applied or given up, whoever crashes or stalls.
ActionsEnd ==
    \A d \in Decision, k \in Kind :
        action[d][k].status \in {"planned", "claimed"}
            ~> action[d][k].status \notin {"planned", "claimed"}

\* A conversation a person has assumed changes hands only by a person's
\* command: transition() answers 'Conversation is already owned by another
\* user.' even to a colleague.  The code breaks it: see the README.
AssumedIsKept ==
    [][conv.owner = "human_active" /\ conv'.owner # "human_active"
         => \E t \in DOMAIN NextOwner : Transition(t)]_vars
=============================================================================
