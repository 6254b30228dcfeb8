---------------------------- MODULE FollowupChain ----------------------------
(***************************************************************************)
(* The follow-up cadence of one conversation (recipe followup_idle_lead):  *)
(* an idle check, then the attempts d0, d1, d3, d7, each sent by a timer    *)
(* that arms the next one.  The actors are the scheduler's workers, which  *)
(* run LeadFlowFollowupTimerConsumer; the person at the drawer, who edits  *)
(* the opportunity's card; and everybody who may stop the cadence: the     *)
(* lead who replies, the handoff, another sender, the deal that moves, the *)
(* automation paused.  Who overwrites whom on the card's row is the        *)
(* subject of OpportunityLifecycle; here each write of it is one step.     *)
(*                                                                         *)
(* The clock is TimerContract, the promise of the port the consumer is     *)
(* written against: an armed timer is handed over any number of times,     *)
(* also to two workers at once, until one hand-over succeeds.              *)
(*                                                                         *)
(* An attempt goes out on the one channel that has a transport (whatsapp); *)
(* Mixed are the attempts that also list a channel without one, whose      *)
(* refusal keeps the attempt from being retried.                           *)
(***************************************************************************)
EXTENDS Naturals, FiniteSets

CONSTANTS
    Worker,       \* scheduler worker processes
    Last,         \* attempts of the cadence: d0 is 1, ..., d7 is Last
    Frozen,       \* attempts enabled in the automation when it armed the chain
    Mixed,        \* attempts whose channels include one without transport
    Plans,        \* plans a person may put on the card
    NoTimer,      \* a worker's "no timer"
    Copies,       \* bound: timers per key
    MaxDefers,    \* bound: times quiet hours move one attempt
    MaxThrows,    \* failed hand-overs at which the clock gives a timer up
    MaxRefires,  \* bound: hand-overs of a timer another worker still has,
                  \* or whose success was not written
    MaxCrashes,   \* bound: workers that die in the handler
    MaxRuns,      \* bound: executions of the schedule_followup effect
    MaxEdits,     \* bound: drawer saves
    MaxHandoffs,  \* bound: handoffs
    Stops         \* what may stop the chain in this instance

ASSUME FollowupAssumption ==
    /\ Last \in Nat \ {0}
    /\ Frozen \subseteq 1..Last /\ Mixed \subseteq 1..Last
    /\ Plans \subseteq SUBSET (1..Last)
    /\ Copies \in Nat \ {0} /\ MaxDefers \in Nat
    /\ MaxThrows \in Nat \ {0}
    /\ Stops \subseteq {"paused", "deal", "closed", "replied", "other", "gate"}

Attempt == 1..Last

\* timerKey: "idle:...", "followup:...:1", "followup:...:<stepKey>", each with
\* ":defer:<instant>" appended once per deferral.
Key == [kind : {"idle"}, step : {0}, defer : {0}]
       \cup [kind : {"first"}, step : {0}, defer : 0..MaxDefers]
       \cup [kind : {"step"}, step : Attempt, defer : 0..MaxDefers]

Timer == [key : Key, copy : 1..Copies]

VARIABLES
    phase, delivered,   \* the clock
    index,     \* Timer -> attemptIndex of its payload
    throws,    \* Timer -> hand-overs that failed or were cut off
    h,         \* Worker -> locals of the handler it runs
    card,      \* the opportunity: mode, plan, attempts, next
    stops,     \* what has stopped the chain so far
    own,       \* ownershipState of the conversation
    idle,      \* has conversation.idle been emitted
    message,   \* effect key (its attemptIndex) -> status of the message row
    wire,      \* Attempt -> messages the provider accepted
    logged,    \* channel_result events: [timer, step, result]
    runs, edits, refires, crashes, handoffs,
    late       \* history: messages accepted after the lead replied
               \* or while the card says no follow-up

vars == <<phase, delivered, index, throws, h, card, stops, own, idle, message,
          wire, logged, runs, edits, refires, crashes,
          handoffs, late>>

Clock == INSTANCE TimerContract WITH KeyOf <- [t \in Timer |-> t.key]

Result  == {"none", "sent", "failed", "skipped"}
NoRun   == [result |-> "none", run |-> NoTimer]
Card    == [mode : {"automatic", "manual", "disabled"},
            plan : SUBSET Attempt,
            attempts : [Attempt ->
                          [result : Result, run : Timer \cup {NoTimer}]],
            next : {0} \cup Attempt]
Locals  == [pc : {"rest", "thread", "send", "call", "confirm", "record",
                  "write", "next", "announce", "defer"},
            timer : Timer \cup {NoTimer}, step : 0..Last,
            plan : SUBSET Attempt, result : Result]
Resting == [pc |-> "rest", timer |-> NoTimer, step |-> 0, plan |-> {},
            result |-> "none"]

(***************************************************************************)
(* The type invariant.                                                     *)
(***************************************************************************)
TypeOK ==
    /\ phase \in [Timer -> Clock!Phase] /\ delivered \subseteq Timer
    /\ index \in [Timer -> 0..Last - 1]
    /\ throws \in [Timer -> 0..MaxThrows]
    /\ h \in [Worker -> Locals]
    /\ card \in Card
    /\ stops \subseteq Stops
    /\ own \in {"ai_active", "handoff"}
    /\ idle \in BOOLEAN
    /\ message \in [0..Last - 1 -> {"none", "pending", "sent", "failed"}]
    /\ wire \in [Attempt -> Nat]
    /\ logged \subseteq [timer : Timer, step : Attempt, result : Result]
    /\ runs \in Nat /\ edits \in Nat /\ refires \in Nat
    /\ crashes \in Nat /\ handoffs \in Nat /\ late \in Nat

FreshCard == [mode |-> "automatic", plan |-> {},
              attempts |-> [s \in Attempt |-> NoRun], next |-> 0]

Init ==
    /\ Clock!ContractInit
    /\ index = [t \in Timer |-> 0] /\ throws = [t \in Timer |-> 0]
    /\ h = [w \in Worker |-> Resting]
    /\ card = FreshCard
    /\ stops = {} /\ own = "ai_active" /\ idle = FALSE
    /\ message = [i \in 0..Last - 1 |-> "none"]
    /\ wire = [s \in Attempt |-> 0] /\ logged = {}
    /\ runs = 0 /\ edits = 0 /\ refires = 0 /\ crashes = 0
    /\ handoffs = 0 /\ late = 0

bounds == <<runs, edits, refires, crashes, handoffs, late>>

-----------------------------------------------------------------------------
(* The clock, as the consumer and the executor use it.                     *)

\* schedule: an armed key is left alone; else a timer with this payload.
Schedule(k, i) ==
    IF Clock!Armed(k) # {}
      THEN UNCHANGED <<phase, delivered, index>>
      ELSE /\ Clock!Arm(k)
           /\ \A t \in Timer : phase'[t] # "none" /\ t.copy > 1 =>
                                 phase'[[t EXCEPT !.copy = @ - 1]] # "none"
           /\ index' = [t \in Timer |-> IF phase'[t] # phase[t] THEN i
                                                                ELSE index[t]]

\* The handler returns; its locals go out of scope.
Return(w) ==
    /\ Clock!HandOver(h[w].timer)
    /\ h' = [h EXCEPT ![w] = Resting]

\* The handler throws, or its process dies.
CutOff(w) ==
    /\ throws' = [throws EXCEPT ![h[w].timer] =
                                  IF @ < MaxThrows THEN @ + 1 ELSE @]
    /\ h' = [h EXCEPT ![w] = Resting]
    /\ UNCHANGED <<phase, delivered, index>>

Fire(t) ==
    /\ Clock!Fire(t)
    /\ UNCHANGED <<index, throws, h, card, stops, own, idle, message, wire,
                   logged, bounds>>

GiveUp(t) ==
    /\ throws[t] = MaxThrows
    /\ \A w \in Worker : h[w].timer # t
    /\ Clock!GiveUp(t)
    /\ UNCHANGED <<index, throws, h, card, stops, own, idle, message, wire,
                   logged, bounds>>

-----------------------------------------------------------------------------
(* Arming the chain: observeDelivery arms the idle check behind every      *)
(* message of the agent or of a person; its timer emits conversation.idle, *)
(* and the automation that event starts executes schedule_followup.        *)

IdleKey == [kind |-> "idle", step |-> 0, defer |-> 0]
FirstKey == [kind |-> "first", step |-> 0, defer |-> 0]
StepKey(s) == [kind |-> "step", step |-> s, defer |-> 0]

ObserveDelivery ==
    /\ \A t \in Timer : t.key = IdleKey => phase[t] = "none"
    /\ Schedule(IdleKey, 0)
    /\ UNCHANGED <<throws, h, card, stops, own, idle, message, wire, logged,
                   bounds>>

\* The baseline is still the latest message and nobody took the conversation.
StillIdle ==
    /\ stops \cap {"paused", "closed", "replied", "other"} = {}
    /\ own = "ai_active"
    /\ \A i \in DOMAIN message : message[i] = "none"

DetectIdle(t) ==
    /\ t.key = IdleKey /\ phase[t] = "armed"
    /\ Clock!HandOver(t)
    /\ idle' = (idle \/ StillIdle)
    /\ UNCHANGED <<index, throws, h, card, stops, own, message, wire, logged,
                   bounds>>

\* The effect of an execution that may be repeated.
ScheduleFollowup ==
    /\ idle /\ runs < MaxRuns
    /\ "paused" \notin stops
    /\ runs' = runs + 1
    /\ Schedule(FirstKey, 0)
    /\ UNCHANGED <<throws, h, card, stops, own, idle, message, wire, logged,
                   edits, refires, crashes, handoffs, late>>

-----------------------------------------------------------------------------
(* deliverFollowup, one await at a time.                                   *)

Position(P, s) == Cardinality({x \in P : x < s})

PlanOf(c) == IF c.mode = "manual" THEN c.plan ELSE Frozen

\* The attempt this fire is: by name if the payload has one, else by position
\* in the plan in force.  0 if the plan has no such position.
CurrentStep(t, P) ==
    IF t.key.kind = "step" THEN t.key.step
    ELSE IF \E s \in P : Position(P, s) = index[t]
           THEN CHOOSE s \in P : Position(P, s) = index[t]
           ELSE 0

Goto(w, pc) == h' = [h EXCEPT ![w].pc = pc]

\* Mutant of SwitchedOff: the card's own switch is not read.
SwitchUnread == FALSE

SwitchedOff == card.mode = "disabled"

\* automation active?  deal open, on its stage, not manual?  card switched off?
ReadCard(w, t) ==
    /\ h[w].pc = "rest"
    /\ t.key.kind # "idle" /\ phase[t] = "armed" /\ throws[t] < MaxThrows
    /\ LET again == t \in delivered \/ \E v \in Worker : h[v].timer = t IN
         /\ again => refires < MaxRefires
         /\ refires' = IF again THEN refires + 1 ELSE refires
    /\ IF stops \cap {"paused", "deal"} # {} \/ SwitchedOff
         THEN /\ Clock!HandOver(t)
              /\ card' = IF stops \cap {"paused", "deal"} # {} THEN card
                                               ELSE [card EXCEPT !.next = 0]
              /\ UNCHANGED h
         ELSE /\ h' = [h EXCEPT ![w] = [Resting EXCEPT
                         !.pc = "thread", !.timer = t, !.plan = PlanOf(card),
                         !.step = CurrentStep(t, PlanOf(card))]]
              /\ UNCHANGED <<phase, delivered, card>>
    /\ UNCHANGED <<index, throws, stops, own, idle, message, wire, logged,
                   runs, edits, crashes, handoffs, late>>

\* Conversation closed, handed off, answered, or taken up by another sender?
ThreadStops ==
    \/ own = "handoff"
    \/ stops \cap {"closed", "replied", "other"} # {}

\* Mutant of Retract: the card is left as the handler found it.
RetractNothing == card

\* The fallback that takes the next follow-up off the card of a handoff.
Retract == IF own = "handoff" /\ "closed" \notin stops
             THEN [card EXCEPT !.next = 0] ELSE card

ReadThread(w) ==
    /\ h[w].pc = "thread"
    /\ IF ThreadStops \/ h[w].step = 0 \/ "gate" \in stops
         THEN Return(w)
         ELSE /\ Goto(w, IF h[w].step \in h[w].plan THEN "send" ELSE "next")
              /\ UNCHANGED <<phase, delivered>>
    /\ card' = Retract
    /\ UNCHANGED <<index, throws, stops, own, idle, message, wire, logged,
                   bounds>>

\* Mutant of Defer: quiet hours delete the attempt.
DeferToNever(w) ==
    /\ h[w].pc = "thread"
    /\ ~ThreadStops /\ h[w].step \in h[w].plan
    /\ h[w].timer.key.defer < MaxDefers
    /\ Goto(w, "defer")
    /\ UNCHANGED <<phase, delivered, index, throws, card, stops, own, idle,
                   message, wire, logged, bounds>>

\* Quiet hours move the attempt: the same payload under a key of its own.
Defer(w) ==
    LET t == h[w].timer IN
    /\ h[w].pc = "thread"
    /\ ~ThreadStops /\ h[w].step \in h[w].plan
    /\ t.key.defer < MaxDefers
    /\ Schedule([t.key EXCEPT !.defer = @ + 1], index[t])
    /\ Goto(w, "defer")
    /\ UNCHANGED <<throws, card, stops, own, idle, message, wire, logged,
                   bounds>>

\* No text, no template, the lead opted out, no transport.
SkipChannel(w) ==
    /\ h[w].pc = "send"
    /\ h' = [h EXCEPT ![w].pc = "record", ![w].result = "skipped"]
    /\ UNCHANGED <<phase, delivered, index, throws, card, stops, own, idle,
                   message, wire, logged, bounds>>

\* Mutant of Unclaimed: no unique key on the message row.
UnclaimedAlways(i) == TRUE

\* Mutant of Replay: a pending row counts as a message sent.
ReplayAsSent(i) == IF message[i] = "failed" THEN "failed" ELSE "sent"

Unclaimed(i) == message[i] = "none"

\* What a second call with the effect key gets: a row that is not confirmed
\* is refused.
Replay(i) == IF message[i] = "sent" THEN "sent" ELSE "failed"

\* sendAutomationMessage up to the pending row; the effect key is the row's
\* unique idempotency key.
SendMessage(w) ==
    LET i == index[h[w].timer] IN
    /\ h[w].pc = "send"
    /\ IF own # "ai_active" THEN
            h' = [h EXCEPT ![w].pc = "record", ![w].result = "skipped"]
            /\ UNCHANGED message
       ELSE IF Unclaimed(i) THEN
            Goto(w, "call") /\ message' = [message EXCEPT ![i] = "pending"]
       ELSE h' = [h EXCEPT ![w].pc = "record", ![w].result = Replay(i)]
            /\ UNCHANGED message
    /\ UNCHANGED <<phase, delivered, index, throws, card, stops, own, idle,
                   wire, logged, bounds>>

Accepted(w) ==
    /\ wire' = [wire EXCEPT ![h[w].step] = @ + 1]
    /\ late' = IF "replied" \in stops \/ card.mode = "disabled"
                 THEN late + 1 ELSE late

\* The provider accepts; or refuses, and the channel counts as skipped; or is
\* not heard, having accepted or not, and the channel counts as failed.
CallProvider(w) ==
    LET i == index[h[w].timer] IN
    /\ h[w].pc = "call"
    /\ \/ Accepted(w) /\ Goto(w, "confirm") /\ UNCHANGED message
       \/ /\ message' = [message EXCEPT ![i] = "failed"]
          /\ \/ /\ h' = [h EXCEPT ![w].pc = "record", ![w].result = "skipped"]
                /\ UNCHANGED <<wire, late>>
             \/ /\ h' = [h EXCEPT ![w].pc = "record", ![w].result = "failed"]
                /\ Accepted(w) \/ UNCHANGED <<wire, late>>
    /\ UNCHANGED <<phase, delivered, index, throws, card, stops, own, idle,
                   logged, runs, edits, refires, crashes, handoffs>>

ConfirmSent(w) ==
    /\ h[w].pc = "confirm"
    /\ message' = [message EXCEPT ![index[h[w].timer]] = "sent"]
    /\ h' = [h EXCEPT ![w].pc = "record", ![w].result = "sent"]
    /\ UNCHANGED <<phase, delivered, index, throws, card, stops, own, idle,
                   wire, logged, bounds>>

\* One event per timer, attempt and channel: a second insert is swallowed.
RecordChannelResult(w) ==
    LET e == [timer |-> h[w].timer, step |-> h[w].step,
              result |-> h[w].result] IN
    /\ h[w].pc = "record"
    /\ logged' = IF \E x \in logged : x.timer = e.timer /\ x.step = e.step
                   THEN logged ELSE logged \cup {e}
    /\ Goto(w, "write")
    /\ UNCHANGED <<phase, delivered, index, throws, card, stops, own, idle,
                   message, wire, bounds>>

\* mergeAttempt: within a run a channel that failed does not undo a delivery.
Merged(attempts, s, a) ==
    IF attempts[s].result = "sent" /\ attempts[s].run = a.run
         /\ a.result # "sent"
      THEN attempts
      ELSE [attempts EXCEPT ![s] = a]

RecordAttemptOnCard(w) ==
    /\ h[w].pc = "write"
    /\ card' = [card EXCEPT !.attempts =
                  Merged(@, h[w].step, [result |-> h[w].result,
                                        run |-> h[w].timer])]
    /\ Goto(w, "next")
    /\ UNCHANGED <<phase, delivered, index, throws, stops, own, idle, message,
                   wire, logged, bounds>>

\* Every channel failed: the clock is to hand the timer over again.
Retried(w) == h[w].result = "failed" /\ h[w].step \notin Mixed

\* Mutant of AllChannelsFailed: the failure is swallowed.
FailureSwallowed(w) ==
    /\ h[w].pc = "next" /\ Retried(w)
    /\ Return(w)
    /\ UNCHANGED <<index, throws, card, stops, own, idle, message, wire,
                   logged, bounds>>

AllChannelsFailed(w) ==
    /\ h[w].pc = "next" /\ Retried(w)
    /\ CutOff(w)
    /\ UNCHANGED <<card, stops, own, idle, message, wire, logged, bounds>>

Later(w) == {s \in h[w].plan : s > h[w].step}
NextStep(w) == CHOOSE s \in Later(w) : \A x \in Later(w) : s <= x

\* Mutant of NextIndex: counts from one.
NextIndexFromOne(w) == Position(h[w].plan, NextStep(w)) + 1

NextIndex(w) == Position(h[w].plan, NextStep(w))

EndChain(w) ==
    /\ h[w].pc = "next" /\ ~Retried(w) /\ Later(w) = {}
    /\ card' = [card EXCEPT !.next = 0]
    /\ Return(w)
    /\ UNCHANGED <<index, throws, stops, own, idle, message, wire, logged,
                   bounds>>

ScheduleNext(w) ==
    /\ h[w].pc = "next" /\ ~Retried(w) /\ Later(w) # {}
    /\ Schedule(StepKey(NextStep(w)), NextIndex(w))
    /\ Goto(w, "announce")
    /\ UNCHANGED <<throws, card, stops, own, idle, message, wire, logged,
                   bounds>>

AnnounceNext(w) ==
    /\ h[w].pc = "announce"
    /\ card' = [card EXCEPT !.next = NextStep(w)]
    /\ Return(w)
    /\ UNCHANGED <<index, throws, stops, own, idle, message, wire, logged,
                   bounds>>

DeferralReturns(w) ==
    /\ h[w].pc = "defer"
    /\ Return(w)
    /\ UNCHANGED <<index, throws, card, stops, own, idle, message, wire,
                   logged, bounds>>

Crash(w) ==
    /\ h[w].pc # "rest" /\ crashes < MaxCrashes
    /\ crashes' = crashes + 1
    /\ CutOff(w)
    /\ UNCHANGED <<card, stops, own, idle, message, wire, logged, runs, edits,
                   refires, handoffs, late>>

-----------------------------------------------------------------------------
(* The drawer, and those who stop the chain.                               *)

\* patchOpportunityFollow
EditCard(mode, plan) ==
    /\ edits < MaxEdits
    /\ <<mode, plan>> # <<card.mode, card.plan>>
    /\ edits' = edits + 1
    /\ card' = [card EXCEPT !.mode = mode, !.plan = plan]
    /\ UNCHANGED <<phase, delivered, index, throws, h, stops, own, idle,
                   message, wire, logged, runs, refires, crashes, handoffs,
                   late>>

\* The ownership transition takes the next follow-up off the card in its own
\* transaction.
Handoff ==
    /\ own = "ai_active" /\ handoffs < MaxHandoffs
    /\ own' = "handoff" /\ handoffs' = handoffs + 1
    /\ card' = [card EXCEPT !.next = 0]
    /\ UNCHANGED <<phase, delivered, index, throws, h, stops, idle, message,
                   wire, logged, runs, edits, refires, crashes, late>>

ReturnToAi ==
    /\ own = "handoff"
    /\ own' = "ai_active"
    /\ UNCHANGED <<phase, delivered, index, throws, h, card, stops, idle,
                   message, wire, logged, bounds>>

\* A reply, a message of somebody else, a closed conversation, a deal that was
\* moved or closed, an automation paused or refused by its gate.
Stop(s) ==
    /\ s \notin stops
    /\ stops' = stops \cup {s}
    /\ UNCHANGED <<phase, delivered, index, throws, h, card, own, idle,
                   message, wire, logged, bounds>>

-----------------------------------------------------------------------------
HandlerStep(w) ==
    \/ ReadThread(w) \/ Defer(w) \/ SkipChannel(w) \/ SendMessage(w)
    \/ CallProvider(w) \/ ConfirmSent(w) \/ RecordChannelResult(w)
    \/ RecordAttemptOnCard(w) \/ AllChannelsFailed(w)
    \/ EndChain(w) \/ ScheduleNext(w) \/ AnnounceNext(w) \/ DeferralReturns(w)

People ==
    \/ \E mode \in {"automatic", "manual", "disabled"}, P \in Plans :
         EditCard(mode, P)
    \/ Handoff \/ ReturnToAi
    \/ \E s \in Stops : Stop(s)

Next ==
    \/ ObserveDelivery \/ ScheduleFollowup
    \/ \E t \in Timer : DetectIdle(t) \/ Fire(t) \/ GiveUp(t)
    \/ \E w \in Worker :
         \/ \E t \in Timer : ReadCard(w, t)
         \/ HandlerStep(w) \/ Crash(w)
    \/ People

Spec == Init /\ [][Next]_vars

(***************************************************************************)
(* Fairness: the clock hands over what is armed and records what succeeded *)
(* or failed for good (SchedulerRuntime), the relay and the automation     *)
(* bring the idle event to its effect at least once (OutboxRelay,          *)
(* AutomationDelivery), and a handler that runs goes on.  People, agents,  *)
(* crashes and quiet hours owe nothing.                                    *)
(***************************************************************************)
Fairness ==
    /\ WF_vars(ObserveDelivery)
    /\ WF_vars(runs = 0 /\ ScheduleFollowup)
    /\ WF_vars(\E t \in Timer : ~idle /\ DetectIdle(t))
    /\ WF_vars(\E t \in Timer : Fire(t) \/ GiveUp(t))
    /\ WF_vars(\E w \in Worker, t \in Timer : ReadCard(w, t))
    /\ \A w \in Worker : WF_vars(HandlerStep(w))

FairSpec == Spec /\ Fairness

-----------------------------------------------------------------------------
(***************************************************************************)
(* While nobody edits the card, the lead gets each attempt at most once:   *)
(* through repeated effects, hand-overs to two workers, crashes between    *)
(* the pending row, the call and its confirmation, lost answers, refires   *)
(* and deferrals (the effect key of deliverFollowup and the pending row of *)
(* sendAutomationMessage).                                                 *)
(***************************************************************************)
EachAttemptOnce == edits = 0 => \A s \in Attempt : wire[s] <= 1

\* No timer was ever in two hands, and the effect ran once: what fails, fails
\* and is handed over again.
Untroubled == crashes = 0 /\ refires = 0 /\ runs <= 1

(***************************************************************************)
(* One message still goes out after the lead replied or the card was       *)
(* switched off, at most: the one whose worker had read the card and the   *)
(* thread before (revalidation at fire time).  A second one gets through   *)
(* where two workers came to hold a timer, a repeated effect started a     *)
(* second chain, or the card was switched on again.                        *)
(***************************************************************************)
AtMostOneAfterStop == Untroubled /\ edits <= 1 => late <= 1

(***************************************************************************)
(* The cadence never goes backwards: no attempt reaches the lead after a   *)
(* later one, however attempts are moved by quiet hours and failed ones    *)
(* are handed over again.  An edit of the plan, or a second chain that a   *)
(* repeated effect starts, may send an attempt that was passed over.       *)
(***************************************************************************)
InOrder ==
    [][Untroubled /\ edits = 0 => \A s \in Attempt :
          wire'[s] > wire[s] => \A x \in Attempt : x > s => wire[x] = 0]_vars

(***************************************************************************)
(* What the card says was sent was accepted by the provider.               *)
(***************************************************************************)
SentWasAccepted ==
    \A s \in Attempt : card.attempts[s].result = "sent" => wire[s] > 0

(***************************************************************************)
(* ... while nobody edits the card.                                        *)
(***************************************************************************)
SentWasAcceptedUnedited == edits = 0 => SentWasAccepted

Undisturbed ==
    /\ stops = {} /\ edits = 0 /\ handoffs = 0
    /\ \A t \in Timer : phase[t] # "given_up"

AllTried == \A s \in Frozen : \E e \in logged : e.step = s

(***************************************************************************)
(* A cadence that nothing stops is never dropped: whatever workers hold a  *)
(* timer together, fail or die in the middle of it, until every attempt    *)
(* was tried there is a timer of it that still has to be handled           *)
(* (deliverFollowup throws where all channels failed, and arms the next    *)
(* attempt before it returns).                                             *)
(***************************************************************************)
ChainIsKept ==
    Undisturbed /\ runs > 0 =>
        \/ AllTried
        \/ \E t \in Timer : /\ t.key.kind # "idle" /\ phase[t] = "armed"
                            /\ t \notin delivered

(***************************************************************************)
(* ... and is carried out: every attempt of the plan comes to be tried and *)
(* logged, also one that quiet hours move, that the provider refuses, or   *)
(* that fails and is handed over again.                                    *)
(***************************************************************************)
PlanCarriedOut ==
    <>[](Undisturbed /\ crashes = 0 => AllTried)

(***************************************************************************)
(* The card of a conversation that stays handed off stops announcing a     *)
(* follow-up: the transition clears it, and what a handler in flight put   *)
(* back is cleared by the timer that handler armed.  Not where another     *)
(* worker had handled that timer before it was announced: nothing is left  *)
(* then to take the announcement back.                                     *)
(***************************************************************************)
Outrun ==
    \E w \in Worker, t \in delivered :
        /\ h[w].pc = "announce"
        /\ t.key.kind = "step" /\ t.key.step = NextStep(w)

HandoffIsShown ==
    [](~Outrun) =>
        ((own = "handoff") ~>
            \/ card.next = 0 \/ own = "ai_active"
            \/ stops # {} \/ edits > 0 \/ crashes > 0
            \/ \E t \in Timer : phase[t] = "given_up")
=============================================================================
