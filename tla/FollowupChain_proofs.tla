------------------------ MODULE FollowupChain_proofs ------------------------
(***************************************************************************)
(* The follow-up cadence for any number of workers, attempts, timers, any  *)
(* plans, and any number of crashes, hand-overs, effects, edits and        *)
(* handoffs.                                                               *)
(***************************************************************************)
EXTENDS FollowupChain, TLAPS, FiniteSetTheorems, WellFoundedInduction

Held(w) == h[w].pc # "rest"

\* Who runs a handler has a follow-up timer that exists, an attempt as soon as
\* it is past the thread, and another attempt to announce.
HandlersHold ==
    \A w \in Worker : Held(w) =>
        /\ h[w].timer \in Timer
        /\ h[w].timer.key.kind # "idle"
        /\ phase[h[w].timer] # "none"
        /\ h[w].pc # "thread" => h[w].step \in Attempt
        /\ h[w].pc = "announce" => Later(w) # {}

\* The attempt has its own place in the plan for its index.
Placed(i, s) == s \in Frozen /\ i = Position(Frozen, s)

\* While nobody edits the card, everybody goes by the plan the chain was armed
\* with, and a timer's index is its attempt's place there.
FrozenPlan ==
    edits = 0 =>
        /\ card.mode = "automatic"
        /\ \A t \in Timer : phase[t] # "none" =>
             IF t.key.kind = "step" THEN Placed(index[t], t.key.step)
                                    ELSE index[t] = 0
        /\ \A w \in Worker : Held(w) =>
             /\ h[w].plan = Frozen
             /\ h[w].step # 0 => Placed(index[h[w].timer], h[w].step)

\* What a message row says of its attempt.
RowsTellWire ==
    edits = 0 =>
        /\ \A s \in Attempt : wire[s] > 0 => s \in Frozen
        /\ \A s \in Frozen :
             /\ message[Position(Frozen, s)] = "none" => wire[s] = 0
             /\ message[Position(Frozen, s)] = "sent" => wire[s] > 0

Calling(w) == h[w].pc \in {"call", "confirm"}

\* The pending row lets one worker call the provider for an attempt.
OneCall ==
    edits = 0 =>
        /\ \A v, w \in Worker :
             Calling(v) /\ Calling(w) /\ h[v].step = h[w].step => v = w
        /\ \A w \in Worker :
             /\ Calling(w) => message[index[h[w].timer]] # "none"
             /\ h[w].pc = "call" => wire[h[w].step] = 0
             /\ h[w].pc = "confirm" => wire[h[w].step] > 0
             /\ h[w].pc \in {"record", "write"} /\ h[w].result = "sent" =>
                  wire[h[w].step] > 0

\* A timer in hand is in one hand, and is armed until its handler is through.
OneHolder ==
    Untroubled =>
        /\ \A v, w \in Worker :
             Held(v) /\ Held(w) /\ h[v].timer = h[w].timer => v = w
        /\ \A w \in Worker : Held(w) =>
             phase[h[w].timer] = "armed" /\ h[w].timer \notin delivered

\* The timer the chain is at: it may still send its attempt or arm the next.
Current(t) ==
    /\ t.key.kind # "idle" /\ phase[t] = "armed" /\ t \notin delivered
    /\ \A w \in Worker : h[w].timer = t => h[w].pc \notin {"defer", "announce"}

OneCurrent ==
    Untroubled =>
        /\ \A t, u \in Timer : Current(t) /\ Current(u) => t = u
        /\ runs = 0 =>
             /\ \A t \in Timer : t.key.kind # "idle" => phase[t] = "none"
             /\ \A s \in Attempt : wire[s] = 0

LateInv ==
    Untroubled /\ edits <= 1 =>
        /\ edits = 0 => card.mode = "automatic"
        /\ late <= 1
        /\ late > 0 =>
             /\ "replied" \in stops \/ card.mode = "disabled"
             /\ \A w \in Worker :
                  /\ h[w].pc \notin {"send", "call"}
                  /\ h[w].pc = "thread" => "replied" \in stops

\* Nothing was sent that comes after the attempt the chain is at.
NothingAhead ==
    Untroubled /\ edits = 0 =>
        \A t \in Timer, x \in Frozen :
            Current(t) /\ wire[x] > 0 => Position(Frozen, x) <= index[t]

-----------------------------------------------------------------------------
(***************************************************************************)
(* An attempt's position in a plan is an index a message key may have.     *)
(***************************************************************************)
LEMMA PositionBounds ==
    ASSUME NEW P \in SUBSET Attempt, NEW s \in Attempt
    PROVE  Position(P, s) \in 0..Last - 1
<1> DEFINE below == {x \in P : x < s}
<1>1. Last \in Nat /\ s \in 1..Last
      BY FollowupAssumption DEF Attempt
<1>2. below \in SUBSET (1..s - 1)
  <2>1. \A x \in below : x \in 1..s - 1
        BY <1>1 DEF Attempt
  <2> HIDE DEF below
  <2> QED
      BY <2>1
<1>3. IsFiniteSet(1..s - 1) /\ Cardinality(1..s - 1) = s - 1
  <2>1. 1 \in Int /\ s - 1 \in Int
        BY <1>1
  <2> QED
      BY <1>1, <2>1, FS_Interval
<1>4. IsFiniteSet(below) /\ Cardinality(below) <= s - 1
  <2> HIDE DEF below
  <2> QED
      BY <1>2, <1>3, FS_Subset
<1>5. Cardinality(below) \in Nat
      BY <1>4, FS_CardinalityType
<1> QED
    BY <1>1, <1>4, <1>5 DEF Position

(***************************************************************************)
(* Positions go up with the attempts of the plan: two of them never share  *)
(* one.                                                                    *)
(***************************************************************************)
LEMMA PositionGrows ==
    ASSUME NEW P \in SUBSET Attempt, NEW x \in P, NEW s \in Attempt, x < s
    PROVE  Position(P, x) < Position(P, s)
<1> DEFINE belowX == {y \in P : y < x}
           belowS == {y \in P : y < s}
<1>1. Last \in Nat /\ s \in 1..Last /\ x \in 1..Last
      BY FollowupAssumption DEF Attempt
<1>2. belowX \in SUBSET belowS /\ belowX # belowS
  <2>1. x \in belowS /\ x \notin belowX
        BY <1>1
  <2>2. \A y \in P : y < x => y < s
        BY <1>1 DEF Attempt
  <2> QED
      BY <2>1, <2>2
<1>3. IsFiniteSet(belowS)
  <2>1. IsFiniteSet(1..Last)
        BY <1>1, FS_Interval
  <2>2. belowS \in SUBSET (1..Last)
        BY DEF Attempt
  <2> HIDE DEF belowS
  <2> QED
      BY <2>1, <2>2, FS_Subset
<1>4. /\ Cardinality(belowX) <= Cardinality(belowS)
      /\ Cardinality(belowX) # Cardinality(belowS)
      /\ Cardinality(belowX) \in Nat /\ Cardinality(belowS) \in Nat
  <2> HIDE DEF belowX, belowS
  <2> QED
      BY <1>2, <1>3, FS_Subset, FS_CardinalityType
<1>5. Cardinality(belowX) < Cardinality(belowS)
      BY <1>4
<1> QED
    BY <1>5 DEF Position

(***************************************************************************)
(* No two attempts of the plan share an index.                             *)
(***************************************************************************)
LEMMA PlacesDiffer ==
    ASSUME NEW i, NEW s, NEW x, Placed(i, s), Placed(i, x)
    PROVE  s = x
<1>1. Frozen \in SUBSET Attempt /\ s \in Frozen /\ x \in Frozen
      BY FollowupAssumption DEF Attempt, Placed
<1>2. s \in Nat /\ x \in Nat
      BY <1>1, FollowupAssumption DEF Attempt
<1>3. /\ Position(Frozen, s) \in Nat /\ Position(Frozen, x) \in Nat
      /\ s < x => Position(Frozen, s) < Position(Frozen, x)
      /\ x < s => Position(Frozen, x) < Position(Frozen, s)
      BY <1>1, PositionGrows, PositionBounds, FollowupAssumption
<1> QED
    BY <1>2, <1>3 DEF Placed

(***************************************************************************)
(* A set of attempts has a first one: there is a next attempt.             *)
(***************************************************************************)
LEMMA FirstOf ==
    ASSUME NEW S \in SUBSET Attempt, S # {}
    PROVE  \E s \in S : \A x \in S : s <= x
<1>1. S \subseteq Nat
      BY FollowupAssumption DEF Attempt
<1>2. PICK s \in S : \A x \in S : ~(<<x, s>> \in OpToRel(<, Nat))
      BY <1>1, NatLessThanWellFounded, WFMin
<1>3. \A x \in S : ~(x < s)
      BY <1>1, <1>2 DEF OpToRel
<1> QED
    BY <1>1, <1>3

(***************************************************************************)
(* The next attempt is a later one of the plan the worker goes by, and its *)
(* index is one a message key may have.                                    *)
(***************************************************************************)
LEMMA NextStepIsLater ==
    ASSUME TypeOK, NEW w \in Worker, Later(w) # {}
    PROVE  /\ NextStep(w) \in h[w].plan /\ NextStep(w) \in Attempt
           /\ NextStep(w) > h[w].step
           /\ NextIndex(w) \in 0..Last - 1
<1>1. h[w].plan \in SUBSET Attempt
      BY DEF TypeOK, Locals
<1>2. Later(w) \in SUBSET Attempt
      BY <1>1 DEF Later
<1>3. \E s \in Later(w) : \A x \in Later(w) : s <= x
      BY <1>2, FirstOf
<1>4. NextStep(w) \in Later(w)
      BY <1>3 DEF NextStep
<1>5. /\ NextStep(w) \in h[w].plan /\ NextStep(w) \in Attempt
      /\ NextStep(w) > h[w].step
      BY <1>1, <1>4 DEF Later
<1> QED
    BY <1>1, <1>5, PositionBounds DEF NextIndex

(***************************************************************************)
(* The attempt of a fire is one of the cadence, or none.                   *)
(***************************************************************************)
LEMMA CurrentStepTypes ==
    ASSUME NEW t \in Timer, NEW P \in SUBSET Attempt
    PROVE  CurrentStep(t, P) \in 0..Last
<1>1. /\ Last \in Nat /\ Attempt \subseteq 0..Last
      /\ t.key.kind = "step" => t.key.step \in Attempt
      BY FollowupAssumption DEF Attempt, Timer, Key
<1>2. P \subseteq 0..Last /\ 0 \in 0..Last
      BY <1>1
<1>3. CASE t.key.kind = "step"
      BY <1>1, <1>3 DEF CurrentStep
<1>4. CASE t.key.kind # "step"
  <2> DEFINE At(s) == Position(P, s) = index[t]
  <2>1. CurrentStep(t, P) = IF \E s \in P : At(s) THEN CHOOSE s \in P : At(s)
                                                  ELSE 0
        BY <1>4 DEF CurrentStep
  <2> HIDE DEF At
  <2>2. (\E s \in P : At(s)) => (CHOOSE s \in P : At(s)) \in P
        OBVIOUS
  <2> QED
      BY <1>2, <2>1, <2>2
<1> QED
    BY <1>3, <1>4

(***************************************************************************)
(* Going by the plan the chain was armed with, the attempt of a fire has   *)
(* its place there.                                                        *)
(***************************************************************************)
LEMMA CurrentStepPlaced ==
    ASSUME NEW t \in Timer,
           IF t.key.kind = "step" THEN Placed(index[t], t.key.step)
                                  ELSE index[t] = 0,
           CurrentStep(t, Frozen) # 0
    PROVE  Placed(index[t], CurrentStep(t, Frozen))
<1>1. CASE t.key.kind = "step"
      BY <1>1 DEF CurrentStep
<1>2. CASE t.key.kind # "step"
  <2>1. \E s \in Frozen : Position(Frozen, s) = index[t]
        BY <1>2 DEF CurrentStep
  <2>2. CurrentStep(t, Frozen) =
          CHOOSE s \in Frozen : Position(Frozen, s) = index[t]
        BY <1>2, <2>1 DEF CurrentStep
  <2> QED
      BY <2>1, <2>2 DEF Placed
<1> QED
    BY <1>1, <1>2

-----------------------------------------------------------------------------
\* A timer comes to exist, with its payload.
Arms(n, i) ==
    /\ n \in Timer /\ phase[n] = "none"
    /\ phase' = [phase EXCEPT ![n] = "armed"]
    /\ index' = [index EXCEPT ![n] = i]

(***************************************************************************)
(* To schedule a key that is not armed arms one timer of it, which nobody  *)
(* has had.                                                                *)
(***************************************************************************)
LEMMA ScheduleArms ==
    ASSUME TypeOK, NEW k, NEW i, Schedule(k, i)
    PROVE  /\ delivered' = delivered
           /\ \/ UNCHANGED <<phase, index>>
              \/ \E n \in Timer : n.key = k /\ Arms(n, i)
<1>1. CASE Clock!Armed(k) # {}
      BY <1>1 DEF Schedule
<1>2. CASE Clock!Armed(k) = {}
  <2>1. /\ delivered' = delivered
        /\ \E n \in Timer : /\ n.key = k /\ phase[n] = "none"
                            /\ phase' = [phase EXCEPT ![n] = "armed"]
        BY <1>2 DEF Schedule, Clock!Arm, Clock!New
  <2>2. PICK n \in Timer : /\ n.key = k /\ phase[n] = "none"
                           /\ phase' = [phase EXCEPT ![n] = "armed"]
        BY <2>1
  <2>3. index' = [t \in Timer |-> IF phase'[t] # phase[t] THEN i
                                                          ELSE index[t]]
        BY <1>2 DEF Schedule
  <2>4. \A t \in Timer : phase'[t] # phase[t] <=> t = n
        BY <2>2 DEF TypeOK
  <2>5. index' = [index EXCEPT ![n] = i]
        BY <2>3, <2>4 DEF TypeOK
  <2> QED
      BY <2>1, <2>2, <2>5 DEF Arms
<1> QED
    BY <1>1, <1>2

(***************************************************************************)
(* Arming a timer touches no timer that exists.                            *)
(***************************************************************************)
LEMMA ArmingTypes ==
    ASSUME TypeOK, NEW n, NEW i \in 0..Last - 1, Arms(n, i)
    PROVE  /\ phase' \in [Timer -> Clock!Phase]
           /\ index' \in [Timer -> 0..Last - 1]
           /\ \A t \in Timer : phase[t] # "none" =>
                                 phase'[t] = phase[t] /\ index'[t] = index[t]
BY DEF TypeOK, Arms, Clock!Phase

(***************************************************************************)
(* What the handlers' locals rest on.                                      *)
(***************************************************************************)
Sound == TypeOK /\ HandlersHold

(***************************************************************************)
(* Before the first delivery nobody holds a timer.                         *)
(***************************************************************************)
LEMMA SoundInitially == Init => Sound
<1> SUFFICES ASSUME Init
             PROVE  Sound
    OBVIOUS
<1>1. /\ phase \in [Timer -> Clock!Phase] /\ delivered \subseteq Timer
      BY DEF Init, Clock!ContractInit, Clock!Phase
<1>2. 0 \in 0..Last - 1 /\ 0 \in 0..MaxThrows /\ 0 \in 0..Last
      BY FollowupAssumption
<1>3. h \in [Worker -> Locals] /\ \A w \in Worker : h[w].pc = "rest"
      BY <1>2 DEF Init, Resting, Locals, Result
<1>4. card \in Card
      BY DEF Init, FreshCard, Card, NoRun, Result
<1>5. TypeOK
      BY <1>1, <1>2, <1>3, <1>4 DEF Init, TypeOK
<1>6. HandlersHold
      BY <1>3 DEF HandlersHold, Held
<1> QED
    BY <1>5, <1>6 DEF Sound

(***************************************************************************)
(* Arming the idle check or the first attempt.                             *)
(***************************************************************************)
LEMMA ArmersSound ==
    ASSUME Sound, ObserveDelivery \/ ScheduleFollowup
    PROVE  Sound'
<1> USE DEF Sound
<1>1. 0 \in 0..Last - 1
      BY FollowupAssumption
<1>2. PICK k : Schedule(k, 0)
      BY DEF ObserveDelivery, ScheduleFollowup
<1>3. /\ delivered' = delivered
      /\ \/ UNCHANGED <<phase, index>>
         \/ \E n \in Timer : n.key = k /\ Arms(n, 0)
      BY <1>2, ScheduleArms
<1>4. /\ phase' \in [Timer -> Clock!Phase]
      /\ index' \in [Timer -> 0..Last - 1]
      /\ \A t \in Timer : phase[t] # "none" => phase'[t] = phase[t]
      BY <1>1, <1>3, ArmingTypes DEF TypeOK
<1>5. TypeOK'
      BY <1>3, <1>4 DEF TypeOK, ObserveDelivery, ScheduleFollowup, bounds
<1>6. HandlersHold'
      BY <1>4 DEF HandlersHold, Held, Later, ObserveDelivery, ScheduleFollowup
<1> QED
    BY <1>5, <1>6

(***************************************************************************)
(* The clock's own steps, and the idle check's hand-over.                  *)
(***************************************************************************)
LEMMA ClockSound ==
    ASSUME Sound, NEW t \in Timer, DetectIdle(t) \/ Fire(t) \/ GiveUp(t)
    PROVE  Sound'
<1> USE DEF Sound
<1>1. /\ phase' \in [Timer -> Clock!Phase] /\ delivered' \subseteq Timer
      /\ \A u \in Timer : phase[u] # "none" => phase'[u] # "none"
      BY DEF TypeOK, DetectIdle, Fire, GiveUp, Clock!HandOver, Clock!Fire,
             Clock!GiveUp, Clock!Phase, Clock!Over
<1>2. TypeOK'
      BY <1>1 DEF TypeOK, DetectIdle, Fire, GiveUp, StillIdle, bounds
<1>3. HandlersHold'
      BY <1>1 DEF HandlersHold, Held, Later, DetectIdle, Fire, GiveUp, bounds
<1> QED
    BY <1>2, <1>3

(***************************************************************************)
(* The drawer, handoffs, and what stops the chain.                         *)
(***************************************************************************)
LEMMA PeopleSound ==
    ASSUME Sound, People
    PROVE  Sound'
<1> USE DEF Sound
<1>1. UNCHANGED <<phase, delivered, index, throws, h, idle, message, wire,
                  logged>>
      BY DEF People, EditCard, Handoff, ReturnToAi, Stop
<1>2. TypeOK'
  <2>1. CASE \E mode \in {"automatic", "manual", "disabled"}, P \in Plans :
               EditCard(mode, P)
    <3>1. \A P \in Plans : P \in SUBSET Attempt
          BY FollowupAssumption DEF Attempt
    <3>2. PICK mode \in {"automatic", "manual", "disabled"}, P \in Plans :
            EditCard(mode, P)
          BY <2>1
    <3>3. card' = [card EXCEPT !.mode = mode, !.plan = P]
          BY <3>2 DEF EditCard
    <3>4. card' \in Card
          BY <3>1, <3>2, <3>3 DEF TypeOK, Card
    <3>5. /\ edits' = edits + 1
          /\ UNCHANGED <<stops, own, runs, refires, crashes, handoffs, late>>
          BY <3>2 DEF EditCard
    <3> QED
        BY <1>1, <3>4, <3>5 DEF TypeOK
  <2>2. CASE Handoff
    <3>1. card' \in Card
          BY <2>2 DEF Handoff, TypeOK, Card
    <3> QED
        BY <1>1, <2>2, <3>1 DEF Handoff, TypeOK
  <2>3. CASE ReturnToAi \/ \E s \in Stops : Stop(s)
        BY <1>1, <2>3 DEF ReturnToAi, Stop, TypeOK, bounds
  <2> QED
      BY <2>1, <2>2, <2>3 DEF People
<1>3. HandlersHold'
      BY <1>1 DEF HandlersHold, Held, Later
<1> QED
    BY <1>2, <1>3

(***************************************************************************)
(* A handler goes on with its own locals or lets go of them; of a timer,   *)
(* an attempt and a plan it never changes its mind.                        *)
(***************************************************************************)
Advances(w) ==
    /\ Held(w)
    /\ \A v \in Worker : v # w => h'[v] = h[v]
    /\ Held(w)' => /\ h'[w].timer = h[w].timer
                   /\ h'[w].step = h[w].step
                   /\ h'[w].plan = h[w].plan

LEMMA HandlerAdvances ==
    ASSUME TypeOK, NEW w \in Worker, HandlerStep(w) \/ Crash(w)
    PROVE  Advances(w) /\ h' \in [Worker -> Locals]
<1>1. Resting \in Locals /\ Resting.pc = "rest"
      BY FollowupAssumption DEF Resting, Locals, Result
<1>2. CASE h' = [h EXCEPT ![w] = Resting] /\ Held(w)
      BY <1>1, <1>2 DEF Advances, Held, TypeOK
<1>3. CASE \E pc : /\ Held(w) /\ Goto(w, pc)
                    /\ pc \in {"send", "call", "confirm", "write", "next",
                              "announce", "defer"}
      BY <1>3 DEF Goto, Advances, Held, TypeOK, Locals
<1>4. CASE \E r \in Result :
             /\ Held(w)
             /\ h' = [h EXCEPT ![w].pc = "record", ![w].result = r]
  <2>1. PICK r \in Result :
          /\ Held(w)
          /\ h' = [h EXCEPT ![w].pc = "record", ![w].result = r]
        BY <1>4
  <2>2. h[w] \in Locals
        BY DEF TypeOK
  <2>3. /\ h' = [h EXCEPT ![w] = [h[w] EXCEPT !.pc = "record", !.result = r]]
        /\ [h[w] EXCEPT !.pc = "record", !.result = r] \in Locals
        BY <2>1, <2>2 DEF Locals, TypeOK
  <2> QED
      BY <2>1, <2>2, <2>3 DEF Advances, Held, TypeOK, Locals
<1>5. CASE ReadThread(w)
      BY <1>2, <1>3, <1>5 DEF ReadThread, Return, Held
<1>6. CASE Defer(w) \/ RecordChannelResult(w) \/ RecordAttemptOnCard(w)
           \/ ScheduleNext(w)
      BY <1>3, <1>6 DEF Defer, RecordChannelResult, RecordAttemptOnCard,
                        ScheduleNext, Held
<1>7. CASE SkipChannel(w) \/ SendMessage(w) \/ CallProvider(w) \/ ConfirmSent(w)
  <2>1. Replay(index[h[w].timer]) \in Result
        BY DEF Replay, Result
  <2> QED
      BY <1>3, <1>4, <1>7, <2>1
         DEF SkipChannel, SendMessage, CallProvider, ConfirmSent, Held, Result
<1>8. CASE AllChannelsFailed(w) \/ EndChain(w) \/ AnnounceNext(w)
           \/ DeferralReturns(w) \/ Crash(w)
      BY <1>2, <1>8 DEF AllChannelsFailed, EndChain, AnnounceNext,
                        DeferralReturns, Crash, Return, CutOff, Held
<1> QED
    BY <1>5, <1>6, <1>7, <1>8 DEF HandlerStep

(***************************************************************************)
(* A handler that goes on with an attempt still holds what it held.        *)
(***************************************************************************)
LEMMA HandlersHoldOn ==
    ASSUME Sound, NEW w \in Worker, Advances(w),
           \A t \in Timer : phase[t] # "none" => phase'[t] # "none",
           Held(w)' =>
             /\ h'[w].pc # "thread" => h[w].step \in Attempt
             /\ h'[w].pc = "announce" => Later(w) # {}
    PROVE  HandlersHold'
BY DEF Sound, HandlersHold, Held, Advances, Later

(***************************************************************************)
(* From the channel's choice to the result on the card.                    *)
(***************************************************************************)
LEMMA MessagingSound ==
    ASSUME Sound, NEW w \in Worker,
           \/ SkipChannel(w) \/ SendMessage(w) \/ CallProvider(w)
           \/ ConfirmSent(w) \/ RecordChannelResult(w)
           \/ RecordAttemptOnCard(w)
    PROVE  Sound'
<1> USE DEF Sound
<1>1. Advances(w) /\ h' \in [Worker -> Locals]
      BY HandlerAdvances DEF HandlerStep
<1>2. /\ h[w].timer \in Timer /\ h[w].step \in Attempt
      /\ h[w].result \in Result /\ index[h[w].timer] \in 0..Last - 1
      BY DEF HandlersHold, Held, TypeOK, Locals, SkipChannel, SendMessage,
             CallProvider, ConfirmSent, RecordChannelResult,
             RecordAttemptOnCard
<1>3. UNCHANGED <<phase, delivered, index, throws, stops, own, idle, runs,
                  edits, refires, crashes, handoffs>>
      BY DEF SkipChannel, SendMessage, CallProvider, ConfirmSent,
             RecordChannelResult, RecordAttemptOnCard, bounds
<1>4. TypeOK'
  <2>1. CASE SkipChannel(w)
        BY <1>1, <1>3, <2>1 DEF SkipChannel, TypeOK, bounds
  <2>2. CASE SendMessage(w)
    <3>1. message' \in [0..Last - 1 -> {"none", "pending", "sent", "failed"}]
          BY <2>2 DEF SendMessage, TypeOK
    <3> QED
        BY <1>1, <1>3, <2>2, <3>1 DEF SendMessage, TypeOK, bounds
  <2>3. CASE CallProvider(w)
    <3>1. \/ message' = message
          \/ message' = [message EXCEPT ![index[h[w].timer]] = "failed"]
          BY <2>3 DEF CallProvider
    <3>2. message' \in [0..Last - 1 -> {"none", "pending", "sent", "failed"}]
          BY <3>1 DEF TypeOK
    <3>3. Accepted(w) \/ UNCHANGED <<wire, late>>
          BY <2>3 DEF CallProvider
    <3>4. wire' \in [Attempt -> Nat] /\ late' \in Nat
          BY <3>3 DEF Accepted, TypeOK
    <3> QED
        BY <1>1, <1>3, <2>3, <3>2, <3>4 DEF CallProvider, TypeOK
  <2>4. CASE ConfirmSent(w)
    <3>1. message' \in [0..Last - 1 -> {"none", "pending", "sent", "failed"}]
          BY <2>4 DEF ConfirmSent, TypeOK
    <3> QED
        BY <1>1, <1>3, <2>4, <3>1 DEF ConfirmSent, TypeOK, bounds
  <2>5. CASE RecordChannelResult(w)
    <3>1. logged' \subseteq [timer : Timer, step : Attempt, result : Result]
          BY <1>2, <2>5 DEF RecordChannelResult, TypeOK
    <3> QED
        BY <1>1, <1>3, <2>5, <3>1 DEF RecordChannelResult, TypeOK, bounds
  <2>6. CASE RecordAttemptOnCard(w)
    <3>1. card' \in Card
          BY <1>2, <2>6 DEF RecordAttemptOnCard, Merged, TypeOK, Card
    <3> QED
        BY <1>1, <1>3, <2>6, <3>1 DEF RecordAttemptOnCard, TypeOK, bounds
  <2> QED
      BY <2>1, <2>2, <2>3, <2>4, <2>5, <2>6
<1>5. h'[w].pc # "announce"
      BY DEF SkipChannel, SendMessage, CallProvider, ConfirmSent, Goto,
             RecordChannelResult, RecordAttemptOnCard, TypeOK, Locals
<1>6. HandlersHold'
      BY <1>1, <1>2, <1>3, <1>5, HandlersHoldOn
<1> QED
    BY <1>4, <1>6

(***************************************************************************)
(* The ways a handler returns, or goes past the thread.                    *)
(***************************************************************************)
LEMMA ReturnSound ==
    ASSUME Sound, NEW w \in Worker,
           \/ ReadThread(w) \/ EndChain(w) \/ AnnounceNext(w)
           \/ DeferralReturns(w)
    PROVE  Sound'
<1> USE DEF Sound
<1>1. Advances(w) /\ h' \in [Worker -> Locals]
      BY HandlerAdvances DEF HandlerStep
<1>2. phase' = phase /\ delivered' \subseteq Timer
      BY <1>1 DEF ReadThread, EndChain, AnnounceNext, DeferralReturns, Return,
                  Clock!HandOver, TypeOK, HandlersHold, Advances
<1>3. card' \in Card
  <2>1. CASE AnnounceNext(w)
    <3>1. NextStep(w) \in Attempt
          BY <2>1, NextStepIsLater DEF AnnounceNext, HandlersHold, Held
    <3> QED
        BY <2>1, <3>1 DEF AnnounceNext, TypeOK, Card
  <2>2. CASE ReadThread(w) \/ EndChain(w) \/ DeferralReturns(w)
        BY <2>2 DEF ReadThread, Retract, EndChain, DeferralReturns, TypeOK,
                    Card
  <2> QED
      BY <2>1, <2>2
<1>4. TypeOK'
      BY <1>1, <1>2, <1>3 DEF ReadThread, EndChain, AnnounceNext,
                              DeferralReturns, TypeOK, bounds
<1>5. Held(w)' => h[w].step \in Attempt /\ h'[w].pc # "announce"
  <2>1. CASE ReadThread(w) /\ ~Return(w)
    <3>1. h[w].step \in Attempt
      <4>1. h[w].step \in 0..Last /\ h[w].step # 0
            BY <2>1 DEF ReadThread, TypeOK, Locals
      <4> QED
          BY <4>1, FollowupAssumption DEF Attempt
    <3> QED
        BY <2>1, <3>1 DEF ReadThread, Goto, TypeOK, Locals
  <2>2. CASE Return(w)
        BY <2>2 DEF Return, Resting, Held, TypeOK
  <2> QED
      BY <2>1, <2>2 DEF EndChain, AnnounceNext, DeferralReturns
<1>6. HandlersHold'
      BY <1>1, <1>2, <1>5, HandlersHoldOn
<1> QED
    BY <1>4, <1>6

(***************************************************************************)
(* A handler that throws or dies counts as a failed hand-over.             *)
(***************************************************************************)
LEMMA CutOffSound ==
    ASSUME Sound, NEW w \in Worker, AllChannelsFailed(w) \/ Crash(w)
    PROVE  Sound'
<1> USE DEF Sound
<1>1. Advances(w) /\ h' \in [Worker -> Locals]
      BY HandlerAdvances DEF HandlerStep
<1>2. throws' \in [Timer -> 0..MaxThrows]
  <2>1. h[w].timer \in Timer
        BY DEF AllChannelsFailed, Crash, HandlersHold, Held
  <2>2. (IF throws[h[w].timer] < MaxThrows THEN throws[h[w].timer] + 1
                                           ELSE throws[h[w].timer])
          \in 0..MaxThrows
        BY <2>1, FollowupAssumption DEF TypeOK
  <2> QED
      BY <2>1, <2>2 DEF AllChannelsFailed, Crash, CutOff, TypeOK
<1>3. TypeOK'
      BY <1>1, <1>2 DEF AllChannelsFailed, Crash, CutOff, TypeOK, bounds
<1>4. ~Held(w)' /\ phase' = phase
      BY DEF AllChannelsFailed, Crash, CutOff, Resting, Held, TypeOK
<1>5. HandlersHold'
      BY <1>1, <1>4, HandlersHoldOn
<1> QED
    BY <1>3, <1>5

(***************************************************************************)
(* Moving an attempt, and arming the next one.                             *)
(***************************************************************************)
LEMMA RearmersSound ==
    ASSUME Sound, NEW w \in Worker, Defer(w) \/ ScheduleNext(w)
    PROVE  Sound'
<1> USE DEF Sound
<1>1. Advances(w) /\ h' \in [Worker -> Locals]
      BY HandlerAdvances DEF HandlerStep
<1>2. PICK i \in 0..Last - 1 : \E k : Schedule(k, i)
  <2>1. CASE Defer(w)
    <3>1. index[h[w].timer] \in 0..Last - 1
          BY <2>1 DEF Defer, HandlersHold, Held, TypeOK
    <3>2. Schedule([h[w].timer.key EXCEPT !.defer = @ + 1], index[h[w].timer])
          BY <2>1 DEF Defer
    <3> QED
        BY <3>1, <3>2
  <2>2. CASE ScheduleNext(w)
        BY <2>2, NextStepIsLater DEF ScheduleNext
  <2> QED
      BY <2>1, <2>2
<1>3. /\ delivered' = delivered
      /\ phase' \in [Timer -> Clock!Phase]
      /\ index' \in [Timer -> 0..Last - 1]
      /\ \A t \in Timer : phase[t] # "none" => phase'[t] # "none"
      BY <1>2, ScheduleArms, ArmingTypes DEF TypeOK
<1>4. TypeOK'
      BY <1>1, <1>3 DEF Defer, ScheduleNext, TypeOK, bounds
<1>5. h[w].step \in Attempt
      BY DEF Defer, ScheduleNext, HandlersHold, Held, TypeOK, Locals
<1>6. h'[w].pc = "announce" => Later(w) # {}
  <2>1. CASE Defer(w)
        BY <2>1 DEF Defer, Goto, TypeOK, Locals
  <2>2. CASE ScheduleNext(w)
        BY <2>2 DEF ScheduleNext
  <2> QED
      BY <2>1, <2>2
<1>7. HandlersHold'
      BY <1>1, <1>3, <1>5, <1>6, HandlersHoldOn
<1> QED
    BY <1>4, <1>7

(***************************************************************************)
(* A worker that is handed a timer reads the card, and perhaps ends there. *)
(***************************************************************************)
Reads(w, t) ==
    /\ ~Held(w) /\ phase[t] = "armed" /\ t.key.kind # "idle"
    /\ UNCHANGED <<phase, delivered, card>>
    /\ h' = [h EXCEPT ![w] = [Resting EXCEPT
               !.pc = "thread", !.timer = t, !.plan = PlanOf(card),
               !.step = CurrentStep(t, PlanOf(card))]]

EndsAtOnce(t) ==
    /\ phase[t] = "armed" /\ t.key.kind # "idle"
    /\ h' = h /\ phase' = phase /\ delivered' = delivered \cup {t}
    /\ card' = card \/ card' = [card EXCEPT !.next = 0]

(***************************************************************************)
(* A hand-over ends where the card is read, or goes on to the thread.      *)
(***************************************************************************)
LEMMA ReadCardCases ==
    ASSUME NEW w \in Worker, NEW t \in Timer, ReadCard(w, t)
    PROVE  Reads(w, t) \/ EndsAtOnce(t)
BY DEF ReadCard, Reads, EndsAtOnce, Held, Clock!HandOver

(***************************************************************************)
(* What a worker takes from the card.                                      *)
(***************************************************************************)
LEMMA ReadLocals ==
    ASSUME TypeOK, NEW w \in Worker, NEW t \in Timer, Reads(w, t)
    PROVE  /\ h' \in [Worker -> Locals]
           /\ \A v \in Worker : v # w => h'[v] = h[v]
           /\ h'[w].pc = "thread" /\ h'[w].timer = t
           /\ h'[w].plan = PlanOf(card)
           /\ h'[w].step = CurrentStep(t, PlanOf(card))
<1>1. PlanOf(card) \in SUBSET Attempt
      BY FollowupAssumption DEF PlanOf, TypeOK, Card, Attempt
<1>2. CurrentStep(t, PlanOf(card)) \in 0..Last
      BY <1>1, CurrentStepTypes
<1>3. [Resting EXCEPT !.pc = "thread", !.timer = t, !.plan = PlanOf(card),
         !.step = CurrentStep(t, PlanOf(card))] \in Locals
      BY <1>1, <1>2 DEF Resting, Locals, Result
<1> QED
    BY <1>3 DEF Reads, TypeOK, Resting

(***************************************************************************)
(* Reading the card keeps the invariant.                                   *)
(***************************************************************************)
LEMMA ReadCardSound ==
    ASSUME Sound, NEW w \in Worker, NEW t \in Timer, ReadCard(w, t)
    PROVE  Sound'
<1> USE DEF Sound
<1>1. /\ UNCHANGED <<index, throws, stops, own, idle, message, wire, logged,
                     runs, edits, crashes, handoffs, late>>
      /\ refires' \in Nat
      BY DEF ReadCard, TypeOK
<1>2. CASE Reads(w, t)
  <2>1. TypeOK'
        BY <1>1, <1>2, ReadLocals DEF Reads, TypeOK
  <2>2. HandlersHold'
        BY <1>2, ReadLocals DEF HandlersHold, Held, Later, Reads
  <2> QED
      BY <2>1, <2>2
<1>3. CASE EndsAtOnce(t)
  <2>1. card' \in Card
        BY <1>3 DEF EndsAtOnce, TypeOK, Card
  <2>2. TypeOK'
        BY <1>1, <1>3, <2>1 DEF EndsAtOnce, TypeOK
  <2>3. HandlersHold'
        BY <1>3 DEF HandlersHold, Held, Later, EndsAtOnce
  <2> QED
      BY <2>2, <2>3
<1> QED
    BY <1>2, <1>3, ReadCardCases

-----------------------------------------------------------------------------
(***************************************************************************)
(* What any step does to timers and hands: a timer that exists keeps its   *)
(* index, a new one is the idle check, the first attempt, the next one or  *)
(* one that was moved; and a hand keeps what it has, or has just read the  *)
(* card.                                                                   *)
(***************************************************************************)
ArmedAs(t) ==
    \/ t.key.kind # "step" /\ index'[t] = 0
    \/ \E w \in Worker :
         /\ Held(w) /\ Later(w) # {}
         /\ t.key = StepKey(NextStep(w)) /\ index'[t] = NextIndex(w)
    \/ \E w \in Worker :
         /\ Held(w)
         /\ t.key = [h[w].timer.key EXCEPT !.defer = @ + 1]
         /\ index'[t] = index[h[w].timer]

ClockStep ==
    \A t \in Timer :
        /\ phase[t] # "none" => phase'[t] # "none" /\ index'[t] = index[t]
        /\ phase[t] = "none" /\ phase'[t] # "none" => ArmedAs(t)

HandStep ==
    \A w \in Worker : Held(w)' =>
        \/ /\ Held(w) /\ h'[w].timer = h[w].timer
           /\ h'[w].step = h[w].step /\ h'[w].plan = h[w].plan
        \/ \E t \in Timer : Reads(w, t)

CardStep ==
    \/ edits' = edits + 1
    \/ edits' = edits /\ card'.mode = card.mode

Shape == ClockStep /\ HandStep /\ CardStep

(***************************************************************************)
(* Only the timer that is armed comes to exist.                            *)
(***************************************************************************)
LEMMA ArmedOnly ==
    ASSUME TypeOK, NEW n, NEW i, Arms(n, i)
    PROVE  \A t \in Timer :
             /\ phase[t] # "none" => phase'[t] # "none" /\ index'[t] = index[t]
             /\ phase[t] = "none" /\ phase'[t] # "none" =>
                  t = n /\ index'[t] = i
BY DEF TypeOK, Arms

(***************************************************************************)
(* Arming the idle check or the first attempt has that shape.              *)
(***************************************************************************)
LEMMA ArmersShape ==
    ASSUME Sound, ObserveDelivery \/ ScheduleFollowup
    PROVE  Shape
<1>1. PICK k \in {IdleKey, FirstKey} : Schedule(k, 0)
      BY DEF ObserveDelivery, ScheduleFollowup
<1>2. \/ UNCHANGED <<phase, index>>
      \/ \E n \in Timer : n.key = k /\ Arms(n, 0)
      BY <1>1, ScheduleArms DEF Sound
<1>3. ClockStep
  <2>1. k.kind # "step"
        BY DEF IdleKey, FirstKey
  <2>2. CASE UNCHANGED <<phase, index>>
        BY <2>2 DEF ClockStep
  <2>3. CASE \E n \in Timer : n.key = k /\ Arms(n, 0)
        BY <2>1, <2>3, ArmedOnly DEF ClockStep, ArmedAs, Sound
  <2> QED
      BY <1>2, <2>2, <2>3
<1>4. h' = h /\ card' = card /\ edits' = edits
      BY DEF ObserveDelivery, ScheduleFollowup, bounds
<1>5. HandStep /\ CardStep
      BY <1>4 DEF HandStep, CardStep, Held
<1> QED
    BY <1>3, <1>5 DEF Shape

(***************************************************************************)
(* So have the clock's own steps,                                          *)
(***************************************************************************)
LEMMA ClockShape ==
    ASSUME Sound, NEW t \in Timer, DetectIdle(t) \/ Fire(t) \/ GiveUp(t)
    PROVE  Shape
<1>1. ClockStep
      BY DEF ClockStep, Sound, TypeOK, DetectIdle, Fire, GiveUp,
             Clock!HandOver, Clock!Fire, Clock!GiveUp
<1>2. h' = h /\ card' = card /\ edits' = edits
      BY DEF DetectIdle, Fire, GiveUp, bounds
<1>3. HandStep /\ CardStep
      BY <1>2 DEF HandStep, CardStep, Held
<1> QED
    BY <1>1, <1>3 DEF Shape

(***************************************************************************)
(* ... those of people,                                                    *)
(***************************************************************************)
LEMMA PeopleShape ==
    ASSUME Sound, People
    PROVE  Shape
<1>1. UNCHANGED <<phase, index, h>>
      BY DEF People, EditCard, Handoff, ReturnToAi, Stop
<1>2. ClockStep /\ HandStep
      BY <1>1 DEF ClockStep, HandStep, Held
<1>3. CardStep
  <2>1. CASE \E mode \in {"automatic", "manual", "disabled"}, P \in Plans :
               EditCard(mode, P)
        BY <2>1 DEF EditCard, CardStep
  <2>2. CASE Handoff \/ ReturnToAi \/ \E s \in Stops : Stop(s)
        BY <2>2 DEF Handoff, ReturnToAi, Stop, bounds, CardStep, Sound,
                    TypeOK, Card
  <2> QED
      BY <2>1, <2>2 DEF People
<1> QED
    BY <1>2, <1>3 DEF Shape

(***************************************************************************)
(* ... reading the card,                                                   *)
(***************************************************************************)
LEMMA ReadCardShape ==
    ASSUME Sound, NEW w \in Worker, NEW t \in Timer, ReadCard(w, t)
    PROVE  Shape
<1>1. /\ UNCHANGED <<phase, index, edits>> /\ card'.mode = card.mode
      BY DEF ReadCard, Clock!HandOver, Sound, TypeOK, Card
<1>2. ClockStep /\ CardStep
      BY <1>1 DEF ClockStep, CardStep
<1>3. HandStep
  <2>1. CASE Reads(w, t)
        BY <2>1, ReadLocals DEF HandStep, Held, Sound
  <2>2. CASE EndsAtOnce(t)
        BY <2>2 DEF HandStep, Held, EndsAtOnce
  <2> QED
      BY <2>1, <2>2, ReadCardCases
<1> QED
    BY <1>2, <1>3 DEF Shape

(***************************************************************************)
(* ... and every other step of a handler.                                  *)
(***************************************************************************)
LEMMA HandlerShape ==
    ASSUME Sound, NEW w \in Worker, HandlerStep(w) \/ Crash(w)
    PROVE  Shape
<1>1. HandStep
      BY HandlerAdvances DEF HandStep, Advances, Held, Sound
<1>2. edits' = edits /\ card'.mode = card.mode
      BY DEF HandlerStep, ReadThread, Defer, SkipChannel, SendMessage,
             CallProvider, ConfirmSent, RecordChannelResult,
             RecordAttemptOnCard, AllChannelsFailed, EndChain, ScheduleNext,
             AnnounceNext, DeferralReturns, Crash, Retract, bounds, Sound,
             TypeOK, Card
<1>3. ClockStep
  <2>1. CASE Defer(w)
    <3> DEFINE k == [h[w].timer.key EXCEPT !.defer = @ + 1]
               i == index[h[w].timer]
    <3>1. Held(w) /\ Schedule(k, i)
          BY <2>1 DEF Defer, Held
    <3> HIDE DEF k, i
    <3>2. \/ UNCHANGED <<phase, index>>
          \/ \E n \in Timer : n.key = k /\ Arms(n, i)
          BY <3>1, ScheduleArms DEF Sound
    <3>3. CASE UNCHANGED <<phase, index>>
          BY <3>3 DEF ClockStep
    <3>4. CASE \E n \in Timer : n.key = k /\ Arms(n, i)
          BY <3>1, <3>4, ArmedOnly DEF ClockStep, ArmedAs, Sound, k, i
    <3> QED
        BY <3>2, <3>3, <3>4
  <2>2. CASE ScheduleNext(w)
    <3> DEFINE k == StepKey(NextStep(w))
               i == NextIndex(w)
    <3>1. Held(w) /\ Later(w) # {} /\ Schedule(k, i)
          BY <2>2 DEF ScheduleNext, Held
    <3> HIDE DEF k, i
    <3>2. \/ UNCHANGED <<phase, index>>
          \/ \E n \in Timer : n.key = k /\ Arms(n, i)
          BY <3>1, ScheduleArms DEF Sound
    <3>3. CASE UNCHANGED <<phase, index>>
          BY <3>3 DEF ClockStep
    <3>4. CASE \E n \in Timer : n.key = k /\ Arms(n, i)
          BY <3>1, <3>4, ArmedOnly DEF ClockStep, ArmedAs, Sound, k, i
    <3> QED
        BY <3>2, <3>3, <3>4
  <2>3. CASE UNCHANGED <<phase, index>>
        BY <2>3 DEF ClockStep
  <2>4. \/ Defer(w) \/ ScheduleNext(w) \/ UNCHANGED <<phase, index>>
        BY DEF HandlerStep, ReadThread, SkipChannel, SendMessage,
               CallProvider, ConfirmSent, RecordChannelResult,
               RecordAttemptOnCard, AllChannelsFailed, EndChain,
               AnnounceNext, DeferralReturns, Crash, CutOff, Return,
               Clock!HandOver
  <2> QED
      BY <2>1, <2>2, <2>3, <2>4
<1> QED
    BY <1>1, <1>2, <1>3 DEF Shape, CardStep

(***************************************************************************)
(* Every step keeps types and hands, and has that shape.                   *)
(***************************************************************************)
LEMMA SoundStep ==
    ASSUME Sound, Next
    PROVE  Sound' /\ Shape
<1>1. CASE ObserveDelivery \/ ScheduleFollowup
      BY <1>1, ArmersSound, ArmersShape
<1>2. CASE \E t \in Timer : DetectIdle(t) \/ Fire(t) \/ GiveUp(t)
      BY <1>2, ClockSound, ClockShape
<1>3. CASE People
      BY <1>3, PeopleSound, PeopleShape
<1>4. CASE \E w \in Worker, t \in Timer : ReadCard(w, t)
      BY <1>4, ReadCardSound, ReadCardShape
<1>5. CASE \E w \in Worker : HandlerStep(w) \/ Crash(w)
  <2> SUFFICES ASSUME NEW w \in Worker, HandlerStep(w) \/ Crash(w)
               PROVE  Sound'
      BY <1>5, HandlerShape
  <2> QED
      BY MessagingSound, ReturnSound, CutOffSound, RearmersSound
         DEF HandlerStep
<1> QED
    BY <1>1, <1>2, <1>3, <1>4, <1>5 DEF Next

(***************************************************************************)
(* Timers and hands stay with the plan the chain was armed with.           *)
(***************************************************************************)
LEMMA FrozenPlanStep ==
    ASSUME Sound, FrozenPlan, Shape
    PROVE  FrozenPlan'
<1> SUFFICES ASSUME edits' = 0
             PROVE  FrozenPlan'
    BY DEF FrozenPlan
<1>1. edits = 0 /\ card'.mode = "automatic" /\ card.mode = "automatic"
      BY DEF Sound, TypeOK, Shape, CardStep, FrozenPlan
<1>2. ASSUME NEW t \in Timer, phase'[t] # "none"
      PROVE  IF t.key.kind = "step" THEN Placed(index'[t], t.key.step)
                                    ELSE index'[t] = 0
  <2>1. CASE phase[t] # "none"
        BY <1>1, <1>2, <2>1 DEF Shape, ClockStep, FrozenPlan
  <2>2. CASE phase[t] = "none" /\ t.key.kind # "step" /\ index'[t] = 0
        BY <2>2
  <2>3. ASSUME NEW w \in Worker, Held(w), Later(w) # {},
               t.key = StepKey(NextStep(w)), index'[t] = NextIndex(w)
        PROVE  t.key.kind = "step" /\ Placed(index'[t], t.key.step)
    <3>1. h[w].plan = Frozen /\ NextStep(w) \in h[w].plan
          BY <1>1, <2>3, NextStepIsLater DEF FrozenPlan, Sound
    <3> QED
        BY <2>3, <3>1 DEF StepKey, NextIndex, Placed
  <2>4. ASSUME NEW w \in Worker, Held(w),
               t.key = [h[w].timer.key EXCEPT !.defer = @ + 1],
               index'[t] = index[h[w].timer]
        PROVE  IF t.key.kind = "step" THEN Placed(index'[t], t.key.step)
                                      ELSE index'[t] = 0
    <3>1. h[w].timer \in Timer /\ phase[h[w].timer] # "none"
          BY <2>4 DEF Sound, HandlersHold
    <3>2. /\ t.key.kind = h[w].timer.key.kind
          /\ t.key.step = h[w].timer.key.step
          BY <2>4, <3>1 DEF Timer, Key
    <3> QED
        BY <1>1, <2>4, <3>1, <3>2 DEF FrozenPlan
  <2> QED
      BY <1>2, <2>1, <2>2, <2>3, <2>4 DEF Shape, ClockStep, ArmedAs
<1>3. ASSUME NEW w \in Worker, Held(w)'
      PROVE  /\ h'[w].plan = Frozen
             /\ h'[w].step # 0 => Placed(index'[h'[w].timer], h'[w].step)
  <2>1. CASE /\ Held(w) /\ h'[w].timer = h[w].timer
             /\ h'[w].step = h[w].step /\ h'[w].plan = h[w].plan
        BY <1>1, <2>1
           DEF FrozenPlan, Sound, HandlersHold, Shape, ClockStep
  <2>2. ASSUME NEW t \in Timer, Reads(w, t)
        PROVE  /\ h'[w].plan = Frozen
               /\ h'[w].step # 0 => Placed(index'[h'[w].timer], h'[w].step)
    <3>1. /\ h'[w].plan = Frozen /\ h'[w].timer = t
          /\ h'[w].step = CurrentStep(t, Frozen)
          BY <1>1, <2>2, ReadLocals DEF PlanOf, Sound
    <3>2. phase[t] # "none" /\ index'[t] = index[t]
          BY <2>2 DEF Reads, Shape, ClockStep
    <3> QED
        BY <1>1, <3>1, <3>2, CurrentStepPlaced DEF FrozenPlan
  <2> QED
      BY <1>3, <2>1, <2>2 DEF Shape, HandStep
<1> QED
    BY <1>1, <1>2, <1>3 DEF FrozenPlan, Placed

-----------------------------------------------------------------------------
(***************************************************************************)
(* Messages, while nobody edits the card.                                  *)
(***************************************************************************)
MessageInv ==
    RowsTellWire /\ OneCall /\ EachAttemptOnce /\ SentWasAcceptedUnedited

\* A step that neither sends nor records that something was sent.
Quiet ==
    /\ UNCHANGED <<message, wire>>
    /\ card'.attempts = card.attempts
    /\ \A w \in Worker :
         h'[w].pc \in {"call", "confirm", "record", "write"} =>
           \/ h'[w] = h[w]
           \/ h'[w].pc = "record" /\ h'[w].result # "sent"

(***************************************************************************)
(* Such a step keeps what the rows tell.                                   *)
(***************************************************************************)
LEMMA QuietKeepsMessages ==
    ASSUME Sound, MessageInv, Shape, Quiet
    PROVE  MessageInv'
<1>1. edits' = 0 => edits = 0
      BY DEF Shape, CardStep, Sound, TypeOK
<1>2. (RowsTellWire /\ EachAttemptOnce /\ SentWasAcceptedUnedited)'
      BY <1>1 DEF Quiet, MessageInv, RowsTellWire, EachAttemptOnce,
                  SentWasAcceptedUnedited, SentWasAccepted
<1>3. OneCall'
  <2>1. ASSUME NEW w \in Worker, Calling(w)'
        PROVE  /\ h'[w] = h[w] /\ Calling(w)
               /\ index'[h'[w].timer] = index[h[w].timer]
    <3>1. h'[w] = h[w] /\ Calling(w)
          BY <2>1 DEF Quiet, Calling
    <3>2. h[w].timer \in Timer /\ phase[h[w].timer] # "none"
          BY <3>1 DEF Calling, Sound, HandlersHold, Held
    <3> QED
        BY <3>1, <3>2 DEF Shape, ClockStep
  <2>2. \A w \in Worker :
          h'[w].pc \in {"record", "write"} /\ h'[w].result = "sent" =>
            h'[w] = h[w]
        BY DEF Quiet
  <2> QED
      BY <1>1, <2>1, <2>2 DEF Quiet, MessageInv, OneCall, Calling
<1> QED
    BY <1>2, <1>3 DEF MessageInv

(***************************************************************************)
(* Whoever is past the thread has the index of its attempt, which no other *)
(* attempt of the plan has.                                                *)
(***************************************************************************)
LEMMA HeldPlaced ==
    ASSUME Sound, FrozenPlan, edits = 0,
           NEW w \in Worker, Held(w), h[w].pc # "thread"
    PROVE  /\ h[w].step \in Frozen /\ h[w].step \in Attempt
           /\ index[h[w].timer] \in 0..Last - 1
           /\ index[h[w].timer] = Position(Frozen, h[w].step)
           /\ \A s \in Frozen :
                Position(Frozen, s) = index[h[w].timer] => s = h[w].step
<1>1. /\ h[w].timer \in Timer /\ h[w].step \in Attempt /\ h[w].step # 0
      /\ index[h[w].timer] \in 0..Last - 1
      BY DEF Sound, HandlersHold, TypeOK, Attempt
<1>2. Placed(index[h[w].timer], h[w].step)
      BY <1>1 DEF FrozenPlan
<1>3. \A s \in Frozen :
        Placed(index[h[w].timer], s) => s = h[w].step
      BY <1>2, PlacesDiffer
<1> QED
    BY <1>1, <1>2, <1>3 DEF Placed

(***************************************************************************)
(* The pending row is inserted once, and refused to everybody else.        *)
(***************************************************************************)
LEMMA SendKeepsMessages ==
    ASSUME Sound, FrozenPlan, MessageInv, NEW w \in Worker, SendMessage(w)
    PROVE  MessageInv'
<1> SUFFICES ASSUME edits = 0
             PROVE  MessageInv'
    BY DEF MessageInv, RowsTellWire, OneCall, EachAttemptOnce,
           SentWasAcceptedUnedited, SendMessage, bounds
<1> DEFINE i == index[h[w].timer]
           s == h[w].step
<1> USE DEF MessageInv
<1>1. /\ s \in Frozen /\ s \in Attempt /\ i \in 0..Last - 1
      /\ i = Position(Frozen, s)
      /\ \A x \in Frozen : Position(Frozen, x) = i => x = s
      BY HeldPlaced DEF SendMessage, Held
<1>2. /\ UNCHANGED <<phase, index, wire, card, edits>>
      /\ \A v \in Worker : v # w => h'[v] = h[v]
      /\ h'[w].timer = h[w].timer /\ h'[w].step = s
      BY DEF SendMessage, Goto, bounds, Sound, TypeOK, Locals
<1>3. (EachAttemptOnce /\ SentWasAcceptedUnedited)'
      BY <1>2 DEF EachAttemptOnce, SentWasAcceptedUnedited, SentWasAccepted
<1>4. CASE message[i] = "none" /\ own = "ai_active"
  <2>1. h'[w].pc = "call" /\ message' = [message EXCEPT ![i] = "pending"]
        BY <1>4 DEF SendMessage, Unclaimed, Goto, Sound, TypeOK, Locals
  <2>2. wire[s] = 0
        BY <1>1, <1>4 DEF RowsTellWire
  <2>3. \A v \in Worker : Calling(v) => h[v].step # s
    <3> SUFFICES ASSUME NEW v \in Worker, Calling(v), h[v].step = s
                 PROVE  FALSE
        OBVIOUS
    <3>1. index[h[v].timer] = i
          BY <1>1, HeldPlaced DEF Calling, Held
    <3> QED
        BY <1>4, <3>1 DEF OneCall
  <2>4. RowsTellWire'
        BY <1>1, <1>2, <2>1 DEF RowsTellWire, Sound, TypeOK
  <2>5. OneCall'
    <3>1. \A v \in Worker : v # w => (Calling(v)' <=> Calling(v))
          BY <1>2 DEF Calling
    <3>2. \A j : message'[j] = "none" => message[j] = "none"
          BY <1>1, <2>1 DEF Sound, TypeOK
    <3>3. message'[i] # "none"
          BY <1>1, <2>1 DEF Sound, TypeOK
    <3>4. \A u, v \in Worker :
            Calling(u)' /\ Calling(v)' /\ h'[u].step = h'[v].step => u = v
          BY <1>2, <2>3, <3>1 DEF OneCall
    <3> QED
        BY <1>2, <2>1, <2>2, <3>1, <3>2, <3>3, <3>4 DEF OneCall
  <2> QED
      BY <1>3, <2>4, <2>5
<1>5. CASE ~(message[i] = "none" /\ own = "ai_active")
  <2>1. /\ message' = message /\ h'[w].pc = "record"
        /\ h'[w].result = "sent" => message[i] = "sent"
        BY <1>5 DEF SendMessage, Unclaimed, Replay, Sound, TypeOK, Locals
  <2>2. h'[w].result = "sent" => wire[s] > 0
        BY <1>1, <2>1 DEF RowsTellWire
  <2>3. (RowsTellWire /\ OneCall)'
        BY <1>2, <2>1, <2>2 DEF RowsTellWire, OneCall, Calling
  <2> QED
      BY <1>3, <2>3
<1> QED
    BY <1>4, <1>5

(***************************************************************************)
(* The call and its confirmation are the one worker's that inserted the    *)
(* row.                                                                    *)
(***************************************************************************)
LEMMA CallKeepsMessages ==
    ASSUME Sound, FrozenPlan, MessageInv, NEW w \in Worker,
           CallProvider(w) \/ ConfirmSent(w)
    PROVE  MessageInv'
<1> SUFFICES ASSUME edits = 0
             PROVE  MessageInv'
    BY DEF MessageInv, RowsTellWire, OneCall, EachAttemptOnce, bounds,
           SentWasAcceptedUnedited, CallProvider, ConfirmSent
<1> DEFINE i == index[h[w].timer]
           s == h[w].step
<1> USE DEF MessageInv
<1>1. /\ s \in Frozen /\ s \in Attempt /\ i \in 0..Last - 1
      /\ i = Position(Frozen, s)
      /\ \A x \in Frozen : Position(Frozen, x) = i => x = s
      /\ Calling(w)
      BY HeldPlaced DEF CallProvider, ConfirmSent, Held, Calling
<1>2. /\ UNCHANGED <<phase, index, card, edits>>
      /\ \A v \in Worker : v # w => h'[v] = h[v]
      /\ h'[w].timer = h[w].timer /\ h'[w].step = s
      BY DEF CallProvider, ConfirmSent, Goto, bounds, Sound, TypeOK, Locals
<1>3. \A v \in Worker : v # w /\ Calling(v) => h[v].step # s
      BY <1>1 DEF OneCall
<1>4. /\ \A x \in Attempt : x # s => wire'[x] = wire[x]
      /\ wire'[s] \in {wire[s], wire[s] + 1} /\ wire[s] \in Nat
      /\ wire'[s] # wire[s] => h[w].pc = "call"
      BY <1>1 DEF CallProvider, Accepted, ConfirmSent, Sound, TypeOK
<1>5. /\ \A j \in 0..Last - 1 : j # i => message'[j] = message[j]
      /\ message'[i] # "none"
      BY <1>1 DEF CallProvider, ConfirmSent, Sound, TypeOK, OneCall
<1>6. /\ message'[i] = "sent" => wire'[s] > 0
      /\ h'[w].pc \in {"confirm", "record"}
      /\ h'[w].pc = "confirm" => wire'[s] > 0
      /\ h'[w].result = "sent" /\ h'[w].pc = "record" => wire'[s] > 0
  <2>1. CASE ConfirmSent(w)
        BY <1>1, <1>4, <2>1 DEF ConfirmSent, OneCall, Sound, TypeOK, Locals
  <2>2. CASE CallProvider(w) /\ h'[w].pc = "confirm"
    <3>1. Accepted(w)
          BY <2>2 DEF CallProvider, Sound, TypeOK, Locals
    <3> QED
        BY <1>1, <1>4, <2>2, <3>1 DEF Accepted, Sound, TypeOK
  <2>3. CASE CallProvider(w) /\ h'[w].pc # "confirm"
    <3>1. /\ message' = [message EXCEPT ![i] = "failed"]
          /\ h'[w].pc = "record" /\ h'[w].result # "sent"
          BY <2>3 DEF CallProvider, Goto, Sound, TypeOK, Locals
    <3>2. message'[i] = "failed"
          BY <1>1, <3>1 DEF Sound, TypeOK
    <3> QED
        BY <3>1, <3>2
  <2> QED
      BY <2>1, <2>2, <2>3
<1>7. RowsTellWire'
  <2>1. \A x \in Frozen : x \in Attempt /\ Position(Frozen, x) \in 0..Last - 1
        BY PositionBounds, FollowupAssumption DEF Attempt
  <2>2. \A x \in Attempt : wire'[x] > 0 => x \in Frozen
        BY <1>1, <1>4 DEF RowsTellWire
  <2>3. \A x \in Frozen : x # s => Position(Frozen, x) # i
        BY <1>1
  <2> QED
      BY <1>1, <1>2, <1>4, <1>5, <1>6, <2>1, <2>2, <2>3 DEF RowsTellWire
<1>8. OneCall'
  <2>1. \A v \in Worker : v # w =>
          /\ h'[v] = h[v] /\ (Calling(v)' <=> Calling(v))
          /\ Calling(v) => index[h[v].timer] \in 0..Last - 1
          /\ Held(v) /\ h[v].pc # "thread" => h[v].step \in Attempt
        BY <1>2 DEF Calling, Sound, HandlersHold, Held, TypeOK
  <2>2. \A u, v \in Worker :
          Calling(u)' /\ Calling(v)' /\ h'[u].step = h'[v].step => u = v
        BY <1>2, <1>3, <2>1 DEF OneCall
  <2>3. \A v \in Worker : Calling(v)' => message'[index'[h'[v].timer]] # "none"
        BY <1>2, <1>5, <2>1 DEF OneCall
  <2>4. ASSUME NEW v \in Worker, v # w
        PROVE  /\ h'[v].pc = "call" => wire'[h'[v].step] = 0
               /\ h'[v].pc = "confirm" => wire'[h'[v].step] > 0
               /\ h'[v].pc \in {"record", "write"} /\ h'[v].result = "sent" =>
                    wire'[h'[v].step] > 0
    <3>1. h'[v] = h[v]
          BY <2>1, <2>4
    <3>2. CASE Calling(v)
          BY <1>3, <1>4, <2>1, <2>4, <3>1, <3>2 DEF OneCall, Calling, Held
    <3>3. CASE h[v].pc \in {"record", "write"} /\ h[v].result = "sent"
      <4>1. wire[h[v].step] > 0 /\ h[v].step \in Attempt
            BY <2>1, <2>4, <3>3 DEF OneCall, Held
      <4> QED
          BY <1>4, <3>1, <3>3, <4>1
    <3> QED
        BY <3>1, <3>2, <3>3 DEF Calling
  <2> QED
      BY <1>2, <1>6, <2>2, <2>3, <2>4 DEF OneCall
<1>9. (EachAttemptOnce /\ SentWasAcceptedUnedited)'
  <2>1. h[w].pc = "call" => wire[s] = 0
        BY DEF OneCall
  <2>2. \A x \in Attempt : wire'[x] <= 1
        BY <1>4, <2>1 DEF EachAttemptOnce
  <2>3. \A x \in Attempt : wire[x] > 0 => wire'[x] > 0
        BY <1>4
  <2> QED
      BY <1>2, <2>2, <2>3 DEF EachAttemptOnce, SentWasAcceptedUnedited,
                              SentWasAccepted
<1> QED
    BY <1>7, <1>8, <1>9

(***************************************************************************)
(* What is recorded as sent was told sent by the row.                      *)
(***************************************************************************)
LEMMA RecordKeepsMessages ==
    ASSUME Sound, FrozenPlan, MessageInv, NEW w \in Worker,
           RecordChannelResult(w) \/ RecordAttemptOnCard(w)
    PROVE  MessageInv'
<1> USE DEF MessageInv
<1>1. /\ UNCHANGED <<index, wire, message, edits>>
      /\ \A v \in Worker : v # w => h'[v] = h[v]
      /\ h'[w].timer = h[w].timer /\ h'[w].step = h[w].step
      /\ h'[w].result = h[w].result
      /\ h[w].pc \in {"record", "write"} /\ h'[w].pc \in {"write", "next"}
      BY DEF RecordChannelResult, RecordAttemptOnCard, Goto, bounds, Sound,
             TypeOK, Locals
<1>2. (RowsTellWire /\ EachAttemptOnce)'
      BY <1>1 DEF RowsTellWire, EachAttemptOnce
<1>3. OneCall'
      BY <1>1 DEF OneCall, Calling
<1>4. SentWasAcceptedUnedited'
  <2>1. CASE RecordChannelResult(w)
        BY <1>1, <2>1 DEF RecordChannelResult, SentWasAcceptedUnedited,
                          SentWasAccepted
  <2>2. CASE RecordAttemptOnCard(w)
    <3>1. h[w].pc = "write" /\ h[w].step \in Attempt
          BY <2>2 DEF RecordAttemptOnCard, Sound, HandlersHold, Held
    <3>2. \A x \in Attempt : card'.attempts[x].result = "sent" =>
            \/ card.attempts[x].result = "sent"
            \/ x = h[w].step /\ h[w].result = "sent"
          BY <2>2, <3>1 DEF RecordAttemptOnCard, Merged, Sound, TypeOK, Card
    <3> QED
        BY <1>1, <3>1, <3>2 DEF SentWasAcceptedUnedited, SentWasAccepted,
                                OneCall
  <2> QED
      BY <2>1, <2>2
<1> QED
    BY <1>2, <1>3, <1>4

(***************************************************************************)
(* Every step keeps the invariant on messages.                             *)
(***************************************************************************)
LEMMA MessageStep ==
    ASSUME Sound, FrozenPlan, MessageInv, Next
    PROVE  MessageInv'
<1>1. Shape
      BY SoundStep
<1>2. CASE ObserveDelivery \/ ScheduleFollowup
      BY <1>1, <1>2, QuietKeepsMessages
         DEF ObserveDelivery, ScheduleFollowup, Quiet, bounds
<1>3. CASE \E t \in Timer : DetectIdle(t) \/ Fire(t) \/ GiveUp(t)
      BY <1>1, <1>3, QuietKeepsMessages
         DEF DetectIdle, Fire, GiveUp, Quiet, bounds
<1>4. CASE People
  <2>1. Quiet
    <3>1. UNCHANGED <<message, wire, h>>
          BY <1>4 DEF People, EditCard, Handoff, ReturnToAi, Stop, bounds
    <3>2. card'.attempts = card.attempts
      <4>1. CASE \E mode \in {"automatic", "manual", "disabled"},
                    P \in Plans : EditCard(mode, P)
            BY <4>1 DEF EditCard, Sound, TypeOK, Card
      <4>2. CASE Handoff \/ ReturnToAi \/ \E s \in Stops : Stop(s)
            BY <4>2 DEF Handoff, ReturnToAi, Stop, Sound, TypeOK, Card
      <4> QED
          BY <1>4, <4>1, <4>2 DEF People
    <3> QED
        BY <3>1, <3>2 DEF Quiet
  <2> QED
      BY <1>1, <2>1, QuietKeepsMessages
<1>5. ASSUME NEW w \in Worker, NEW t \in Timer, ReadCard(w, t)
      PROVE  MessageInv'
  <2>1. UNCHANGED <<message, wire>> /\ card'.attempts = card.attempts
        BY <1>5 DEF ReadCard, Sound, TypeOK, Card
  <2>2. Quiet
    <3>1. CASE Reads(w, t)
          BY <2>1, <3>1, ReadLocals DEF Quiet, Sound
    <3>2. CASE EndsAtOnce(t)
          BY <2>1, <3>2 DEF Quiet, EndsAtOnce
    <3> QED
        BY <1>5, <3>1, <3>2, ReadCardCases
  <2> QED
      BY <1>1, <2>2, QuietKeepsMessages
<1>6. ASSUME NEW w \in Worker,
             \/ ReadThread(w) \/ Defer(w) \/ SkipChannel(w)
             \/ AllChannelsFailed(w) \/ EndChain(w) \/ ScheduleNext(w)
             \/ AnnounceNext(w) \/ DeferralReturns(w) \/ Crash(w)
      PROVE  MessageInv'
  <2>1. UNCHANGED <<message, wire>> /\ card'.attempts = card.attempts
        BY <1>6 DEF ReadThread, Retract, Defer, SkipChannel,
                    AllChannelsFailed, EndChain, ScheduleNext, AnnounceNext,
                    DeferralReturns, Crash, Sound, TypeOK, Card
  <2>2. /\ \A v \in Worker : v # w => h'[v] = h[v]
        /\ \/ h'[w].pc \notin {"call", "confirm", "record", "write"}
           \/ h'[w].pc = "record" /\ h'[w].result # "sent"
    <3>1. CASE h' = [h EXCEPT ![w] = Resting]
          BY <3>1 DEF Resting, Sound, TypeOK
    <3>2. CASE \E pc \in {"send", "next", "announce", "defer"} : Goto(w, pc)
          BY <3>2 DEF Goto, Sound, TypeOK, Locals
    <3>3. CASE SkipChannel(w)
          BY <3>3 DEF SkipChannel, Sound, TypeOK, Locals
    <3> QED
        BY <1>6, <3>1, <3>2, <3>3
           DEF ReadThread, Defer, AllChannelsFailed, EndChain, ScheduleNext,
               AnnounceNext, DeferralReturns, Crash, Return, CutOff
  <2>3. Quiet
        BY <2>1, <2>2 DEF Quiet
  <2> QED
      BY <1>1, <2>3, QuietKeepsMessages
<1>7. ASSUME NEW w \in Worker,
             \/ SendMessage(w) \/ CallProvider(w) \/ ConfirmSent(w)
             \/ RecordChannelResult(w) \/ RecordAttemptOnCard(w)
      PROVE  MessageInv'
      BY <1>7, SendKeepsMessages, CallKeepsMessages, RecordKeepsMessages
<1> QED
    BY <1>2, <1>3, <1>4, <1>5, <1>6, <1>7 DEF Next, HandlerStep

-----------------------------------------------------------------------------
(***************************************************************************)
(* The chain, while nothing but failures and handed-over timers troubles   *)
(* it.                                                                     *)
(***************************************************************************)
ChainInv == OneHolder /\ OneCurrent /\ LateInv /\ NothingAhead

Busy(w) == Held(w) /\ h[w].pc \notin {"defer", "announce"}

(***************************************************************************)
(* A handler that is not through with its timer is where the chain is.     *)
(***************************************************************************)
LEMMA BusyIsCurrent ==
    ASSUME Sound, OneHolder, Untroubled, NEW w \in Worker, Busy(w)
    PROVE  Current(h[w].timer)
<1>1. /\ h[w].timer \in Timer /\ h[w].timer.key.kind # "idle"
      /\ phase[h[w].timer] = "armed" /\ h[w].timer \notin delivered
      BY DEF Sound, HandlersHold, OneHolder, Busy
<1>2. \A v \in Worker :
        h[v].timer = h[w].timer => h[v].pc \notin {"defer", "announce"}
      BY DEF OneHolder, Busy, Held
<1> QED
    BY <1>1, <1>2 DEF Current

(***************************************************************************)
(* ... and there is one such handler.                                      *)
(***************************************************************************)
LEMMA OneBusy ==
    ASSUME Sound, OneHolder, OneCurrent, Untroubled,
           NEW v \in Worker, NEW w \in Worker, Busy(v), Busy(w)
    PROVE  v = w
<1>1. Current(h[v].timer) /\ Current(h[w].timer)
      BY BusyIsCurrent
<1>2. h[v].timer \in Timer /\ h[w].timer \in Timer
      BY DEF Sound, HandlersHold, Busy
<1>3. h[v].timer = h[w].timer
      BY <1>1, <1>2 DEF OneCurrent
<1> QED
    BY <1>3 DEF OneHolder, Busy

(***************************************************************************)
(* The histories only grow.                                                *)
(***************************************************************************)
LEMMA HistoriesGrow ==
    ASSUME Sound, Next
    PROVE  /\ Untroubled' => Untroubled
           /\ edits' = 0 => edits = 0
<1>1. edits' = 0 => edits = 0
      BY SoundStep DEF Shape, CardStep, Sound, TypeOK
<1>2. crashes' >= crashes /\ refires' >= refires /\ runs' >= runs
  <2> USE DEF Sound, TypeOK
  <2>1. CASE ObserveDelivery \/ ScheduleFollowup
        BY <2>1 DEF ObserveDelivery, ScheduleFollowup, bounds
  <2>2. CASE \E t \in Timer : DetectIdle(t) \/ Fire(t) \/ GiveUp(t)
        BY <2>2 DEF DetectIdle, Fire, GiveUp, bounds
  <2>3. CASE People
    <3>1. UNCHANGED <<crashes, refires, runs>>
          BY <2>3 DEF People, EditCard, Handoff, ReturnToAi, Stop, bounds
    <3> QED
        BY <3>1
  <2>4. CASE \E w \in Worker, t \in Timer : ReadCard(w, t)
        BY <2>4 DEF ReadCard
  <2>5. CASE \E w \in Worker : HandlerStep(w) \/ Crash(w)
        BY <2>5 DEF HandlerStep, ReadThread, Defer, SkipChannel,
             SendMessage, CallProvider, ConfirmSent, RecordChannelResult,
             RecordAttemptOnCard, AllChannelsFailed, EndChain, ScheduleNext,
             AnnounceNext, DeferralReturns, Crash, bounds
  <2> QED
      BY <2>1, <2>2, <2>3, <2>4, <2>5 DEF Next
<1>3. Untroubled' => Untroubled
  <2>1. /\ crashes \in Nat /\ refires \in Nat /\ runs \in Nat
        /\ crashes' \in Nat /\ refires' \in Nat /\ runs' \in Nat
        BY SoundStep DEF Sound, TypeOK
  <2> QED
      BY <1>2, <2>1 DEF Untroubled
<1> QED
    BY <1>1, <1>3

(***************************************************************************)
(* The chain stays where it is when no timer becomes current and nothing   *)
(* is sent.                                                                *)
(***************************************************************************)
LEMMA StaysAt ==
    ASSUME OneCurrent, NothingAhead, FrozenPlan, Shape,
           Untroubled' => Untroubled, edits' = 0 => edits = 0,
           runs' = runs, wire' = wire,
           \A t \in Timer : t.key.kind # "idle" /\ phase[t] = "none" =>
                              phase'[t] = "none",
           Untroubled' => \A t \in Timer : Current(t)' => Current(t)
    PROVE  OneCurrent' /\ NothingAhead'
<1>1. OneCurrent'
      BY DEF OneCurrent
<1>2. \A t \in Timer : Current(t) => index'[t] = index[t]
      BY DEF Current, Shape, ClockStep
<1>3. NothingAhead'
      BY <1>2 DEF NothingAhead
<1> QED
    BY <1>1, <1>3

(***************************************************************************)
(* Nobody new comes to send after a stop.                                  *)
(***************************************************************************)
LEMMA LateStays ==
    ASSUME Sound, LateInv, Shape, Untroubled' => Untroubled,
           late' = late, stops \subseteq stops',
           \A w \in Worker :
             /\ h'[w].pc \in {"send", "call"} =>
                  \/ h[w].pc \in {"send", "call"}
                  \/ h[w].pc = "thread" /\ "replied" \notin stops
             /\ h'[w].pc = "thread" =>
                  h[w].pc = "thread" \/ card.mode # "disabled"
    PROVE  LateInv'
<1> SUFFICES ASSUME Untroubled', edits' <= 1
             PROVE  /\ edits' = 0 => card'.mode = "automatic"
                    /\ late' <= 1
                    /\ late' > 0 =>
                         /\ "replied" \in stops' \/ card'.mode = "disabled"
                         /\ \A w \in Worker :
                              /\ h'[w].pc \notin {"send", "call"}
                              /\ h'[w].pc = "thread" => "replied" \in stops'
    BY DEF LateInv
<1>1. edits \in Nat /\ edits <= 1 /\ Untroubled
      BY DEF Shape, CardStep, Sound, TypeOK
<1>2. late <= 1 /\ (edits = 0 => card.mode = "automatic")
      BY <1>1 DEF LateInv
<1>3. edits' = 0 => card'.mode = "automatic"
      BY <1>1, <1>2 DEF Shape, CardStep
<1>4. ASSUME late' > 0
      PROVE  /\ "replied" \in stops' \/ card'.mode = "disabled"
             /\ \A w \in Worker :
                  /\ h'[w].pc \notin {"send", "call"}
                  /\ h'[w].pc = "thread" => "replied" \in stops'
  <2>1. /\ "replied" \in stops \/ card.mode = "disabled"
        /\ \A w \in Worker :
             /\ h[w].pc \notin {"send", "call"}
             /\ h[w].pc = "thread" => "replied" \in stops
        BY <1>1, <1>4 DEF LateInv
  <2>2. "replied" \in stops \/ card'.mode = "disabled"
        BY <1>1, <1>2, <2>1 DEF Shape, CardStep
  <2> QED
      BY <2>1, <2>2
<1> QED
    BY <1>2, <1>3, <1>4

(***************************************************************************)
(* Those who run no handler: the observer, the clock and the people.       *)
(***************************************************************************)
LEMMA AsideKeepsChain ==
    ASSUME Sound, FrozenPlan, ChainInv, Next,
           \/ ObserveDelivery \/ People
           \/ \E t \in Timer : DetectIdle(t) \/ Fire(t) \/ GiveUp(t)
    PROVE  ChainInv'
<1> USE DEF ChainInv
<1>1. Shape /\ (Untroubled' => Untroubled) /\ (edits' = 0 => edits = 0)
      BY SoundStep, HistoriesGrow
<1>2. UNCHANGED <<h, runs, wire, late>> /\ stops \subseteq stops'
      BY DEF ObserveDelivery, People, EditCard, Handoff, ReturnToAi, Stop,
             DetectIdle, Fire, GiveUp, bounds
<1>3. \A t \in Timer : t.key.kind # "idle" =>
        /\ phase'[t] = "armed" => phase[t] = "armed"
        /\ phase[t] = "none" => phase'[t] = "none"
        /\ phase[t] = "armed" =>
             \/ phase'[t] = "armed"
             \/ t \in delivered \/ \A w \in Worker : h[w].timer # t
        /\ t \in delivered' <=> t \in delivered
  <2>1. CASE ObserveDelivery
    <3>1. /\ delivered' = delivered
          /\ \/ UNCHANGED <<phase, index>>
             \/ \E n \in Timer : n.key = IdleKey /\ Arms(n, 0)
          BY <2>1, ScheduleArms DEF ObserveDelivery, Sound
    <3> QED
        BY <3>1 DEF Arms, IdleKey, Sound, TypeOK
  <2>2. CASE People
        BY <2>2 DEF People, EditCard, Handoff, ReturnToAi, Stop
  <2>3. ASSUME NEW u \in Timer, DetectIdle(u) \/ Fire(u) \/ GiveUp(u)
        PROVE  \A t \in Timer : t.key.kind # "idle" =>
                 /\ phase'[t] = "armed" => phase[t] = "armed"
                 /\ phase[t] = "none" => phase'[t] = "none"
                 /\ phase[t] = "armed" =>
                      \/ phase'[t] = "armed"
                      \/ t \in delivered \/ \A w \in Worker : h[w].timer # t
                 /\ t \in delivered' <=> t \in delivered
        BY <2>3 DEF DetectIdle, IdleKey, Fire, GiveUp, Clock!HandOver,
                    Clock!Fire, Clock!GiveUp, Sound, TypeOK
  <2> QED
      BY <2>1, <2>2, <2>3
<1>4. OneHolder'
  <2>1. \A w \in Worker : Held(w) =>
          h[w].timer \in Timer /\ h[w].timer.key.kind # "idle"
        BY DEF Sound, HandlersHold
  <2> QED
      BY <1>1, <1>2, <1>3, <2>1 DEF OneHolder, Held
<1>5. \A t \in Timer : Current(t)' => Current(t)
      BY <1>2, <1>3 DEF Current
<1>6. OneCurrent' /\ NothingAhead'
      BY <1>1, <1>2, <1>3, <1>5, StaysAt
<1>7. LateInv'
      BY <1>1, <1>2, LateStays
<1> QED
    BY <1>4, <1>6, <1>7

(***************************************************************************)
(* The effect arms the first timer of the chain, before anything was sent. *)
(***************************************************************************)
LEMMA FirstKeepsChain ==
    ASSUME Sound, FrozenPlan, ChainInv, Next, ScheduleFollowup
    PROVE  ChainInv'
<1> USE DEF ChainInv
<1>1. Shape /\ (Untroubled' => Untroubled) /\ (edits' = 0 => edits = 0)
      BY SoundStep, HistoriesGrow
<1>2. UNCHANGED <<h, wire, late, stops, card, edits>> /\ runs' = runs + 1
      BY DEF ScheduleFollowup
<1>3. LateInv'
      BY <1>1, <1>2, LateStays
<1>4. ASSUME Untroubled'
      PROVE  OneHolder' /\ OneCurrent' /\ NothingAhead'
  <2>1. runs = 0 /\ Untroubled
        BY <1>1, <1>2, <1>4 DEF Untroubled, Sound, TypeOK
  <2>2. /\ \A t \in Timer : t.key.kind # "idle" => phase[t] = "none"
        /\ \A s \in Attempt : wire[s] = 0
        BY <2>1 DEF OneCurrent
  <2>3. \A w \in Worker : ~Held(w)
        BY <2>2 DEF Sound, HandlersHold
  <2>4. OneHolder'
        BY <1>2, <2>3 DEF OneHolder, Held
  <2>5. \/ UNCHANGED <<phase, index>>
        \/ \E n \in Timer : n.key = FirstKey /\ Arms(n, 0)
        BY ScheduleArms DEF ScheduleFollowup, Sound
  <2>6. \A t, u \in Timer : Current(t)' /\ Current(u)' => t = u
    <3>1. CASE UNCHANGED <<phase, index>>
          BY <2>2, <3>1 DEF Current
    <3>2. ASSUME NEW n \in Timer, Arms(n, 0)
          PROVE  \A t \in Timer : Current(t)' => t = n
          BY <2>2, <3>2 DEF Current, Arms, Sound, TypeOK
    <3> QED
        BY <2>5, <3>1, <3>2
  <2>7. OneCurrent'
        BY <1>2, <2>1, <2>6 DEF OneCurrent
  <2>8. NothingAhead'
    <3>1. \A x \in Frozen : ~(wire'[x] > 0)
          BY <1>2, <2>2, FollowupAssumption DEF Attempt
    <3> QED
        BY <3>1 DEF NothingAhead
  <2> QED
      BY <2>4, <2>7, <2>8
<1>5. CASE ~Untroubled'
      BY <1>3, <1>5 DEF OneHolder, OneCurrent, NothingAhead
<1> QED
    BY <1>3, <1>4, <1>5

(***************************************************************************)
(* A worker that is handed a timer takes one nobody had.                   *)
(***************************************************************************)
LEMMA ReadCardKeepsChain ==
    ASSUME Sound, FrozenPlan, ChainInv, Next,
           NEW w \in Worker, NEW t \in Timer, ReadCard(w, t)
    PROVE  ChainInv'
<1> USE DEF ChainInv
<1>1. Shape /\ (Untroubled' => Untroubled) /\ (edits' = 0 => edits = 0)
      BY SoundStep, HistoriesGrow
<1>2. UNCHANGED <<runs, wire, late, stops>>
      BY DEF ReadCard
<1>3. Untroubled' => t \notin delivered /\ \A v \in Worker : h[v].timer # t
      BY DEF ReadCard, Untroubled, Sound, TypeOK
<1>4. CASE EndsAtOnce(t)
  <2>1. OneHolder'
        BY <1>1, <1>3, <1>4 DEF OneHolder, EndsAtOnce, Held
  <2>2. \A u \in Timer : Current(u)' => Current(u)
        BY <1>4 DEF EndsAtOnce, Current
  <2>3. OneCurrent' /\ NothingAhead'
        BY <1>1, <1>2, <1>4, <2>2, StaysAt DEF EndsAtOnce
  <2>4. LateInv'
        BY <1>1, <1>2, <1>4, LateStays DEF EndsAtOnce
  <2> QED
      BY <2>1, <2>3, <2>4
<1>5. CASE Reads(w, t)
  <2>1. /\ UNCHANGED <<phase, delivered>> /\ phase[t] = "armed"
        /\ \A v \in Worker : v # w => h'[v] = h[v]
        /\ h[w].pc = "rest" /\ h'[w].pc = "thread" /\ h'[w].timer = t
        BY <1>5, ReadLocals DEF Reads, Held, Sound
  <2>2. OneHolder'
        BY <1>1, <1>3, <2>1 DEF OneHolder, Held
  <2>3. \A u \in Timer : Current(u)' => Current(u)
        BY <2>1 DEF Current
  <2>4. OneCurrent' /\ NothingAhead'
        BY <1>1, <1>2, <2>1, <2>3, StaysAt
  <2>5. card.mode # "disabled"
    <3>1. h' # h
          BY <2>1
    <3> QED
        BY <3>1 DEF ReadCard, SwitchedOff
  <2>6. LateInv'
        BY <1>1, <1>2, <2>1, <2>5, LateStays
  <2> QED
      BY <2>2, <2>4, <2>6
<1> QED
    BY <1>4, <1>5, ReadCardCases

(***************************************************************************)
(* A handler that goes on, or throws, has its timer still before it.       *)
(***************************************************************************)
LEMMA GoingOnKeepsChain ==
    ASSUME Sound, FrozenPlan, ChainInv, Next, NEW w \in Worker,
           \/ ReadThread(w) /\ ~Return(w)
           \/ SkipChannel(w) \/ SendMessage(w) \/ ConfirmSent(w)
           \/ RecordChannelResult(w) \/ RecordAttemptOnCard(w)
           \/ AllChannelsFailed(w)
    PROVE  ChainInv'
<1> USE DEF ChainInv
<1>1. Shape /\ (Untroubled' => Untroubled) /\ (edits' = 0 => edits = 0)
      BY SoundStep, HistoriesGrow
<1>2. UNCHANGED <<phase, delivered, runs, wire, late, stops>>
      BY DEF ReadThread, SkipChannel, SendMessage, ConfirmSent,
             RecordChannelResult, RecordAttemptOnCard, AllChannelsFailed,
             CutOff, bounds
<1>3. Advances(w)
      BY HandlerAdvances DEF HandlerStep, Sound
<1>4. /\ Busy(w) /\ h'[w].pc \notin {"defer", "announce", "thread"}
      /\ h'[w].pc = "call" => h[w].pc = "send"
      /\ h'[w].pc = "send" => h[w].pc = "thread" /\ "replied" \notin stops
  <2>1. CASE ReadThread(w) /\ ~Return(w)
        BY <2>1 DEF ReadThread, ThreadStops, Goto, Busy, Held, Sound, TypeOK,
                    Locals
  <2>2. CASE \/ SkipChannel(w) \/ SendMessage(w) \/ ConfirmSent(w)
             \/ RecordChannelResult(w) \/ RecordAttemptOnCard(w)
        BY <2>2 DEF SkipChannel, SendMessage, ConfirmSent, Goto, Busy, Held,
                    RecordChannelResult, RecordAttemptOnCard, Sound, TypeOK,
                    Locals
  <2>3. CASE AllChannelsFailed(w)
        BY <2>3 DEF AllChannelsFailed, CutOff, Resting, Busy, Held, Sound,
                    TypeOK
  <2> QED
      BY <2>1, <2>2, <2>3
<1>5. OneHolder'
      BY <1>1, <1>2, <1>3 DEF OneHolder, Advances, Held
<1>6. \A t \in Timer : Current(t)' => Current(t)
      BY <1>2, <1>3, <1>4 DEF Current, Advances, Busy
<1>7. OneCurrent' /\ NothingAhead'
      BY <1>1, <1>2, <1>6, StaysAt
<1>8. LateInv'
      BY <1>1, <1>2, <1>3, <1>4, LateStays DEF Advances
<1> QED
    BY <1>5, <1>7, <1>8

(***************************************************************************)
(* A handler that returns is done with its timer.                          *)
(***************************************************************************)
LEMMA ReturnKeepsChain ==
    ASSUME Sound, FrozenPlan, ChainInv, Next, NEW w \in Worker, Held(w),
           Return(w), UNCHANGED <<runs, wire, late, stops>>
    PROVE  ChainInv'
<1> USE DEF ChainInv
<1>1. Shape /\ (Untroubled' => Untroubled) /\ (edits' = 0 => edits = 0)
      BY SoundStep, HistoriesGrow
<1>2. /\ phase' = phase /\ delivered' = delivered \cup {h[w].timer}
      /\ h'[w].pc = "rest" /\ \A v \in Worker : v # w => h'[v] = h[v]
      BY DEF Return, Clock!HandOver, Resting, Sound, TypeOK
<1>3. OneHolder'
      BY <1>1, <1>2 DEF OneHolder, Held
<1>4. \A t \in Timer : Current(t)' => Current(t)
      BY <1>2 DEF Current
<1>5. OneCurrent' /\ NothingAhead'
      BY <1>1, <1>2, <1>4, StaysAt
<1>6. LateInv'
      BY <1>1, <1>2, LateStays
<1> QED
    BY <1>3, <1>5, <1>6

(***************************************************************************)
(* What is sent is the attempt the chain is at, by the one worker that is  *)
(* at it.                                                                  *)
(***************************************************************************)
LEMMA CallKeepsChain ==
    ASSUME Sound, FrozenPlan, ChainInv, Next,
           NEW w \in Worker, CallProvider(w)
    PROVE  ChainInv'
<1> USE DEF ChainInv
<1>1. Shape /\ (Untroubled' => Untroubled) /\ (edits' = 0 => edits = 0)
      BY SoundStep, HistoriesGrow
<1>2. UNCHANGED <<phase, delivered, index, card, stops, runs, edits>>
      BY DEF CallProvider
<1>3. Advances(w)
      BY HandlerAdvances DEF HandlerStep, Sound
<1>4. /\ Busy(w) /\ h[w].pc = "call" /\ h'[w].pc \in {"confirm", "record"}
      BY DEF CallProvider, Goto, Busy, Held, Sound, TypeOK, Locals
<1>5. CASE ~Untroubled'
      BY <1>5 DEF OneHolder, OneCurrent, LateInv, NothingAhead
<1>6. CASE Untroubled'
  <2>1. /\ Current(h[w].timer) /\ h[w].timer \in Timer
        /\ \A t \in Timer : Current(t) => t = h[w].timer
        BY <1>1, <1>4, <1>6, BusyIsCurrent
           DEF OneCurrent, Sound, HandlersHold, Busy
  <2>2. \A v \in Worker : v # w => ~Busy(v)
        BY <1>1, <1>4, <1>6, OneBusy
  <2>3. OneHolder'
        BY <1>1, <1>2, <1>3 DEF OneHolder, Advances, Held
  <2>4. \A t \in Timer : Current(t)' => Current(t)
        BY <1>2, <1>3, <1>4 DEF Current, Advances
  <2>5. runs # 0
        BY <1>1, <1>6, <2>1 DEF OneCurrent, Current
  <2>6. OneCurrent'
        BY <1>1, <1>2, <1>6, <2>4, <2>5 DEF OneCurrent
  <2>7. LateInv'
    <3>1. ASSUME edits <= 1
          PROVE  /\ late' <= 1
                 /\ late' > 0 => "replied" \in stops \/ card.mode = "disabled"
      <4>1. late = 0
            BY <1>1, <1>4, <1>6, <3>1 DEF LateInv, Sound, TypeOK
      <4> QED
          BY <4>1 DEF CallProvider, Accepted
    <3>2. \A v \in Worker : h'[v].pc \notin {"send", "call", "thread"}
          BY <1>3, <1>4, <2>2 DEF Advances, Busy, Held
    <3> QED
        BY <1>1, <1>2, <1>6, <3>1, <3>2 DEF LateInv
  <2>8. NothingAhead'
    <3> SUFFICES ASSUME edits = 0, NEW t \in Timer, NEW x \in Frozen,
                        Current(t)', wire'[x] > 0
                 PROVE  Position(Frozen, x) <= index[t]
        BY <1>2 DEF NothingAhead
    <3>1. Current(t) /\ t = h[w].timer
          BY <2>1, <2>4
    <3>2. CASE wire[x] > 0
          BY <1>1, <1>6, <3>1, <3>2 DEF NothingAhead
    <3>3. CASE ~(wire[x] > 0)
      <4>1. x \in Attempt
            BY FollowupAssumption DEF Attempt
      <4>2. x = h[w].step
            BY <3>3, <4>1 DEF CallProvider, Accepted, Sound, TypeOK
      <4>3. /\ index[t] = Position(Frozen, x) /\ index[t] \in 0..Last - 1
            BY <1>4, <3>1, <4>2, HeldPlaced DEF Busy
      <4> QED
          BY <4>3
    <3> QED
        BY <3>2, <3>3
  <2> QED
      BY <2>3, <2>6, <2>7, <2>8
<1> QED
    BY <1>5, <1>6

(***************************************************************************)
(* The next timer, or the moved one, takes the place of the one in hand,   *)
(* and is not behind it.                                                   *)
(***************************************************************************)
LEMMA RearmKeepsChain ==
    ASSUME Sound, FrozenPlan, ChainInv, Next,
           NEW w \in Worker, Defer(w) \/ ScheduleNext(w)
    PROVE  ChainInv'
<1> USE DEF ChainInv
<1> DEFINE t0 == h[w].timer
<1>1. Shape /\ (Untroubled' => Untroubled) /\ (edits' = 0 => edits = 0)
      BY SoundStep, HistoriesGrow
<1>2. UNCHANGED <<card, stops, wire, late, runs, edits>>
      BY DEF Defer, ScheduleNext, bounds
<1>3. Advances(w)
      BY HandlerAdvances DEF HandlerStep, Sound
<1>4. /\ Busy(w) /\ Held(w) /\ h'[w].pc \in {"defer", "announce"}
      /\ h'[w].timer = t0
      BY DEF Defer, ScheduleNext, Goto, Busy, Held, Sound, TypeOK, Locals
<1>5. PICK i : /\ \E k : Schedule(k, i)
               /\ \/ i = index[t0]
                  \/ Later(w) # {} /\ i = NextIndex(w)
  <2>1. CASE Defer(w)
    <3>1. Schedule([h[w].timer.key EXCEPT !.defer = @ + 1], index[h[w].timer])
          BY <2>1 DEF Defer
    <3> QED
        BY <3>1
  <2>2. CASE ScheduleNext(w)
        BY <2>2 DEF ScheduleNext
  <2> QED
      BY <2>1, <2>2
<1>6. /\ delivered' = delivered
      /\ \/ UNCHANGED <<phase, index>>
         \/ \E n \in Timer : Arms(n, i)
      BY <1>5, ScheduleArms DEF Sound
<1>7. LateInv'
      BY <1>1, <1>2, <1>3, <1>4, LateStays DEF Advances
<1>8. CASE ~Untroubled'
      BY <1>7, <1>8 DEF OneHolder, OneCurrent, NothingAhead
<1>9. CASE Untroubled'
  <2>1. /\ Current(t0) /\ t0 \in Timer
        /\ \A t \in Timer : Current(t) => t = t0
        BY <1>1, <1>4, <1>9, BusyIsCurrent
           DEF OneCurrent, Sound, HandlersHold
  <2>2. \A t \in Timer : phase[t] = "armed" => phase'[t] = "armed"
        BY <1>6 DEF Arms, Sound, TypeOK
  <2>3. OneHolder'
        BY <1>1, <1>3, <1>6, <1>9, <2>2
           DEF OneHolder, Advances, Held, Sound, HandlersHold
  <2>4. \A t \in Timer : Current(t)' => phase[t] # "armed"
    <3> SUFFICES ASSUME NEW t \in Timer, Current(t)', phase[t] = "armed"
                 PROVE  FALSE
        OBVIOUS
    <3>1. t # t0
          BY <1>4 DEF Current
    <3>2. Current(t)
          BY <1>3, <1>6, <3>1 DEF Current, Advances
    <3> QED
        BY <2>1, <3>1, <3>2
  <2>5. \A t \in Timer : Current(t)' => Arms(t, i)
        BY <1>6, <2>4 DEF Current, Arms, Sound, TypeOK
  <2>6. \A t, u \in Timer : Current(t)' /\ Current(u)' => t = u
        BY <2>5 DEF Arms, Sound, TypeOK
  <2>7. runs # 0
        BY <1>1, <1>9, <2>1 DEF OneCurrent, Current
  <2>8. OneCurrent'
        BY <1>2, <2>6, <2>7 DEF OneCurrent
  <2>9. NothingAhead'
    <3> SUFFICES ASSUME edits = 0, NEW t \in Timer, NEW x \in Frozen,
                        Current(t)', wire[x] > 0
                 PROVE  Position(Frozen, x) <= index'[t]
        BY <1>2 DEF NothingAhead
    <3>1. index'[t] = i
          BY <2>5 DEF Arms, Sound, TypeOK
    <3>2. Position(Frozen, x) <= index[t0]
          BY <1>1, <1>9, <2>1 DEF NothingAhead
    <3>3. CASE i = index[t0]
          BY <3>1, <3>2, <3>3
    <3>4. CASE Later(w) # {} /\ i = NextIndex(w)
      <4>1. h[w].plan = Frozen
            BY <1>4 DEF FrozenPlan
      <4>2. /\ NextStep(w) \in Frozen /\ NextStep(w) \in Attempt
            /\ NextStep(w) > h[w].step /\ NextIndex(w) \in 0..Last - 1
            BY <3>4, <4>1, NextStepIsLater DEF Sound
      <4>3. CASE h[w].step = 0
        <5>1. h[w].pc = "thread"
              BY <1>4, <4>3, FollowupAssumption
                 DEF Sound, HandlersHold, Attempt
        <5>2. h[w].step \in h[w].plan \/ h[w].pc = "next"
              BY DEF Defer, ScheduleNext
        <5> QED
            BY <4>1, <4>3, <5>1, <5>2, FollowupAssumption
      <4>4. CASE h[w].step # 0
        <5>1. Placed(index[t0], h[w].step)
              BY <1>4, <4>4 DEF FrozenPlan
        <5>2. /\ Frozen \in SUBSET Attempt /\ x \in Attempt
              /\ h[w].step \in Frozen /\ h[w].step \in Attempt
              BY <5>1, FollowupAssumption DEF Placed, Attempt
        <5>3. index[t0] < NextIndex(w)
          <6>1. h[w].step < NextStep(w)
                BY <4>2, <5>2, FollowupAssumption DEF Attempt
          <6> QED
              BY <4>1, <4>2, <5>1, <5>2, <6>1, PositionGrows
                 DEF Placed, NextIndex
        <5>4. Position(Frozen, x) \in Int /\ index[t0] \in Int
              BY <2>1, <5>2, PositionBounds DEF Sound, TypeOK
        <5> QED
            BY <3>1, <3>2, <3>4, <4>2, <5>3, <5>4
      <4> QED
          BY <4>3, <4>4
    <3> QED
        BY <1>5, <3>3, <3>4
  <2> QED
      BY <1>7, <2>3, <2>8, <2>9
<1> QED
    BY <1>8, <1>9

(***************************************************************************)
(* Every step keeps the invariant on the chain.                            *)
(***************************************************************************)
LEMMA ChainStep ==
    ASSUME Sound, FrozenPlan, ChainInv, Next
    PROVE  ChainInv'
<1>1. CASE \/ ObserveDelivery \/ People
           \/ \E t \in Timer : DetectIdle(t) \/ Fire(t) \/ GiveUp(t)
      BY <1>1, AsideKeepsChain
<1>2. CASE ScheduleFollowup
      BY <1>2, FirstKeepsChain
<1>3. CASE \E w \in Worker, t \in Timer : ReadCard(w, t)
      BY <1>3, ReadCardKeepsChain
<1>4. CASE \E w \in Worker : HandlerStep(w)
  <2> SUFFICES ASSUME NEW w \in Worker, HandlerStep(w)
               PROVE  ChainInv'
      BY <1>4
  <2>1. CASE \/ ReadThread(w) /\ Return(w)
             \/ EndChain(w) \/ AnnounceNext(w) \/ DeferralReturns(w)
        BY <2>1, ReturnKeepsChain
           DEF ReadThread, EndChain, AnnounceNext, DeferralReturns, Held,
               bounds
  <2>2. CASE \/ ReadThread(w) /\ ~Return(w)
             \/ SkipChannel(w) \/ SendMessage(w) \/ ConfirmSent(w)
             \/ RecordChannelResult(w) \/ RecordAttemptOnCard(w)
             \/ AllChannelsFailed(w)
        BY <2>2, GoingOnKeepsChain
  <2>3. CASE CallProvider(w)
        BY <2>3, CallKeepsChain
  <2>4. CASE Defer(w) \/ ScheduleNext(w)
        BY <2>4, RearmKeepsChain
  <2> QED
      BY <2>1, <2>2, <2>3, <2>4 DEF HandlerStep
<1>5. CASE \E w \in Worker : Crash(w)
  <2>1. ~Untroubled'
        BY <1>5 DEF Crash, Untroubled, Sound, TypeOK
  <2> QED
      BY <2>1 DEF ChainInv, OneHolder, OneCurrent, LateInv, NothingAhead
<1> QED
    BY <1>1, <1>2, <1>3, <1>4, <1>5 DEF Next

-----------------------------------------------------------------------------
FollowupInv == Sound /\ FrozenPlan /\ MessageInv /\ ChainInv

(***************************************************************************)
(* The inductive invariant holds before the first delivery.                *)
(***************************************************************************)
LEMMA FollowupInitially == Init => FollowupInv
<1> SUFFICES ASSUME Init
             PROVE  FollowupInv
    OBVIOUS
<1>1. Sound
      BY SoundInitially
<1>2. /\ \A w \in Worker : h[w].pc = "rest"
      /\ \A t \in Timer : phase[t] = "none"
      /\ \A s \in Attempt : wire[s] = 0 /\ card.attempts[s].result = "none"
      /\ \A i \in 0..Last - 1 : message[i] = "none"
      /\ card.mode = "automatic" /\ late = 0
      BY DEF Init, Resting, Clock!ContractInit, FreshCard, NoRun
<1>3. \A s \in Frozen : s \in Attempt /\ Position(Frozen, s) \in 0..Last - 1
      BY PositionBounds, FollowupAssumption DEF Attempt
<1>4. FrozenPlan
      BY <1>2 DEF FrozenPlan, Held
<1>5. MessageInv
      BY <1>2, <1>3 DEF MessageInv, RowsTellWire, OneCall, Calling,
                        EachAttemptOnce, SentWasAcceptedUnedited,
                        SentWasAccepted
<1>6. ChainInv
      BY <1>2, <1>3 DEF ChainInv, OneHolder, OneCurrent, LateInv,
                        NothingAhead, Current, Held
<1> QED
    BY <1>1, <1>4, <1>5, <1>6 DEF FollowupInv

(***************************************************************************)
(* The inductive invariant holds in every reachable state.                 *)
(***************************************************************************)
LEMMA FollowupInvariance == Spec => []FollowupInv
<1>1. ASSUME FollowupInv, [Next]_vars
      PROVE  FollowupInv'
  <2>1. CASE Next
        BY <1>1, <2>1, SoundStep, FrozenPlanStep, MessageStep, ChainStep
           DEF FollowupInv
  <2>2. CASE UNCHANGED vars
    <3>1. Sound' /\ FrozenPlan'
          BY <1>1, <2>2 DEF vars, FollowupInv, Sound, TypeOK, HandlersHold,
                            Held, Later, FrozenPlan, Placed
    <3>2. MessageInv'
          BY <1>1, <2>2 DEF vars, FollowupInv, MessageInv, RowsTellWire,
                            OneCall, Calling, EachAttemptOnce,
                            SentWasAcceptedUnedited, SentWasAccepted
    <3>3. ChainInv'
          BY <1>1, <2>2 DEF vars, FollowupInv, ChainInv, OneHolder, Held,
                            OneCurrent, Current, LateInv, NothingAhead,
                            Untroubled
    <3> QED
        BY <3>1, <3>2, <3>3 DEF FollowupInv
  <2> QED
      BY <1>1, <2>1, <2>2
<1> QED
    BY <1>1, FollowupInitially, PTL DEF Spec

(***************************************************************************)
(* Timers, locals, card, message rows and events keep their types.         *)
(***************************************************************************)
THEOREM FollowupTypeCorrect == Spec => []TypeOK
<1>1. FollowupInv => TypeOK
      BY DEF FollowupInv, Sound
<1> QED
    BY <1>1, FollowupInvariance, PTL

(***************************************************************************)
(* While nobody edits the card, no attempt reaches the lead twice, however *)
(* often its timer is handed over and whoever dies with it.                *)
(***************************************************************************)
THEOREM AttemptsOnce == Spec => []EachAttemptOnce
<1>1. FollowupInv => EachAttemptOnce
      BY DEF FollowupInv, MessageInv
<1> QED
    BY <1>1, FollowupInvariance, PTL

(***************************************************************************)
(* While nobody edits the card, what it says was sent was accepted.        *)
(***************************************************************************)
THEOREM SentAccepted == Spec => []SentWasAcceptedUnedited
<1>1. FollowupInv => SentWasAcceptedUnedited
      BY DEF FollowupInv, MessageInv
<1> QED
    BY <1>1, FollowupInvariance, PTL

(***************************************************************************)
(* One message goes out after the lead replied or the card was switched    *)
(* off, at most.                                                           *)
(***************************************************************************)
THEOREM OneAfterStop == Spec => []AtMostOneAfterStop
<1>1. FollowupInv => AtMostOneAfterStop
      BY DEF FollowupInv, ChainInv, LateInv, AtMostOneAfterStop
<1> QED
    BY <1>1, FollowupInvariance, PTL

(***************************************************************************)
(* Only the call of the provider puts a message on the wire.               *)
(***************************************************************************)
LEMMA OnlyCallsSend ==
    ASSUME Next, wire' # wire
    PROVE  \E w \in Worker : CallProvider(w)
<1>1. ~(ObserveDelivery \/ ScheduleFollowup)
      BY DEF ObserveDelivery, ScheduleFollowup
<1>2. ~(\E t \in Timer : DetectIdle(t) \/ Fire(t) \/ GiveUp(t))
      BY DEF DetectIdle, Fire, GiveUp
<1>3. ~People
      BY DEF People, EditCard, Handoff, ReturnToAi, Stop
<1>4. ASSUME NEW w \in Worker,
             (\E t \in Timer : ReadCard(w, t)) \/ HandlerStep(w) \/ Crash(w)
      PROVE  CallProvider(w)
      BY <1>4 DEF ReadCard, HandlerStep, ReadThread, Defer, SkipChannel,
             SendMessage, ConfirmSent, RecordChannelResult,
             RecordAttemptOnCard, AllChannelsFailed, EndChain, ScheduleNext,
             AnnounceNext, DeferralReturns, Crash
<1> QED
    BY <1>1, <1>2, <1>3, <1>4 DEF Next

(***************************************************************************)
(* No attempt reaches the lead after a later one.                          *)
(***************************************************************************)
THEOREM ChainInOrder == Spec => InOrder
<1>1. ASSUME FollowupInv, [Next]_vars
      PROVE  [Untroubled /\ edits = 0 => \A s \in Attempt :
                wire'[s] > wire[s] =>
                  \A x \in Attempt : x > s => wire[x] = 0]_vars
  <2> SUFFICES ASSUME Next, Untroubled, edits = 0,
                      NEW s \in Attempt, wire'[s] > wire[s],
                      NEW x \in Attempt, x > s
               PROVE  wire[x] = 0
      BY <1>1
  <2> USE <1>1 DEF FollowupInv
  <2>1. wire[s] \in Nat /\ wire[x] \in Nat /\ Frozen \in SUBSET Attempt
        BY FollowupAssumption DEF Sound, TypeOK, Attempt
  <2>2. wire' # wire
        BY <2>1
  <2>3. PICK w \in Worker : CallProvider(w)
        BY <2>2, OnlyCallsSend
  <2>4. s = h[w].step
        BY <2>1, <2>3 DEF CallProvider, Accepted, Sound, TypeOK
  <2>5. Busy(w) /\ h[w].pc = "call"
        BY <2>3 DEF CallProvider, Busy, Held
  <2>6. /\ s \in Frozen /\ index[h[w].timer] = Position(Frozen, s)
        BY <2>4, <2>5, HeldPlaced DEF Busy
  <2>7. Current(h[w].timer) /\ h[w].timer \in Timer
        BY <2>5, BusyIsCurrent DEF ChainInv, Sound, HandlersHold, Busy
  <2> SUFFICES ASSUME wire[x] > 0
               PROVE  FALSE
      BY <2>1
  <2>8. x \in Frozen
        BY DEF MessageInv, RowsTellWire
  <2>9. Position(Frozen, x) <= Position(Frozen, s)
        BY <2>6, <2>7, <2>8 DEF ChainInv, NothingAhead
  <2>10. Position(Frozen, s) < Position(Frozen, x)
    <3>1. s < x
          BY FollowupAssumption DEF Attempt
    <3> QED
        BY <2>1, <2>6, <3>1, PositionGrows
  <2>11. Position(Frozen, s) \in Int /\ Position(Frozen, x) \in Int
         BY <2>1, PositionBounds
  <2> QED
      BY <2>9, <2>10, <2>11
<1> QED
    BY <1>1, FollowupInvariance, PTL DEF Spec, InOrder

-----------------------------------------------------------------------------
\* A step of the contract, or none.
ClockMove == Clock!ContractNext \/ UNCHANGED Clock!contractVars

(***************************************************************************)
(* Scheduling a key is the contract's Arm, or nothing.                     *)
(***************************************************************************)
LEMMA ScheduleIsArm ==
    ASSUME NEW k, NEW i, Schedule(k, i)
    PROVE  ClockMove
<1>1. CASE Clock!Armed(k) # {}
      BY <1>1 DEF Schedule, ClockMove, Clock!contractVars
<1>2. CASE Clock!Armed(k) = {}
  <2>1. Clock!Arm(k)
        BY <1>2 DEF Schedule
  <2>2. k \in Key
        BY <2>1 DEF Clock!Arm, Clock!New, Timer
  <2> QED
      BY <2>1, <2>2 DEF ClockMove, Clock!ContractNext
<1> QED
    BY <1>1, <1>2

(***************************************************************************)
(* The cadence asks of the clock only what its contract offers: every      *)
(* behaviour of the chain is one of TimerContract.                         *)
(***************************************************************************)
THEOREM ChainUsesContract == Spec => Clock!ContractSpec
<1>1. Init => Clock!ContractInit
      BY DEF Init
<1>2. ASSUME FollowupInv, [Next]_vars
      PROVE  [Clock!ContractNext]_Clock!contractVars
  <2> SUFFICES ClockMove
      BY DEF ClockMove
  <2>1. CASE UNCHANGED vars
        BY <2>1 DEF vars, ClockMove, Clock!contractVars
  <2>2. CASE ObserveDelivery \/ ScheduleFollowup
        BY <2>2, ScheduleIsArm DEF ObserveDelivery, ScheduleFollowup
  <2>3. CASE \E t \in Timer : DetectIdle(t) \/ Fire(t) \/ GiveUp(t)
        BY <2>3 DEF DetectIdle, Fire, GiveUp, ClockMove, Clock!ContractNext
  <2>4. CASE People
        BY <2>4 DEF People, EditCard, Handoff, ReturnToAi, Stop, ClockMove,
                    Clock!contractVars
  <2>5. CASE \E w \in Worker, t \in Timer : ReadCard(w, t)
        BY <2>5 DEF ReadCard, ClockMove, Clock!contractVars,
                    Clock!ContractNext
  <2>6. CASE \E w \in Worker : HandlerStep(w) \/ Crash(w)
    <3> SUFFICES ASSUME NEW w \in Worker, HandlerStep(w) \/ Crash(w)
                 PROVE  ClockMove
        BY <2>6
    <3>1. Held(w) => h[w].timer \in Timer
          BY <1>2 DEF FollowupInv, Sound, HandlersHold
    <3>2. CASE Held(w) /\ Return(w)
          BY <3>1, <3>2 DEF Return, ClockMove, Clock!ContractNext
    <3>3. CASE Defer(w) \/ ScheduleNext(w)
          BY <3>3, ScheduleIsArm DEF Defer, ScheduleNext
    <3>4. CASE UNCHANGED <<phase, delivered>>
          BY <3>4 DEF ClockMove, Clock!contractVars
    <3>5. \/ Held(w) /\ Return(w)
          \/ Defer(w) \/ ScheduleNext(w)
          \/ UNCHANGED <<phase, delivered>>
          BY DEF HandlerStep, ReadThread, SkipChannel, SendMessage,
                 CallProvider, ConfirmSent, RecordChannelResult,
                 RecordAttemptOnCard, AllChannelsFailed, EndChain,
                 AnnounceNext, DeferralReturns, Crash, CutOff, Held
    <3> QED
        BY <3>2, <3>3, <3>4, <3>5
  <2> QED
      BY <1>2, <2>1, <2>2, <2>3, <2>4, <2>5, <2>6 DEF Next
<1> QED
    BY <1>1, <1>2, FollowupInvariance, PTL DEF Spec, Clock!ContractSpec
=============================================================================
