----------------------- MODULE WebhookDispatch_proofs -----------------------
(***************************************************************************)
(* Outbound webhooks for any number of events, endpoints and workers, any  *)
(* retry policy and any number of crashes and lapses.  The queue's part    *)
(* comes from the lemmas on the lease protocol; what is shown here is that *)
(* the log rows keep their promises under writes that no lock orders.      *)
(***************************************************************************)
EXTENDS WebhookDispatch, LeasedQueue_proofs

USE QueueAssumption, WebhookAssumption DEF Terminal, Status, Outcome

\* Nobody has heard of a pair that has no log row.
UnopenedIsFresh ==
    \A h \in Hook : log[h] = "none" =>
        /\ tries[h] = 0 /\ h \notin accepted
        /\ \A w \in Worker : call[w] # h

\* A first attempt is the only one, and nothing is known of its outcome.
FirstIsFirst ==
    \A w \in Worker : call[w] # NoCall /\ nth[w] = 1 =>
        /\ log[call[w]] = "pending" /\ tries[call[w]] = 0
        /\ \A v \in Worker : v # w => call[v] # call[w]
        /\ answer[w] = "waiting" => call[w] \notin accepted

\* What is retried has an attempt on record.
RetriesWereLogged ==
    /\ \A h \in Hook : log[h] = "retrying" => tries[h] >= 1
    /\ \A w \in Worker : \A d \in due[w] : d[2] >= 1 /\ tries[d[1]] >= 1
    /\ \A w \in Worker : call[w] # NoCall =>
         nth[w] = 1 \/ (nth[w] > 1 /\ tries[call[w]] >= 1)

\* What is retried has retries left.
RetriesLeft ==
    /\ \A h \in Hook : log[h] = "retrying" => tries[h] <= MaxRetries
    /\ \A w \in Worker : \A d \in due[w] : d[2] <= MaxRetries

AnswersNoted ==
    \A w \in Worker :
        call[w] # NoCall /\ answer[w] = "2xx" => call[w] \in accepted

HookInv ==
    /\ UnopenedIsFresh /\ FirstIsFirst /\ RetriesWereLogged
    /\ RetriesLeft /\ TriesWithinPolicy
    /\ AnswersNoted /\ DeliveredWasAccepted /\ TwiceOnlyAfterRetry

\* The loop has a row for every endpoint it has left behind.
LoopLogged ==
    \A w \in Worker, e \in Endpoint :
        /\ job[w] # NoOne /\ e \notin visit[w] => log[<<job[w], e>>] # "none"
        /\ outcome[w] = "ok" => log[<<job[w], e>>] # "none"

\* An acknowledged event has a row for every endpoint.
AcknowledgedIsLogged ==
    \A r \in Row, e \in Endpoint : status[r] = "done" => log[<<r, e>>] # "none"

AckInv == LoopLogged /\ AcknowledgedIsLogged

\* What a worker retries, between its jobs, was attempted before.
RetriesAreLater ==
    \A w \in Worker :
        /\ due[w] # {} => job[w] = NoOne
        /\ \A d \in due[w] : log[d[1]] # "pending"
        /\ call[w] # NoCall /\ nth[w] > 1 => log[call[w]] # "pending"
        /\ call[w] # NoCall /\ job[w] = NoOne => nth[w] > 1

\* A row is left pending only by a dispatch that was cut off at it.
PendingIsHeld ==
    \A h \in Hook : log[h] = "pending" =>
        h \in cut \/ \E w \in Worker : call[w] = h

HandInv == RetriesAreLater /\ PendingIsHeld

IInv == TypeOK /\ HookInv /\ AckInv /\ HandInv

(***************************************************************************)
(* Whatever dispatch() may come to is an outcome the protocol knows.       *)
(***************************************************************************)
LEMMA WebhookReturns == \A w \in Worker : MayReturn(w) \in SUBSET Outcome
BY DEF MayReturn, Outcome

(***************************************************************************)
(* The inductive invariant holds before the first event.                   *)
(***************************************************************************)
LEMMA WebhookInitially == Init => IInv
<1> SUFFICES ASSUME Init
             PROVE  IInv
    OBVIOUS
<1>1. QueueTypeOK
      BY QueueInitially DEF Init
<1>2. TypeOK
      BY <1>1 DEF Init, TypeOK, LogStatus, Answer
<1>3. HookInv
      BY DEF Init, HookInv, UnopenedIsFresh, FirstIsFirst, RetriesWereLogged,
             RetriesLeft, TriesWithinPolicy, AnswersNoted,
             DeliveredWasAccepted, TwiceOnlyAfterRetry
<1>4. AckInv
      BY DEF Init, QueueInit, AckInv, LoopLogged, AcknowledgedIsLogged
<1>5. HandInv
      BY DEF Init, HandInv, RetriesAreLater, PendingIsHeld
<1> QED
    BY <1>1, <1>2, <1>3, <1>4, <1>5 DEF IInv

(***************************************************************************)
(* Opening a row: the pair was unheard of, so this attempt is its first.   *)
(***************************************************************************)
LEMMA OpenStep ==
    ASSUME IInv, NEW w \in Worker, NEW e \in Endpoint, OpenHook(w, e)
    PROVE  IInv'
<1> DEFINE h == <<job[w], e>>
<1> USE DEF IInv, TypeOK, QueueTypeOK, OpenHook, Dispatching, Begin
<1>1. h \in Hook /\ job[w] \in Row /\ outcome[w] = "running"
      BY DEF Hook
<1>2. QueueTypeOK'
      BY DEF queueVars
<1>3. TypeOK'
      BY <1>1, <1>2 DEF LogStatus, Answer, queueVars, pastVars
<1>4. HookInv'
  <2> USE <1>1 DEF HookInv, UnopenedIsFresh, pastVars
  <2>1. UnopenedIsFresh'
        OBVIOUS
  <2>2. FirstIsFirst'
        BY DEF FirstIsFirst
  <2>3. (RetriesWereLogged /\ RetriesLeft)'
        BY DEF RetriesWereLogged, RetriesLeft
  <2>4. TriesWithinPolicy'
        BY DEF TriesWithinPolicy
  <2>5. (AnswersNoted /\ DeliveredWasAccepted /\ TwiceOnlyAfterRetry)'
        BY DEF AnswersNoted, DeliveredWasAccepted, TwiceOnlyAfterRetry
  <2> QED
      BY <2>1, <2>2, <2>3, <2>4, <2>5
<1>5. AckInv'
      BY <1>1 DEF AckInv, LoopLogged, AcknowledgedIsLogged, queueVars, Hook
<1>6. HandInv'
  <2>1. RetriesAreLater'
    <3>1. \A v \in Worker : v # w => call[v] # h
          BY <1>1 DEF HookInv, UnopenedIsFresh
    <3>2. \A v \in Worker : \A d \in due[v] : d[1] # h
      <4>1. tries[h] = 0
            BY <1>1 DEF HookInv, UnopenedIsFresh
      <4>2. \A v \in Worker : \A d \in due[v] : tries[d[1]] >= 1
            BY DEF HookInv, RetriesWereLogged
      <4> QED
          BY <4>1, <4>2
    <3>3. job' = job
          BY DEF queueVars
    <3> QED
        BY <1>1, <3>1, <3>2, <3>3 DEF HandInv, RetriesAreLater
  <2>2. PendingIsHeld'
        BY <1>1 DEF HandInv, PendingIsHeld
  <2> QED
      BY <2>1, <2>2 DEF HandInv
<1> QED
    BY <1>2, <1>3, <1>4, <1>5, <1>6

(***************************************************************************)
(* Passing over a row changes the loop alone.                              *)
(***************************************************************************)
LEMMA PassOverStep ==
    ASSUME IInv, NEW w \in Worker, NEW e \in Endpoint, PassOverHook(w, e)
    PROVE  IInv'
<1> USE DEF IInv, TypeOK, QueueTypeOK, PassOverHook, Dispatching
<1>1. QueueTypeOK'
      BY DEF queueVars
<1>2. TypeOK'
      BY <1>1 DEF LogStatus, Answer, queueVars, logVars, callVars, pastVars
<1>3. HookInv'
      BY DEF HookInv, UnopenedIsFresh, FirstIsFirst, RetriesWereLogged,
             RetriesLeft, TriesWithinPolicy, AnswersNoted,
             DeliveredWasAccepted, TwiceOnlyAfterRetry, logVars, callVars,
             pastVars
<1>4. AckInv'
      BY DEF AckInv, LoopLogged, AcknowledgedIsLogged, queueVars, logVars
<1>5. HandInv'
      BY DEF HandInv, RetriesAreLater, PendingIsHeld, queueVars, logVars,
             callVars
<1> QED
    BY <1>1, <1>2, <1>3, <1>4, <1>5

(***************************************************************************)
(* An endpoint that takes the event again was retried: of a first attempt  *)
(* nothing is known before its answer.                                     *)
(***************************************************************************)
LEMMA RespondStep ==
    ASSUME IInv, NEW w \in Worker, Respond(w)
    PROVE  IInv'
<1> USE DEF IInv, TypeOK, QueueTypeOK, Respond
<1>1. call[w] \in Hook /\ log[call[w]] # "none"
      BY DEF HookInv, UnopenedIsFresh
<1>2. QueueTypeOK'
      BY DEF queueVars
<1>3. TypeOK'
      BY <1>1, <1>2 DEF LogStatus, Answer, queueVars, logVars
<1>4. HookInv'
  <2> USE DEF HookInv, logVars
  <2>1. UnopenedIsFresh'
        BY <1>1 DEF UnopenedIsFresh
  <2>2. FirstIsFirst'
        BY <1>1 DEF FirstIsFirst
  <2>3. (RetriesWereLogged /\ RetriesLeft /\ TriesWithinPolicy)'
        BY DEF RetriesWereLogged, RetriesLeft, TriesWithinPolicy
  <2>4. (AnswersNoted /\ DeliveredWasAccepted)'
        BY <1>1 DEF AnswersNoted, DeliveredWasAccepted
  <2>5. TwiceOnlyAfterRetry'
        BY <1>1 DEF TwiceOnlyAfterRetry, FirstIsFirst, RetriesWereLogged
  <2> QED
      BY <2>1, <2>2, <2>3, <2>4, <2>5
<1>5. AckInv'
      BY DEF AckInv, LoopLogged, AcknowledgedIsLogged, queueVars, logVars
<1>6. HandInv'
      BY DEF HandInv, RetriesAreLater, PendingIsHeld, queueVars, logVars
<1> QED
    BY <1>2, <1>3, <1>4, <1>5, <1>6

(***************************************************************************)
(* An attempt written down: its number is in the policy and its verdict    *)
(* follows from an answer on record.                                       *)
(***************************************************************************)
LEMMA LogStep ==
    ASSUME IInv, NEW w \in Worker, LogAttempt(w)
    PROVE  IInv'
<1> DEFINE h == call[w]
           v == Verdict(answer[w], nth[w])
<1> USE DEF IInv, TypeOK, QueueTypeOK, LogAttempt, EndCall
<1>1. h \in Hook /\ nth[w] \in Nat /\ nth[w] >= 1
      BY DEF HookInv, RetriesWereLogged
<1>2. v \in {"delivered", "dead_letter", "retrying"}
      BY DEF Verdict
<1>3. QueueTypeOK'
      BY DEF queueVars
<1>4. TypeOK'
      BY <1>1, <1>2, <1>3 DEF LogStatus, Answer, queueVars, pastVars
<1>5. HookInv'
  <2> USE <1>1, <1>2 DEF HookInv, pastVars
  <2>1. UnopenedIsFresh'
        BY DEF UnopenedIsFresh
  <2>2. FirstIsFirst'
        BY DEF FirstIsFirst, RetriesWereLogged
  <2>3. RetriesWereLogged'
        BY DEF RetriesWereLogged
  <2>4. RetriesLeft'
        BY DEF RetriesLeft, Verdict
  <2>5. TriesWithinPolicy'
        BY DEF TriesWithinPolicy
  <2>6. (AnswersNoted /\ TwiceOnlyAfterRetry)'
        BY DEF AnswersNoted, TwiceOnlyAfterRetry
  <2>7. DeliveredWasAccepted'
        BY DEF DeliveredWasAccepted, AnswersNoted, Verdict
  <2> QED
      BY <2>1, <2>2, <2>3, <2>4, <2>5, <2>6, <2>7
<1>6. AckInv'
      BY <1>1, <1>2 DEF AckInv, LoopLogged, AcknowledgedIsLogged, queueVars
<1>7. HandInv'
  <2>1. /\ job' = job /\ v # "pending"
        /\ \A x \in Hook : log'[x] = IF x = h THEN v ELSE log[x]
        BY <1>1, <1>2 DEF queueVars
  <2>2. RetriesAreLater'
        BY <1>1, <2>1 DEF HandInv, RetriesAreLater
  <2>3. PendingIsHeld'
        BY <1>1, <2>1 DEF HandInv, PendingIsHeld
  <2> QED
      BY <2>2, <2>3 DEF HandInv
<1> QED
    BY <1>3, <1>4, <1>5, <1>6, <1>7

(***************************************************************************)
(* The retry query copies attempt numbers; they may be stale when used,    *)
(* but never say more, or less, than the policy allows.                    *)
(***************************************************************************)
LEMMA RetryStepKeeps ==
    ASSUME IInv, NEW w \in Worker, RetryStep(w)
    PROVE  IInv'
<1> USE DEF IInv, TypeOK, QueueTypeOK
<1>1. CASE SelectRetries(w)
  <2> USE <1>1 DEF SelectRetries, Retryable
  <2>1. QueueTypeOK'
        BY DEF queueVars
  <2>2. TypeOK'
        BY <2>1 DEF LogStatus, Answer, queueVars, logVars, pastVars
  <2>3. HookInv'
        BY DEF HookInv, UnopenedIsFresh, FirstIsFirst, RetriesWereLogged,
               RetriesLeft, TriesWithinPolicy, AnswersNoted,
               DeliveredWasAccepted, TwiceOnlyAfterRetry, logVars, pastVars
  <2>4. AckInv'
        BY DEF AckInv, LoopLogged, AcknowledgedIsLogged, queueVars, logVars
  <2>5. HandInv'
        BY DEF HandInv, RetriesAreLater, PendingIsHeld, queueVars, logVars,
               Idle
  <2> QED
      BY <2>1, <2>2, <2>3, <2>4, <2>5
<1>2. CASE StartRetry(w)
  <2>1. PICK d \in due[w] : /\ due' = [due EXCEPT ![w] = @ \ {d}]
                            /\ Begin(w, d[1], d[2] + 1)
        BY <1>2 DEF StartRetry
  <2>2. /\ d[1] \in Hook /\ d[2] \in Nat
        /\ d[2] >= 1 /\ tries[d[1]] >= 1 /\ d[2] <= MaxRetries
        BY DEF HookInv, RetriesWereLogged, RetriesLeft
  <2> USE <1>2, <2>1, <2>2 DEF StartRetry, Begin
  <2>3. QueueTypeOK'
        BY DEF queueVars
  <2>4. TypeOK'
        BY <2>3 DEF LogStatus, Answer, queueVars, logVars, pastVars
  <2>5. HookInv'
    <3> USE DEF HookInv, logVars, pastVars
    <3>1. (UnopenedIsFresh /\ FirstIsFirst)'
          BY DEF UnopenedIsFresh, FirstIsFirst
    <3>2. (RetriesWereLogged /\ RetriesLeft /\ TriesWithinPolicy)'
          BY DEF RetriesWereLogged, RetriesLeft, TriesWithinPolicy
    <3>3. (AnswersNoted /\ DeliveredWasAccepted /\ TwiceOnlyAfterRetry)'
          BY DEF AnswersNoted, DeliveredWasAccepted, TwiceOnlyAfterRetry
    <3> QED
        BY <3>1, <3>2, <3>3
  <2>6. AckInv'
        BY DEF AckInv, LoopLogged, AcknowledgedIsLogged, queueVars, logVars
  <2>7. HandInv'
    <3>1. job' = job /\ log' = log /\ cut' = cut /\ log[d[1]] # "pending"
          BY DEF queueVars, logVars, HandInv, RetriesAreLater
    <3>2. RetriesAreLater'
          BY <3>1 DEF HandInv, RetriesAreLater
    <3>3. PendingIsHeld'
          BY <3>1 DEF HandInv, PendingIsHeld
    <3> QED
        BY <3>2, <3>3 DEF HandInv
  <2> QED
      BY <2>3, <2>4, <2>5, <2>6, <2>7
<1> QED
    BY <1>1, <1>2 DEF RetryStep

(***************************************************************************)
(* Dropped retries, due times and new deliveries disturb nothing.          *)
(***************************************************************************)
LEMMA OtherStep ==
    ASSUME IInv,
           \/ \E w \in Worker : AbandonRetries(w)
           \/ \E h \in Hook : HookFallsDue(h)
           \/ \E r \in Row : Deliver(r)
           \/ UNCHANGED vars
    PROVE  IInv'
<1> USE DEF IInv, TypeOK, QueueTypeOK, HookInv, UnopenedIsFresh, FirstIsFirst,
            RetriesWereLogged, RetriesLeft, TriesWithinPolicy,
            AnswersNoted, DeliveredWasAccepted, TwiceOnlyAfterRetry, AckInv,
            LoopLogged, AcknowledgedIsLogged
<1>1. ASSUME NEW w \in Worker, AbandonRetries(w)
      PROVE  IInv'
  <2> USE <1>1 DEF AbandonRetries, EndCall, logVars, pastVars, Retrying
  <2>1. TypeOK'
        BY DEF LogStatus, Answer
  <2>2. HookInv'
        OBVIOUS
  <2>3. AckInv'
        OBVIOUS
  <2>4. HandInv'
        BY DEF HandInv, RetriesAreLater, PendingIsHeld
  <2> QED
      BY <2>1, <2>2, <2>3, <2>4
<1>2. ASSUME NEW h \in Hook, HookFallsDue(h)
      PROVE  IInv'
  <2> USE <1>2 DEF HookFallsDue, queueVars, callVars, pastVars
  <2>1. TypeOK'
        OBVIOUS
  <2>2. HookInv'
        OBVIOUS
  <2>3. AckInv'
        OBVIOUS
  <2>4. HandInv'
        BY DEF HandInv, RetriesAreLater, PendingIsHeld
  <2> QED
      BY <2>1, <2>2, <2>3, <2>4
<1>3. ASSUME NEW r \in Row, Deliver(r)
      PROVE  IInv'
  <2> USE <1>3 DEF Deliver, hookVars, logVars, callVars, pastVars
  <2>1. TypeOK'
        OBVIOUS
  <2>2. HookInv'
        OBVIOUS
  <2>3. AckInv'
        OBVIOUS
  <2>4. HandInv'
        BY DEF HandInv, RetriesAreLater, PendingIsHeld
  <2> QED
      BY <2>1, <2>2, <2>3, <2>4
<1>4. CASE UNCHANGED vars
  <2> USE <1>4 DEF vars, queueVars, hookVars, logVars, callVars, pastVars
  <2>1. TypeOK'
        OBVIOUS
  <2>2. HookInv'
        OBVIOUS
  <2>3. AckInv'
        OBVIOUS
  <2>4. HandInv'
        BY DEF HandInv, RetriesAreLater, PendingIsHeld
  <2> QED
      BY <2>1, <2>2, <2>3, <2>4
<1> QED
    BY <1>1, <1>2, <1>3, <1>4

(***************************************************************************)
(* The queue's steps leave the log alone: they end a loop, begin one, or   *)
(* acknowledge what a finished loop has logged.                            *)
(***************************************************************************)
LEMMA QueueStepKeeps ==
    ASSUME IInv, QueueStep
    PROVE  IInv'
<1> USE DEF IInv, TypeOK, QueueTypeOK
<1>1. CASE \E w \in Worker :
              /\ ~Retrying(w)
              /\ WorkerStep(w, MayReturn(w))
              /\ ~(outcome[w] = "skip" /\ outcome'[w] = "failed")
              /\ IF job'[w] = job[w] /\ outcome'[w] = outcome[w]
                   THEN UNCHANGED <<visit, call, nth, answer, cut>>
                   ELSE FreshLocals(w)
  <2> PICK w \in Worker :
              /\ ~Retrying(w)
              /\ WorkerStep(w, MayReturn(w))
              /\ IF job'[w] = job[w] /\ outcome'[w] = outcome[w]
                   THEN UNCHANGED <<visit, call, nth, answer, cut>>
                   ELSE FreshLocals(w)
      BY <1>1
  <2>1. UNCHANGED <<known, log, tries, hookDue, due, accepted, twice>>
        BY DEF QueueStep, logVars, pastVars
  <2>2. QueueNext(MayReturn(w)) /\ MayReturn(w) \in SUBSET Outcome
        BY WebhookReturns DEF QueueNext
  <2>3. QueueTypeOK'
        BY <2>2, TypeStep
  <2>4. /\ \A r \in Row : status'[r] = "done" =>
              status[r] = "done" \/ (job[w] = r /\ outcome[w] = "ok")
        /\ \A v \in Worker : v # w =>
              job'[v] = job[v] /\ outcome'[v] = outcome[v]
        /\ \/ job'[w] = job[w] /\ outcome'[w] = outcome[w]
           \/ outcome'[w] \in {"running", "failed"}
           \/ /\ job'[w] = job[w] /\ job[w] # NoOne
              /\ outcome[w] = "running" /\ outcome'[w] \in MayReturn(w)
        BY <2>2, SettleStep
  <2>5. TypeOK'
    <3>1. /\ visit' \in [Worker -> SUBSET Endpoint]
          /\ call' \in [Worker -> Hook \cup {NoCall}]
          /\ nth' \in [Worker -> Nat]
          /\ answer' \in [Worker -> Answer]
          /\ cut' \subseteq Hook
      <4>1. CASE UNCHANGED <<visit, call, nth, answer, cut>>
            BY <4>1
      <4>2. CASE FreshLocals(w)
            BY <4>2 DEF FreshLocals, EndCall, Answer
      <4> QED
          BY <4>1, <4>2
    <3>2. \A v \in Worker : due'[v] \subseteq Hook \X Nat
          BY <2>1
    <3> QED
        BY <2>1, <2>3, <3>1, <3>2
  <2>6. HookInv'
    <3>1. \A v \in Worker :
             \/ call'[v] = NoCall /\ nth'[v] = 0
             \/ /\ call'[v] = call[v] /\ nth'[v] = nth[v]
                /\ answer'[v] = answer[v]
          BY DEF FreshLocals, EndCall
    <3> USE <2>1, <3>1 DEF HookInv
    <3>2. UnopenedIsFresh'
          BY DEF UnopenedIsFresh
    <3>3. FirstIsFirst'
      <4> SUFFICES ASSUME NEW v \in Worker, call'[v] # NoCall, nth'[v] = 1
                   PROVE  /\ log[call[v]] = "pending" /\ tries[call[v]] = 0
                          /\ \A u \in Worker : u # v => call'[u] # call[v]
                          /\ answer[v] = "waiting" => call[v] \notin accepted
          BY DEF FirstIsFirst
      <4> QED
          BY DEF FirstIsFirst
    <3>4. (RetriesWereLogged /\ RetriesLeft /\ TriesWithinPolicy)'
          BY DEF RetriesWereLogged, RetriesLeft, TriesWithinPolicy
    <3>5. (AnswersNoted /\ DeliveredWasAccepted /\ TwiceOnlyAfterRetry)'
          BY DEF AnswersNoted, DeliveredWasAccepted, TwiceOnlyAfterRetry
    <3> QED
        BY <3>2, <3>3, <3>4, <3>5
  <2>7. LoopLogged'
    <3>1. ASSUME NEW v \in Worker, NEW e \in Endpoint,
                 job'[v] # NoOne, e \notin visit'[v]
          PROVE  log'[<<job'[v], e>>] # "none"
      <4>1. job'[v] = job[v] /\ visit'[v] = visit[v]
            BY <2>4, <3>1 DEF FreshLocals
      <4> QED
          BY <2>1, <3>1, <4>1 DEF AckInv, LoopLogged
    <3>2. ASSUME NEW v \in Worker, NEW e \in Endpoint, outcome'[v] = "ok"
          PROVE  log'[<<job'[v], e>>] # "none"
      <4>1. CASE outcome[v] = "ok" /\ job'[v] = job[v]
            BY <2>1, <4>1 DEF AckInv, LoopLogged
      <4>2. CASE v = w /\ job'[w] = job[w] /\ job[w] # NoOne /\ visit[w] = {}
            BY <2>1, <4>2 DEF AckInv, LoopLogged
      <4> QED
          BY <2>4, <3>2, <4>1, <4>2 DEF MayReturn
    <3> QED
        BY <3>1, <3>2 DEF LoopLogged
  <2>8. AcknowledgedIsLogged'
    <3> SUFFICES ASSUME NEW r \in Row, NEW e \in Endpoint, status'[r] = "done"
                 PROVE  log[<<r, e>>] # "none"
        BY <2>1 DEF AcknowledgedIsLogged
    <3> QED
        BY <2>4 DEF AckInv, LoopLogged, AcknowledgedIsLogged
  <2>9. HandInv'
    <3>1. /\ due[w] = {} /\ cut \subseteq cut'
          /\ \A v \in Worker :
               \/ call'[v] = NoCall /\ (call[v] # NoCall => call[v] \in cut')
               \/ /\ call'[v] = call[v] /\ nth'[v] = nth[v]
                  /\ job'[v] = job[v]
          BY <2>4 DEF FreshLocals, EndCall, Retrying
    <3>2. RetriesAreLater'
          BY <2>1, <2>4, <3>1 DEF HandInv, RetriesAreLater
    <3>3. PendingIsHeld'
          BY <2>1, <3>1 DEF HandInv, PendingIsHeld
    <3> QED
        BY <3>2, <3>3 DEF HandInv
  <2> QED
      BY <2>5, <2>6, <2>7, <2>8, <2>9 DEF AckInv
<1>2. CASE /\ \E r \in Row : \/ BecomesReady(r)
                             \/ LeaseOfAbandonedRow(r)
                             \/ LeaseOfSlowWorker(r)
           /\ UNCHANGED <<visit, call, nth, answer, cut>>
  <2>1. UNCHANGED <<known, log, tries, hookDue, due, accepted, twice>>
        BY DEF QueueStep, logVars, pastVars
  <2> USE <1>2, <2>1 DEF BecomesReady, LeaseOfAbandonedRow,
                         LeaseOfSlowWorker, LeaseRunsOut
  <2>2. TypeOK'
        OBVIOUS
  <2>3. HookInv'
        BY DEF HookInv, UnopenedIsFresh, FirstIsFirst, RetriesWereLogged,
             RetriesLeft, TriesWithinPolicy, AnswersNoted,
             DeliveredWasAccepted, TwiceOnlyAfterRetry
  <2>4. AckInv'
        BY DEF AckInv, LoopLogged, AcknowledgedIsLogged
  <2>5. HandInv'
        BY DEF HandInv, RetriesAreLater, PendingIsHeld
  <2> QED
      BY <2>2, <2>3, <2>4, <2>5
<1> QED
    BY <1>1, <1>2 DEF QueueStep

(***************************************************************************)
(* The inductive invariant holds in every reachable state.                 *)
(***************************************************************************)
LEMMA WebhookInvariance == Spec => []IInv
<1>1. ASSUME IInv, [Next]_vars
      PROVE  IInv'
      BY <1>1, QueueStepKeeps, OpenStep, PassOverStep, RespondStep, LogStep,
         RetryStepKeeps, OtherStep DEF Next, HandlerStep
<1> QED
    BY <1>1, WebhookInitially, PTL DEF Spec

-----------------------------------------------------------------------------
(***************************************************************************)
(* Every column and every local keeps its type.                            *)
(***************************************************************************)
THEOREM WebhookTypeCorrect == Spec => []TypeOK
<1>1. IInv => TypeOK
      BY DEF IInv
<1> QED
    BY <1>1, WebhookInvariance, PTL

(***************************************************************************)
(* A delivery is acknowledged only when it was handed to every endpoint    *)
(* but those whose attempt was cut off in the middle, which nobody makes   *)
(* again.                                                                  *)
(***************************************************************************)
THEOREM AcknowledgedAttempted == Spec => []AcknowledgedIsAttempted
<1>1. ASSUME IInv
      PROVE  AcknowledgedIsAttempted
  <2> SUFFICES ASSUME NEW h \in Hook, status[h[1]] = "done", h \notin cut
               PROVE  Attempted(h)
      BY DEF AcknowledgedIsAttempted
  <2>1. log[h] # "none" /\ log[h] \in LogStatus
        BY <1>1 DEF IInv, AckInv, AcknowledgedIsLogged, TypeOK, Hook
  <2>2. log[h] = "pending" => \E w \in Worker : call[w] = h
        BY <1>1 DEF IInv, HandInv, PendingIsHeld
  <2> QED
      BY <2>1, <2>2 DEF Attempted, LogStatus
<1> QED
    BY <1>1, WebhookInvariance, PTL

(***************************************************************************)
(* Nobody else has a pair in the air during its first request.             *)
(***************************************************************************)
THEOREM FirstAlone == Spec => []FirstAttemptAlone
<1>1. IInv => FirstAttemptAlone
      BY DEF IInv, HookInv, FirstIsFirst, FirstAttemptAlone
<1> QED
    BY <1>1, WebhookInvariance, PTL

(***************************************************************************)
(* An endpoint takes an event again only after an attempt was logged.      *)
(***************************************************************************)
THEOREM TwiceAfterRetry == Spec => []TwiceOnlyAfterRetry
<1>1. IInv => TwiceOnlyAfterRetry
      BY DEF IInv, HookInv
<1> QED
    BY <1>1, WebhookInvariance, PTL

(***************************************************************************)
(* A row says delivered only if the endpoint took the event.               *)
(***************************************************************************)
THEOREM DeliveredAccepted == Spec => []DeliveredWasAccepted
<1>1. IInv => DeliveredWasAccepted
      BY DEF IInv, HookInv
<1> QED
    BY <1>1, WebhookInvariance, PTL

(***************************************************************************)
(* No attempt number exceeds the policy, however many workers count.       *)
(***************************************************************************)
THEOREM WithinPolicy == Spec => []TriesWithinPolicy
<1>1. IInv => TriesWithinPolicy
      BY DEF IInv, HookInv
<1> QED
    BY <1>1, WebhookInvariance, PTL
=============================================================================
