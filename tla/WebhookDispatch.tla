-------------------------- MODULE WebhookDispatch --------------------------
(***************************************************************************)
(* Outbound webhooks.  LeadFlowWebhookEventIngressService drains the       *)
(* deliveries of its consumer (a leased queue, never pruned); its handler  *)
(* LeadFlowWebhookDispatcherService.dispatch posts the event to every      *)
(* subscribed endpoint, one log row per (event, endpoint); the same tick   *)
(* then retries the log rows that are due, without claiming them.          *)
(*                                                                         *)
(* The gate is open for the tenant, and its endpoints stay subscribed.     *)
(***************************************************************************)
EXTENDS LeasedQueue

CONSTANTS
    Endpoint,     \* automations with an enabled webhook for these events
    Internal,     \* those whose URL points inside the network, or is none
    MaxRetries,   \* retryPolicy.maxRetries
    NoCall        \* no attempt in progress

Hook == Row \X Endpoint

ASSUME WebhookAssumption ==
    MaxRetries \in Nat /\ NoCall \notin Hook /\ Internal \subseteq Endpoint

VARIABLES
    known,      \* events the catalogue admits; the others are skipped
    log,        \* Hook -> status of its leadflow_webhook_deliveries row
    tries,      \* Hook -> attempts column of that row
    hookDue,    \* hooks whose next_attempt_at has passed
    visit,      \* Worker -> endpoints its dispatch loop has not reached
    due,        \* Worker -> <<hook, attempts>> its retry query returned
    call,       \* Worker -> hook it is attempting
    nth,        \* Worker -> number of that attempt
    answer,     \* Worker -> what came back
    cut,        \* history: hooks whose dispatch ended in mid-attempt
    accepted,   \* history: hooks whose endpoint answered 2xx
    twice       \* history: hooks whose endpoint took the event again

callVars == <<due, call, nth, answer>>
logVars  == <<log, tries, hookDue>>
pastVars == <<accepted, twice>>
hookVars == <<known, logVars, visit, callVars, cut, pastVars>>
vars     == <<queueVars, hookVars>>

LogStatus == {"none", "pending", "retrying", "delivered", "dead_letter"}
Answer == {"waiting", "2xx", "retryable", "rejected"}

TypeOK ==
    /\ QueueTypeOK
    /\ known \subseteq Row
    /\ log \in [Hook -> LogStatus]
    /\ tries \in [Hook -> Nat]
    /\ hookDue \subseteq Hook
    /\ visit \in [Worker -> SUBSET Endpoint]
    /\ \A w \in Worker : due[w] \subseteq Hook \X Nat
    /\ call \in [Worker -> Hook \cup {NoCall}]
    /\ nth \in [Worker -> Nat]
    /\ answer \in [Worker -> Answer]
    /\ cut \subseteq Hook /\ accepted \subseteq Hook /\ twice \subseteq Hook

Init ==
    /\ QueueInit
    /\ known \in SUBSET Row
    /\ log = [h \in Hook |-> "none"]
    /\ tries = [h \in Hook |-> 0]
    /\ hookDue = {}
    /\ visit = [w \in Worker |-> Endpoint]
    /\ due = [w \in Worker |-> {}]
    /\ call = [w \in Worker |-> NoCall]
    /\ nth = [w \in Worker |-> 0]
    /\ answer = [w \in Worker |-> "waiting"]
    /\ cut = {} /\ accepted = {} /\ twice = {}

\* The fan-out trigger inserts the delivery of this consumer.
Deliver(r) ==
    /\ status[r] = "unborn"
    /\ status' = [status EXCEPT ![r] = "waiting"]
    /\ ready' = ready \cup {r}
    /\ UNCHANGED <<owner, attempts, stale, expired, batch, job, seen, outcome,
                   doomed, served, abandons, lapses, hookVars>>

-----------------------------------------------------------------------------
\* attempt() begins: the n-th try of hook h.
Begin(w, h, n) ==
    /\ call' = [call EXCEPT ![w] = h]
    /\ nth' = [nth EXCEPT ![w] = n]
    /\ answer' = [answer EXCEPT ![w] = "waiting"]

EndCall(w) ==
    /\ call' = [call EXCEPT ![w] = NoCall]
    /\ nth' = [nth EXCEPT ![w] = 0]
    /\ answer' = [answer EXCEPT ![w] = "waiting"]

Dispatching(w) ==
    job[w] \in known /\ outcome[w] = "running" /\ call[w] = NoCall

\* Mutant of OpenHook: no unique index on (automation, event).
OpenHookAgain(w, e) ==
    LET h == <<job[w], e>> IN
    /\ Dispatching(w) /\ e \in visit[w]
    /\ log' = [log EXCEPT ![h] = "pending"]
    /\ visit' = [visit EXCEPT ![w] = @ \ {e}]
    /\ Begin(w, h, 1)
    /\ UNCHANGED <<queueVars, known, tries, hookDue, due, cut, pastVars>>

\* claim(): INSERT ... ON CONFLICT DO NOTHING got the row.
OpenHook(w, e) ==
    LET h == <<job[w], e>> IN
    /\ Dispatching(w) /\ e \in visit[w]
    /\ log[h] = "none"
    /\ log' = [log EXCEPT ![h] = "pending"]
    /\ visit' = [visit EXCEPT ![w] = @ \ {e}]
    /\ Begin(w, h, 1)
    /\ UNCHANGED <<queueVars, known, tries, hookDue, due, cut, pastVars>>

\* The pair has a row already: nothing is posted.
PassOverHook(w, e) ==
    LET h == <<job[w], e>> IN
    /\ Dispatching(w) /\ e \in visit[w]
    /\ log[h] # "none"
    /\ visit' = [visit EXCEPT ![w] = @ \ {e}]
    /\ UNCHANGED <<queueVars, known, logVars, callVars, cut, pastVars>>

\* The request is answered, or times out whether or not it arrived; a target
\* inside the network is a rejection without a request.
Respond(w) ==
    /\ call[w] # NoCall /\ answer[w] = "waiting"
    /\ \E a \in Answer \ {"waiting"}, taken \in BOOLEAN :
         /\ call[w][2] \in Internal => a = "rejected"
         /\ a = "2xx" => taken
         /\ a = "rejected" => ~taken
         /\ answer' = [answer EXCEPT ![w] = a]
         /\ accepted' = IF taken THEN accepted \cup {call[w]} ELSE accepted
         /\ twice' = IF taken /\ call[w] \in accepted
                       THEN twice \cup {call[w]} ELSE twice
    /\ UNCHANGED <<queueVars, known, logVars, visit, due, call, nth, cut>>

\* Mutant of Verdict: the outcome's name is written as the status.
VerdictUnmapped(a, n) ==
    CASE a = "2xx"      -> "delivered"
      [] a = "rejected" -> "dead_letter"
      [] OTHER          -> IF n > MaxRetries THEN "dead_letter" ELSE "retry"

\* classifyAttempt
Verdict(a, n) ==
    CASE a = "2xx"      -> "delivered"
      [] a = "rejected" -> "dead_letter"
      [] OTHER          -> IF n > MaxRetries THEN "dead_letter" ELSE "retrying"

\* Mutant of LogAttempt: the attempt number is not written.
LogAttemptUncounted(w) ==
    /\ call[w] # NoCall /\ answer[w] # "waiting"
    /\ log' = [log EXCEPT ![call[w]] = Verdict(answer[w], nth[w])]
    /\ hookDue' = hookDue \ {call[w]}
    /\ EndCall(w)
    /\ UNCHANGED <<queueVars, known, tries, visit, due, cut, pastVars>>

\* UPDATE ... WHERE id = :row, whatever the row says by now.
LogAttempt(w) ==
    LET h == call[w] IN
    /\ h # NoCall /\ answer[w] # "waiting"
    /\ log' = [log EXCEPT ![h] = Verdict(answer[w], nth[w])]
    /\ tries' = [tries EXCEPT ![h] = nth[w]]
    /\ hookDue' = hookDue \ {h}
    /\ EndCall(w)
    /\ UNCHANGED <<queueVars, known, visit, due, cut, pastVars>>

-----------------------------------------------------------------------------
\* retryDue(): the rows are read once, without a lock, ...
Retrying(w) == due[w] # {} \/ (call[w] # NoCall /\ job[w] = NoOne)

Retryable == {h \in hookDue : log[h] = "retrying"}

SelectRetries(w) ==
    /\ Idle(w) /\ ~Retrying(w)
    /\ Retryable # {}
    /\ due' = [due EXCEPT ![w] = {<<h, tries[h]>> : h \in Retryable}]
    /\ UNCHANGED <<queueVars, known, logVars, visit, call, nth, answer, cut,
                   pastVars>>

\* ... and attempted in turn from what was read.
StartRetry(w) ==
    /\ call[w] = NoCall
    /\ \E d \in due[w] : /\ due' = [due EXCEPT ![w] = @ \ {d}]
                         /\ Begin(w, d[1], d[2] + 1)
    /\ UNCHANGED <<queueVars, known, logVars, visit, cut, pastVars>>

\* The process dies, or an update throws and tick() drops the rest.
AbandonRetries(w) ==
    /\ Retrying(w)
    /\ abandons < MaxAbandons
    /\ abandons' = abandons + 1
    /\ due' = [due EXCEPT ![w] = {}]
    /\ EndCall(w)
    /\ UNCHANGED <<status, owner, attempts, ready, stale, expired, batch, job,
                   seen, outcome, doomed, served, lapses, known, logVars,
                   visit, cut, pastVars>>

\* next_attempt_at passes.
HookFallsDue(h) ==
    /\ log[h] = "retrying" /\ h \notin hookDue
    /\ hookDue' = hookDue \cup {h}
    /\ UNCHANGED <<queueVars, known, log, tries, visit, callVars, cut,
                   pastVars>>

-----------------------------------------------------------------------------
HandlerStep(w) ==
    \/ \E e \in Endpoint : OpenHook(w, e) \/ PassOverHook(w, e)
    \/ Respond(w)
    \/ LogAttempt(w)

\* Mutant of MayReturn: one endpoint's outcome ends the loop.
MayReturnEarly(w) ==
    IF job[w] \notin known THEN {"skip"}
    ELSE {"failed"} \cup (IF call[w] = NoCall THEN {"ok"} ELSE {})

\* A throwing query fails the delivery, also in the middle of an attempt.
MayReturn(w) ==
    IF job[w] \notin known THEN {"skip"}
    ELSE {"failed"} \cup (IF visit[w] = {} /\ call[w] = NoCall THEN {"ok"}
                                                               ELSE {})

\* Every attempt of a delivery starts the loop afresh.
FreshLocals(w) ==
    /\ visit' = [visit EXCEPT ![w] = Endpoint]
    /\ cut' = IF call[w] = NoCall THEN cut ELSE cut \cup {call[w]}
    /\ EndCall(w)

\* This ingress never prunes, so no retention ends here, and the update to
\* 'skipped' is not inside the try block.
QueueStep ==
    /\ \/ \E w \in Worker :
            /\ ~Retrying(w)
            /\ WorkerStep(w, MayReturn(w))
            /\ ~(outcome[w] = "skip" /\ outcome'[w] = "failed")
            /\ IF job'[w] = job[w] /\ outcome'[w] = outcome[w]
                 THEN UNCHANGED <<visit, call, nth, answer, cut>>
                 ELSE FreshLocals(w)
       \/ /\ \E r \in Row : \/ BecomesReady(r)
                            \/ LeaseOfAbandonedRow(r)
                            \/ LeaseOfSlowWorker(r)
          /\ UNCHANGED <<visit, call, nth, answer, cut>>
    /\ UNCHANGED <<known, logVars, due, pastVars>>

RetryStep(w) == SelectRetries(w) \/ StartRetry(w)

Next ==
    \/ QueueStep
    \/ \E w \in Worker : HandlerStep(w) \/ RetryStep(w) \/ AbandonRetries(w)
    \/ \E h \in Hook : HookFallsDue(h)
    \/ \E r \in Row : Deliver(r)

Spec == Init /\ [][Next]_vars

\* Requests end in an answer or a timeout, every tick looks for due retries.
FairSpec ==
    /\ Spec
    /\ QueueFairness
    /\ \A w \in Worker : /\ WF_vars(HandlerStep(w))
                         /\ WF_vars(StartRetry(w))
                         /\ SF_vars(SelectRetries(w))
    /\ \A h \in Hook : WF_vars(HookFallsDue(h))

-----------------------------------------------------------------------------
(***************************************************************************)
(* A delivery is settled as delivered only when it was handed to every     *)
(* endpoint: the attempt came to a verdict or is being made, although one  *)
(* endpoint's trouble, a crash or a lapsed lease may cut the loop short.   *)
(* It costs its event the one endpoint whose attempt was cut off in the    *)
(* middle, and no other: that one's row stays pending, every redelivery    *)
(* passes it over and no retry looks for it (processOne's comment promises *)
(* more).                                                                  *)
(***************************************************************************)
Attempted(h) ==
    \/ log[h] \in {"retrying", "delivered", "dead_letter"}
    \/ \E w \in Worker : call[w] = h

AcknowledgedIsAttempted ==
    \A h \in Hook : status[h[1]] = "done" => Attempted(h) \/ h \in cut

(***************************************************************************)
(* The first request of an event to an endpoint is in the air alone: no    *)
(* redelivery, second worker or retry query posts it at the same time.     *)
(***************************************************************************)
FirstAttemptAlone ==
    \A w1, w2 \in Worker :
        call[w1] # NoCall /\ call[w1] = call[w2] /\ nth[w1] = 1 => w1 = w2

(***************************************************************************)
(* A redelivered event alone never reaches an endpoint a second time: only *)
(* after an attempt was logged as failed can the endpoint be asked again.  *)
(***************************************************************************)
TwiceOnlyAfterRetry == \A h \in twice : tries[h] >= 1

(***************************************************************************)
(* A row says 'delivered' only if the endpoint took the event, even when   *)
(* late updates of several workers overwrite each other.                   *)
(***************************************************************************)
DeliveredWasAccepted == \A h \in Hook : log[h] = "delivered" => h \in accepted

(***************************************************************************)
(* The retry policy bounds the attempt number, whoever writes it.          *)
(***************************************************************************)
TriesWithinPolicy ==
    /\ \A h \in Hook : tries[h] <= MaxRetries + 1
    /\ \A w \in Worker : nth[w] <= MaxRetries + 1

(***************************************************************************)
(* A retry always comes to an end, although two processes may attempt the  *)
(* same row and write their counts over each other.                        *)
(***************************************************************************)
RetriesEnd ==
    \A h \in Hook :
        log[h] = "retrying" ~> log[h] \in {"delivered", "dead_letter"}
=============================================================================
