-------------------------- MODULE OutboxDispatcher --------------------------
(***************************************************************************)
(* The delivery of outbound events to the merchants: the rows of           *)
(* outbound_events, the WebhookDispatcher goroutine of every running       *)
(* server (a worker), the merchants' endpoints and the redeliveries they   *)
(* ask for.  Settlement inserts the rows (EnqueueOutboundEvent).           *)
(*                                                                         *)
(* Time is kept only as "due": next_retry_at has passed.                   *)
(***************************************************************************)
EXTENDS Naturals, FiniteSets

CONSTANTS
    Events,           \* outbound_events ids
    Businesses,
    EventOwner,       \* business_id of an event
    Workers,          \* dispatcher goroutines, one per server process
    MaxAttempts,      \* webhook.MaxAttempts: 8 in the code
    BackoffSteps,     \* len(BackoffAfterFailure): 7 in the code
    ClaimBatchSize,   \* webhook.ClaimBatchSize: 10 in the code
    MaxRedeliveries,  \* bound on the redeliveries of an event
    MaxFaults,        \* bound on server crashes and lost updates
    None

ASSUME EventOwnerAssumption == EventOwner \in [Events -> Businesses]
ASSUME ScheduleAssumption == /\ MaxAttempts \in Nat \ {0}
                             /\ BackoffSteps \in Nat
                             /\ ClaimBatchSize \in Nat \ {0}
ASSUME BackoffAssumption == MaxAttempts <= BackoffSteps + 1
ASSUME OutboxBoundAssumption == MaxRedeliveries \in Nat /\ MaxFaults \in Nat
ASSUME NoneIsNoEvent == None \notin Events

VARIABLES
    status,        \* outbound_events.status
    attemptCount,  \* outbound_events.attempt_count
    due,           \* next_retry_at <= now
    endpoint,      \* the business has a webhook_url
    held,          \* the events of the worker's batch it is not done with
    claimedCount,  \* event.AttemptCount of those, as the claim returned it
    current,       \* the event deliverOne is working on
    outcome,       \* what became of its try
    tries,         \* history: deliverOne calls for the event
    accepted,      \* history: the merchant answered 2xx
    redeliveries,  \* history: redeliveries asked for
    queued,        \* history: a redelivery is accepted and no try followed yet
    faults

rowVars == <<status, attemptCount, due>>
workerVars == <<held, claimedCount, current, outcome>>
vars == <<rowVars, endpoint, workerVars, tries, accepted, redeliveries, queued, faults>>

Settled == {"DELIVERED", "FAILED"}
OutboundEventStatuses == {"NONE", "PENDING", "DELIVERING"} \cup Settled

Init ==
    /\ status = [e \in Events |-> "NONE"]
    /\ attemptCount = [e \in Events |-> 0]
    /\ due = [e \in Events |-> FALSE]
    /\ endpoint = [b \in Businesses |-> FALSE]
    /\ held = [w \in Workers |-> {}]
    /\ claimedCount = [w \in Workers |-> [e \in Events |-> 0]]
    /\ current = [w \in Workers |-> None]
    /\ outcome = [w \in Workers |-> "none"]
    /\ tries = [e \in Events |-> 0]
    /\ accepted = [e \in Events |-> FALSE]
    /\ redeliveries = [e \in Events |-> 0]
    /\ queued = [e \in Events |-> FALSE]
    /\ faults = 0

-----------------------------------------------------------------------------
(* The merchant's side                                                     *)

\* enqueueOutboundEvent's row, due at once.
Create(e) ==
    /\ status[e] = "NONE"
    /\ status' = [status EXCEPT ![e] = "PENDING"]
    /\ due' = [due EXCEPT ![e] = TRUE]
    /\ UNCHANGED <<attemptCount, endpoint, workerVars, tries, accepted, redeliveries,
                   queued, faults>>

\* SetEndpoint stores a non-empty url; nothing ever removes it.
SetEndpoint(b) ==
    /\ endpoint' = [endpoint EXCEPT ![b] = TRUE]
    /\ UNCHANGED <<rowVars, workerVars, tries, accepted, redeliveries, queued, faults>>

\* The row starts over, whatever its status was.
ResetForRedelivery(e) ==
    /\ status' = [status EXCEPT ![e] = "PENDING"]
    /\ attemptCount' = [attemptCount EXCEPT ![e] = 0]
    /\ due' = [due EXCEPT ![e] = TRUE]

\* Redeliver, for the owner of an existing event.
Redeliver(b, e) ==
    /\ status[e] # "NONE"
    /\ EventOwner[e] = b
    /\ redeliveries[e] < MaxRedeliveries
    /\ ResetForRedelivery(e)
    /\ redeliveries' = [redeliveries EXCEPT ![e] = @ + 1]
    /\ queued' = [queued EXCEPT ![e] = TRUE]
    /\ UNCHANGED <<endpoint, workerVars, tries, accepted, faults>>

-----------------------------------------------------------------------------
(* The dispatcher                                                          *)

\* The clock reaches next_retry_at.
BecomeDue(e) ==
    /\ status[e] = "PENDING" /\ ~due[e]
    /\ due' = [due EXCEPT ![e] = TRUE]
    /\ UNCHANGED <<status, attemptCount, endpoint, workerVars, tries, accepted,
                   redeliveries, queued, faults>>

\* Mutant of ClaimDue: the rows are read, not claimed.
ClaimDueUnmarked(w, S) ==
    /\ held[w] = {}
    /\ S # {} /\ Cardinality(S) <= ClaimBatchSize
    /\ \A e \in S : status[e] = "PENDING" /\ due[e]
    /\ held' = [held EXCEPT ![w] = S]
    /\ claimedCount' = [claimedCount EXCEPT
          ![w] = [e \in Events |-> IF e \in S THEN attemptCount[e] ELSE 0]]
    /\ UNCHANGED <<rowVars, endpoint, current, outcome, tries, accepted, redeliveries,
                   queued, faults>>

\* One poll: ClaimDue marks a batch of due rows, passing over those another
\* worker's statement has locked, and returns them as they are.
ClaimDue(w, S) ==
    /\ held[w] = {}
    /\ S # {} /\ Cardinality(S) <= ClaimBatchSize
    /\ \A e \in S : status[e] = "PENDING" /\ due[e]
    /\ status' = [e \in Events |-> IF e \in S THEN "DELIVERING" ELSE status[e]]
    /\ held' = [held EXCEPT ![w] = S]
    /\ claimedCount' = [claimedCount EXCEPT
          ![w] = [e \in Events |-> IF e \in S THEN attemptCount[e] ELSE 0]]
    /\ UNCHANGED <<attemptCount, due, endpoint, current, outcome, tries, accepted,
                   redeliveries, queued, faults>>

\* deliverOne begins with the next event of the batch.  It is posted if the
\* business was read and has an endpoint; otherwise the try has failed.
DeliverOne(w, e) ==
    /\ current[w] = None
    /\ e \in held[w]
    /\ current' = [current EXCEPT ![w] = e]
    /\ \/ endpoint[EventOwner[e]] /\ outcome' = [outcome EXCEPT ![w] = "posted"]
       \/ outcome' = [outcome EXCEPT ![w] = "failed"]
    /\ tries' = [tries EXCEPT ![e] = @ + 1]
    /\ queued' = [queued EXCEPT ![e] = FALSE]
    /\ UNCHANGED <<rowVars, endpoint, held, claimedCount, accepted, redeliveries, faults>>

\* Mutant of PostAnswered: every answer counts as a delivery.
PostAlwaysDelivered(w) ==
    /\ outcome[w] = "posted"
    /\ outcome' = [outcome EXCEPT ![w] = "accepted"]
    /\ \/ accepted' = [accepted EXCEPT ![current[w]] = TRUE]
       \/ UNCHANGED accepted
    /\ UNCHANGED <<rowVars, endpoint, held, claimedCount, current, tries, redeliveries,
                   queued, faults>>

\* The merchant answers 2xx, or the try fails: another answer, an error of
\* the connection or AttemptTimeout.
PostAnswered(w) ==
    /\ outcome[w] = "posted"
    /\ \/ /\ outcome' = [outcome EXCEPT ![w] = "accepted"]
          /\ accepted' = [accepted EXCEPT ![current[w]] = TRUE]
       \/ /\ outcome' = [outcome EXCEPT ![w] = "failed"]
          /\ UNCHANGED accepted
    /\ UNCHANGED <<rowVars, endpoint, held, claimedCount, current, tries, redeliveries,
                   queued, faults>>

\* The worker is done with its current event.
Done(w) ==
    /\ held' = [held EXCEPT ![w] = @ \ {current[w]}]
    /\ current' = [current EXCEPT ![w] = None]
    /\ outcome' = [outcome EXCEPT ![w] = "none"]
    /\ claimedCount' = [claimedCount EXCEPT ![w][current[w]] = 0]

MarkDelivered(w) ==
    /\ outcome[w] = "accepted"
    /\ status' = [status EXCEPT ![current[w]] = "DELIVERED"]
    /\ Done(w)
    /\ UNCHANGED <<attemptCount, due, endpoint, tries, accepted, redeliveries, queued, faults>>

\* Mutants of NextRetryAt: the budget or the schedule off by one.
RetriesOnceMore(n) == n <= MaxAttempts
RetriesOnceLess(n) == n + 1 < MaxAttempts

\* NextRetryAt gives a time for another try after n failed ones.
NextRetryAt(n) == n < MaxAttempts /\ n <= BackoffSteps

\* Mutant of MarkRetry: the status is not set back.
MarkRetryClaimed(e, n) ==
    /\ attemptCount' = [attemptCount EXCEPT ![e] = n]
    /\ due' = [due EXCEPT ![e] = FALSE]
    /\ UNCHANGED status

MarkRetry(e, n) ==
    /\ status' = [status EXCEPT ![e] = "PENDING"]
    /\ attemptCount' = [attemptCount EXCEPT ![e] = n]
    /\ due' = [due EXCEPT ![e] = FALSE]

MarkFailed(e, n) ==
    /\ status' = [status EXCEPT ![e] = "FAILED"]
    /\ attemptCount' = [attemptCount EXCEPT ![e] = n]
    /\ UNCHANGED due

\* recordFailure counts from the attempt_count the claim returned.
RecordFailure(w) ==
    LET n == claimedCount[w][current[w]] + 1
    IN  /\ outcome[w] = "failed"
        /\ IF NextRetryAt(n) THEN MarkRetry(current[w], n) ELSE MarkFailed(current[w], n)
        /\ Done(w)
        /\ UNCHANGED <<endpoint, tries, accepted, redeliveries, queued, faults>>

\* The update that records the try fails: it is logged and the loop goes on.
MarkLost(w) ==
    /\ outcome[w] \in {"accepted", "failed"}
    /\ faults < MaxFaults
    /\ faults' = faults + 1
    /\ Done(w)
    /\ UNCHANGED <<rowVars, endpoint, tries, accepted, redeliveries, queued>>

\* The server stops, or the rows its claim returned cannot be read.
Crash(w) ==
    /\ held[w] # {}
    /\ faults < MaxFaults
    /\ faults' = faults + 1
    /\ held' = [held EXCEPT ![w] = {}]
    /\ current' = [current EXCEPT ![w] = None]
    /\ outcome' = [outcome EXCEPT ![w] = "none"]
    /\ claimedCount' = [claimedCount EXCEPT ![w] = [e \in Events |-> 0]]
    /\ UNCHANGED <<rowVars, endpoint, tries, accepted, redeliveries, queued>>

-----------------------------------------------------------------------------
Claim(w) == \E S \in SUBSET Events : ClaimDue(w, S)

Deliver(w) ==
    \/ \E e \in Events : DeliverOne(w, e)
    \/ PostAnswered(w) \/ MarkDelivered(w) \/ RecordFailure(w)

Next ==
    \/ \E e \in Events : Create(e) \/ BecomeDue(e)
    \/ \E b \in Businesses : SetEndpoint(b) \/ \E e \in Events : Redeliver(b, e)
    \/ \E w \in Workers : Claim(w) \/ Deliver(w) \/ MarkLost(w) \/ Crash(w)

Spec == Init /\ [][Next]_vars

\* Every worker polls each second and takes the events that are longest due,
\* a try ends with its timeout at the latest, and time passes.
Fairness ==
    /\ \A w \in Workers : WF_vars(Deliver(w))
    /\ \A e \in Events :
          /\ WF_vars(BecomeDue(e))
          /\ WF_vars(\E w \in Workers, S \in SUBSET Events : e \in S /\ ClaimDue(w, S))

FairSpec == Spec /\ Fairness

-----------------------------------------------------------------------------
(* Properties                                                              *)

\* Every variable keeps the type of its column or field.
TypeOK ==
    /\ status \in [Events -> OutboundEventStatuses]
    /\ attemptCount \in [Events -> 0 .. MaxAttempts]
    /\ due \in [Events -> BOOLEAN]
    /\ endpoint \in [Businesses -> BOOLEAN]
    /\ held \in [Workers -> SUBSET Events]
    /\ claimedCount \in [Workers -> [Events -> 0 .. MaxAttempts]]
    /\ current \in [Workers -> Events \cup {None}]
    /\ outcome \in [Workers -> {"none", "posted", "accepted", "failed"}]
    /\ tries \in [Events -> Nat]
    /\ accepted \in [Events -> BOOLEAN]
    /\ redeliveries \in [Events -> 0 .. MaxRedeliveries]
    /\ queued \in [Events -> BOOLEAN]
    /\ faults \in 0 .. MaxFaults

Holders(e) == {w \in Workers : e \in held[w]}

\* Workers never deliver the same event side by side of their own accord:
\* ClaimDue hands it out once for its insertion and once per redelivery.
ClaimedOnce ==
    \A e \in Events :
        Cardinality(Holders(e)) + (IF status[e] = "PENDING" THEN 1 ELSE 0)
            <= redeliveries[e] + 1

\* An event is tried at most MaxAttempts times, and as often again for every
\* redelivery, even though overlapping workers count from stale values.
DeliveryBudget ==
    \A e \in Events : tries[e] <= MaxAttempts * (redeliveries[e] + 1)

\* An event is DELIVERED only if its merchant has answered 2xx.
DeliveredMeansAccepted == \A e \in Events : status[e] = "DELIVERED" => accepted[e]

\* An event is given up only after its whole budget: NextRetryAt neither ends
\* the schedule early nor miscounts, whoever recorded the earlier failures.
FailedMeansBudgetSpent ==
    \A e \in Events :
        status[e] = "FAILED" /\ redeliveries[e] = 0 => tries[e] = MaxAttempts

\* A DELIVERED or FAILED event is not taken up again unless its merchant has
\* asked for it, whatever workers are still busy.
SettledStaysSettled ==
    [][ \A e \in Events : status[e] \in Settled /\ status'[e] # status[e] =>
                             redeliveries'[e] > 0 ]_vars

\* As long as no server crashes and no update is lost, every event ends up
\* delivered or dead-lettered, redelivered ones too.
EventSettles ==
    \A e \in Events : status[e] = "PENDING" ~> status[e] \in Settled \/ faults > 0

\* retry.go: after attempt N fails comes attempt N+1, after the last FAILED.
\* So once a try has failed its event does not stay DELIVERING.
FailedTryIsFollowed ==
    \A w \in Workers, e \in Events :
        current[w] = e /\ outcome[w] = "failed" ~> status[e] # "DELIVERING"

\* openapi.yaml: redeliver queues the event.  So until it has been tried
\* again it is waiting to be.
RedeliveryIsQueued == \A e \in Events : queued[e] => status[e] \notin Settled
=============================================================================
