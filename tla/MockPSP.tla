------------------------------ MODULE MockPSP -------------------------------
(***************************************************************************)
(* The payment service provider (cmd/mock-psp) and the gateway's client to *)
(* it (internal/psp): calls in flight, the in-memory idempotency cache,    *)
(* charges, and the sender of the charge webhooks.                         *)
(*                                                                         *)
(* The cache maps an idempotency key (an attempt) to a cacheEntry, named   *)
(* by the call that created it.  entry is that cacheEntry's outcome, and a *)
(* charge exists for every entry that succeeded; the entry outlives the    *)
(* cache for the calls that wait on it.                                    *)
(***************************************************************************)
EXTENDS GatewayTypes

VARIABLES
    call,      \* the HTTP call of request c: none, sent, open at the PSP, closed
    callKey,   \* the idempotency key it carries
    waitOn,    \* the cacheEntry whose ready channel it waits on
    cache,     \* p.cache
    entry,     \* outcome of the cacheEntry call c created
    notify,    \* the notifyWebhook goroutine of charge c
    tries,     \* deliveries it has sent
    restarts   \* PSP restarts so far

pspVars == <<call, callKey, waitOn, cache, entry, notify, tries, restarts>>

CallStates == {"none", "sent", "open", "closed"}
Resolved == {"succeeded", "failed", "rejected", "error"}
EntryStates == {"none", "charging", "lost"} \cup Resolved
NotifyStates == {"none", "due", "outstanding", "acked", "gaveUp"}

PSPTypeOK ==
    /\ call \in [Requests -> CallStates]
    /\ callKey \in [Requests -> Requests \cup {None}]
    /\ waitOn \in [Requests -> Requests \cup {None}]
    /\ cache \in [Requests -> Requests \cup {None}]
    /\ entry \in [Requests -> EntryStates]
    /\ notify \in [Requests -> NotifyStates]
    /\ tries \in [Requests -> 0 .. MaxWebhookTries]
    /\ restarts \in 0 .. MaxPSPRestarts

PSPInit ==
    /\ call = [c \in Requests |-> "none"]
    /\ callKey = [c \in Requests |-> None]
    /\ waitOn = [c \in Requests |-> None]
    /\ cache = [k \in Requests |-> None]
    /\ entry = [c \in Requests |-> "none"]
    /\ notify = [c \in Requests |-> "none"]
    /\ tries = [c \in Requests |-> 0]
    /\ restarts = 0

\* The charges made under idempotency key k.
ChargesOf(k) == {c \in Requests : entry[c] = "succeeded" /\ callKey[c] = k}

-----------------------------------------------------------------------------
\* HTTPClient.Charge puts the call on the wire.
Charge(c, key) ==
    /\ call[c] = "none"
    /\ call' = [call EXCEPT ![c] = "sent"]
    /\ callKey' = [callKey EXCEPT ![c] = key]
    /\ UNCHANGED <<waitOn, cache, entry, notify, tries, restarts>>

\* Mutant of HandleCharge: the cache is not consulted.
HandleChargeUncached(c) ==
    /\ call[c] = "sent"
    /\ call' = [call EXCEPT ![c] = "open"]
    /\ cache' = [cache EXCEPT ![callKey[c]] = c]
    /\ entry' = [entry EXCEPT ![c] = "charging"]
    /\ waitOn' = [waitOn EXCEPT ![c] = c]
    /\ UNCHANGED <<callKey, notify, tries, restarts>>

\* handleCharge and getOrStart, under p.mu: the first call of a key creates
\* its entry and performs the charge, a later one waits on that entry.  The
\* call may arrive long after the gateway stopped waiting for it.
HandleCharge(c) ==
    LET k == callKey[c]
    IN  /\ call[c] = "sent"
        /\ call' = [call EXCEPT ![c] = "open"]
        /\ \/ /\ cache[k] = None
              /\ cache' = [cache EXCEPT ![k] = c]
              /\ entry' = [entry EXCEPT ![c] = "charging"]
              /\ waitOn' = [waitOn EXCEPT ![c] = c]
           \/ /\ cache[k] # None
              /\ waitOn' = [waitOn EXCEPT ![c] = cache[k]]
              /\ UNCHANGED <<cache, entry>>
        /\ UNCHANGED <<callKey, notify, tries, restarts>>

\* completeCharge's finish: the entry gets its outcome and stays cached.  A
\* success starts the webhook goroutine.
FinishCharge(c) ==
    /\ entry[c] = "charging"
    /\ \/ /\ req[c].tok \in ChargedTokens
          /\ entry' = [entry EXCEPT ![c] = "succeeded"]
          /\ notify' = [notify EXCEPT ![c] = "due"]
       \/ /\ req[c].tok \in DeclinedTokens
          /\ entry' = [entry EXCEPT ![c] = "failed"]
          /\ notify' = [notify EXCEPT ![c] = IF NotifyDeclines THEN "due" ELSE @]
    /\ UNCHANGED <<call, callKey, waitOn, cache, tries, restarts>>

\* completeCharge's failUncached: the key is forgotten, so a later call with
\* it starts over; the calls that wait on the entry get its HTTP code.
FailUncached(c) ==
    /\ entry[c] = "charging"
    /\ req[c].tok \in UncachedTokens
    /\ entry' = [entry EXCEPT
          ![c] = IF req[c].tok = "tok_network_error" THEN "error" ELSE "rejected"]
    /\ cache' = [cache EXCEPT ![callKey[c]] = None]
    /\ UNCHANGED <<call, callKey, waitOn, notify, tries, restarts>>

\* The 2 s of the client are over before the 30 s tok_timeout takes; a call
\* that came to wait on it late may still be answered in time.
InTime(c) == ~(waitOn[c] = c /\ req[c].tok = "tok_timeout")

\* The PSP's answer reaches a client that still waits for it.
Reply(c, outcome) ==
    /\ call[c] = "open"
    /\ entry[waitOn[c]] = outcome
    /\ outcome \in Resolved
    /\ InTime(c)
    /\ call' = [call EXCEPT ![c] = "closed"]
    /\ UNCHANGED <<callKey, waitOn, cache, entry, notify, tries, restarts>>

\* A restart empties the cache, drops the calls and charges in progress and
\* kills the webhook goroutines.
PSPRestart ==
    /\ restarts < MaxPSPRestarts
    /\ restarts' = restarts + 1
    /\ cache' = [k \in Requests |-> None]
    /\ call' = [c \in Requests |-> IF call[c] = "open" THEN "closed" ELSE call[c]]
    /\ entry' = [c \in Requests |-> IF entry[c] = "charging" THEN "lost" ELSE entry[c]]
    /\ notify' = [c \in Requests |->
                    IF notify[c] \in {"due", "outstanding"} THEN "gaveUp" ELSE notify[c]]
    /\ UNCHANGED <<callKey, waitOn, tries>>

-----------------------------------------------------------------------------
\* notifyWebhook posts the event.
SendWebhook(e) ==
    /\ notify[e] = "due"
    /\ notify' = [notify EXCEPT ![e] = "outstanding"]
    /\ tries' = [tries EXCEPT ![e] = @ + 1]
    /\ UNCHANGED <<call, callKey, waitOn, cache, entry, restarts>>

\* Any answer below 500 ends the goroutine, a refusal included.
WebhookAcked(e) ==
    /\ notify[e] = "outstanding"
    /\ notify' = [notify EXCEPT ![e] = "acked"]
    /\ UNCHANGED <<call, callKey, waitOn, cache, entry, tries, restarts>>

\* Mutant of WebhookTryFailed: the last try is followed by another.
WebhookRetryAlways(e) ==
    /\ notify[e] = "outstanding"
    /\ notify' = [notify EXCEPT ![e] = "due"]
    /\ UNCHANGED <<call, callKey, waitOn, cache, entry, tries, restarts>>

\* A 5xx answer, a connection error or the 5 s timeout: try again after the
\* next delay, or give up for good after the last.
WebhookTryFailed(e) ==
    /\ notify[e] = "outstanding"
    /\ notify' = [notify EXCEPT
          ![e] = IF tries[e] = MaxWebhookTries THEN "gaveUp" ELSE "due"]
    /\ UNCHANGED <<call, callKey, waitOn, cache, entry, tries, restarts>>
=============================================================================
