-------------------------- MODULE GatewayInvariant --------------------------
(***************************************************************************)
(* The inductive invariant of PaymentGateway, in named parts.              *)
(***************************************************************************)
EXTENDS PaymentGateway

BeforeInsert == {"lookup", "lockInvoice", "lookupAgain"} \cup CreateSteps
KeyInserted == {"checkPending", "insertAttempt"}

\* The sender has tries left while one is due.
TriesInv == \A e \in Requests : notify[e] = "due" => tries[e] < MaxWebhookTries

\* A row lock is held exactly by the transaction that is between its SELECT
\* ... FOR UPDATE and its end.
LockInv ==
    /\ \A i \in Invoices, r \in Requests :
          rowLock[i] = r <=> \/ pc[r] \in CreateSteps /\ req[r].inv = i
                             \/ pc[r] = "settle" /\ req[att[r]].inv = i
    /\ \A i \in Invoices, d \in Deliveries :
          rowLock[i] = d <=> wpc[d] = "settle" /\ req[EventAttempt(d)].inv = i

\* A key row and its attempt exist together, and a key has one row, counting
\* the rows that are inserted and not yet committed.
KeyInv ==
    /\ \A r \in Requests : r \in keyRows <=> attStatus[r] # "NONE"
    /\ \A o, p \in keyRows : SameKey(o, p) => o = p
    /\ \A r \in Requests : pc[r] \in BeforeInsert => attStatus[r] = "NONE"
    /\ \A r \in Requests : pc[r] \in KeyInserted => \A o \in keyRows : ~SameKey(o, r)
    /\ \A r, s \in Requests :
          pc[r] \in KeyInserted /\ pc[s] \in KeyInserted /\ SameKey(r, s) => r = s

\* The attempt a handler works on exists and was created for the same
\* business, key, invoice and card token.
AttInv ==
    /\ \A r \in Requests :
          att[r] # None => /\ attStatus[att[r]] # "NONE"
                           /\ SameKey(att[r], r)
                           /\ RequestHash(att[r]) = RequestHash(r)
    /\ \A r \in Requests : pc[r] \in ChargeSteps => att[r] # None

\* The invoice of a transaction that creates an attempt is payable and its
\* business's own; that of an attempt is no longer a draft.
InvoiceInv ==
    /\ \A r \in Requests :
          pc[r] \in CreateSteps => /\ invoiceStatus[req[r].inv] \in {"DRAFT", "OPEN"}
                                   /\ Owner[req[r].inv] = req[r].biz
    /\ \A a \in Requests :
          attStatus[a] # "NONE" => /\ invoiceStatus[req[a].inv] \in {"OPEN", "PAID"}
                                   /\ Owner[req[a].inv] = req[a].biz

LedgerInv == OneLiveAttempt /\ PaidIffSucceeded /\ SucceededHasEvent /\ PendingIndexNeverFires

\* A call carries the attempt its handler works on; a call that waits, waits
\* on an entry of the same attempt.
CallInv ==
    /\ \A c \in Requests : call[c] = "none" =>
          callKey[c] = None /\ waitOn[c] = None /\ entry[c] = "none"
    /\ \A c \in Requests : call[c] # "none" => callKey[c] # None /\ callKey[c] = att[c]
    /\ \A r \in Requests : pc[r] \in BeforeInsert \cup {"charge"} => call[r] = "none"
    /\ \A c \in Requests : call[c] = "sent" => entry[c] = "none"
    /\ \A c \in Requests : call[c] = "open" => waitOn[c] # None
    /\ \A c \in Requests : waitOn[c] # None =>
          callKey[waitOn[c]] = callKey[c] /\ entry[waitOn[c]] # "none"

\* An entry's outcome is what its card token makes of it, and the cache holds
\* the entry of every charge made or declined since the PSP last started.
EntryInv ==
    /\ \A c \in Requests :
          /\ entry[c] = "succeeded" => req[c].tok \in ChargedTokens
          /\ entry[c] \in {"failed", "rejected"} => req[c].tok \notin ChargedTokens
    /\ \A k \in Requests : cache[k] # None =>
          callKey[cache[k]] = k /\ entry[cache[k]] \in {"charging", "succeeded", "failed"}
    /\ restarts = 0 => \A c \in Requests :
          entry[c] \in {"charging", "succeeded", "failed"} => cache[callKey[c]] = c

\* Only a PSP outcome moves a handler to settle, with the charge in hand.
OutcomeInv ==
    /\ \A r \in Requests : pc[r] \in {"lockPaid", "settle"} =>
          ref[r] # None /\ ref[r] \in ChargesOf(att[r])
    /\ \A r \in Requests : pc[r] \in {"fail", "enqueue"} => req[r].tok \notin ChargedTokens
    /\ \A a \in Requests : attStatus[a] = "FAILED" => req[a].tok \notin ChargedTokens

\* Deliveries exist for resolved charges only.
HookInv ==
    /\ \A e \in Requests : notify[e] # "none" => entry[e] \in {"succeeded", "failed"}
    /\ \A e \in Requests : tries[e] > 0 => notify[e] # "none"
    /\ \A d \in Deliveries : wpc[d] # "idle" => tries[d[1]] > 0
    /\ \A d \in Deliveries : wpc[d] \in {"lock", "settle"} => entry[d[1]] = "succeeded"
    /\ \A d \in Deliveries : wpc[d] \in {"fail", "enqueue"} => entry[d[1]] = "failed"

PSPInv == CallInv /\ EntryInv /\ OutcomeInv /\ HookInv /\ RefIsTheCharge

\* The inductive invariant, from which the safety properties follow.
IInv == /\ TypeOK /\ TriesInv /\ LockInv /\ KeyInv /\ AttInv /\ InvoiceInv
        /\ LedgerInv /\ PSPInv

-----------------------------------------------------------------------------
(* What the answers, the webhook rows and the PSP's lives add to it        *)

\* The answers that say something about an invoice; the others a stranger
\* may be given too.
OwnersAnswers ==
    (AttemptStatuses \ {"NONE"}) \cup {"inProgress", "alreadyPaid", "void", "uncollectible"}

\* A handler has a psp_ref only from a success or from the row it answers,
\* answers once, and says of an invoice only what its owner may know.
AnswerInv ==
    /\ \A r \in Requests : resp[r] # "NONE" => pc[r] = "done"
    /\ \A r \in Requests :
          pc[r] \in BeforeInsert \cup {"charge", "await", "fail", "enqueue"} => ref[r] = None
    /\ \A r \in Requests : pc[r] = "enqueue" => attStatus[att[r]] = "FAILED"
    /\ \A a \in Requests : attStatus[a] # "SUCCEEDED" => attRef[a] = None
    /\ \A r \in Requests : resp[r] \in {"SUCCEEDED", "FAILED"} => att[r] # None
    /\ \A r \in Requests : resp[r] \in OwnersAnswers => Owner[req[r].inv] = req[r].biz
    /\ AnswerMatchesRecord

\* The attempt of event e is settled the way the PSP settled its charge.
EventSettled(e) ==
    \/ entry[e] = "succeeded" /\ attStatus[callKey[e]] = "SUCCEEDED"
    \/ entry[e] = "failed" /\ attStatus[callKey[e]] = "FAILED"

\* A delivery that is done applying its event has settled the attempt, unless
\* its read failed.
ProcessedInv ==
    /\ \A d \in Deliveries : wpc[d] = "enqueue" => EventSettled(d[1])
    /\ ~ReadFaults => /\ \A d \in Deliveries : wpc[d] = "processed" => EventSettled(d[1])
                      /\ ProcessedMeansSettled

\* The calls of attempt k that made a charge or are making one.
Charged(k) ==
    {c \in Requests : entry[c] \in {"charging", "succeeded"} /\ callKey[c] = k}

\* Each life of the PSP adds one charge at most to an attempt's: the entry
\* that is cached now, or one of those the restarts have dropped.
LifeInv ==
    /\ \A c \in Requests : entry[c] = "charging" => cache[callKey[c]] = c
    /\ \A k \in Requests :
          /\ IsFiniteSet(Charged(k))
          /\ Cardinality(Charged(k)) <= restarts + (IF cache[k] = None THEN 0 ELSE 1)

RecordInv == AnswerInv /\ ProcessedInv /\ LifeInv
=============================================================================
