------------------------- MODULE NotificationProofs -------------------------
(***************************************************************************)
(* Proofs about the composition of the ledger with the dispatchers: it     *)
(* does nothing either of them forbids, and a merchant hears of one        *)
(* success per invoice.                                                    *)
(***************************************************************************)
EXTENDS Notification, OutboxProofs

\* Every step of the composition is a step of the dispatchers or leaves them
\* alone.
LEMMA StepDispatch == [NotificationNext]_allVars => [Next]_vars
  <1> SUFFICES ASSUME [NotificationNext]_allVars PROVE [Next]_vars
    OBVIOUS
  <1>1. CASE UNCHANGED allVars
    BY <1>1 DEF allVars
  <1>2. ASSUME NEW a \in Events, Pay(a) PROVE [Next]_vars
    BY <1>2 DEF Pay, OpenAttempt, SettleAndAnnounce, DeclineAttempt, AnnounceFailure, Next
  <1>3. CASE Dispatch
    BY <1>3 DEF Dispatch, Next
  <1> QED
    BY <1>1, <1>2, <1>3 DEF NotificationNext

\* The composition implements OutboxDispatcher.
THEOREM ImplementsDispatcher == NotificationSpec => Spec
  <1>1. NotificationInit => Init
    BY DEF NotificationInit
  <1> QED
    BY <1>1, StepDispatch, PTL DEF NotificationSpec, Spec

\* The composition implements PaymentLedger.
THEOREM ImplementsLedger == NotificationSpec => Ledger!Spec
  <1>1. NotificationInit => Ledger!Init
    BY DEF NotificationInit
  <1>2. [NotificationNext]_allVars => [Ledger!Next]_(Ledger!ledger)
    <2> SUFFICES ASSUME [NotificationNext]_allVars PROVE [Ledger!Next]_(Ledger!ledger)
      OBVIOUS
    <2>1. CASE UNCHANGED allVars
      BY <2>1 DEF allVars, ledgerVars, Ledger!ledger
    <2>2. ASSUME NEW a \in Events, Pay(a) PROVE [Ledger!Next]_(Ledger!ledger)
      BY <2>2 DEF Pay, OpenAttempt, SettleAndAnnounce, DeclineAttempt, AnnounceFailure,
         Ledger!Next, ledgerVars, Ledger!ledger
    <2>3. CASE Dispatch
      BY <2>3 DEF Dispatch, ledgerVars, Ledger!ledger
    <2> QED
      BY <2>1, <2>2, <2>3 DEF NotificationNext
  <1> QED
    BY <1>1, <1>2, PTL DEF NotificationSpec, Ledger!Spec

-----------------------------------------------------------------------------
(* The ledger and the outbox                                               *)

LEMMA InitNotify == NotificationInit => NotifyInv
  <1> SUFFICES ASSUME NotificationInit PROVE NotifyInv
    OBVIOUS
  <1>1. DispatchInv
    BY InitDispatch DEF NotificationInit
  <1> QED
    BY <1>1 DEF NotificationInit, Init, Ledger!Init, NotifyInv, LedgerTypeOK, LedgerInv, OutboxInv

\* A payment step opens, settles or declines one attempt and writes its event
\* with its last outcome.
LEMMA PayNotify ==
    ASSUME NotifyInv, NEW a \in Events, Pay(a)
    PROVE  LedgerTypeOK' /\ LedgerInv' /\ OutboxInv'
  <1> USE DEF NotifyInv, LedgerTypeOK
  <1>0. status \in [Events -> OutboundEventStatuses] /\ accepted \in [Events -> BOOLEAN]
    BY DEF DispatchInv, TypeOK
  <1>1. CASE OpenAttempt(a)
    <2>1. UNCHANGED <<status, accepted>>
      BY <1>1 DEF OpenAttempt, vars, rowVars
    <2> QED
      BY <1>0, <1>1, <2>1 DEF OpenAttempt, Ledger!Open, LedgerInv, OutboxInv
  <1>2. CASE SettleAndAnnounce(a)
    <2>1. UNCHANGED accepted /\ status' = [status EXCEPT ![a] = "PENDING"]
      BY <1>2 DEF SettleAndAnnounce, Create
    <2> QED
      BY <1>0, <1>2, <2>1 DEF SettleAndAnnounce, Ledger!Succeed, LedgerInv, OutboxInv
  <1>3. CASE DeclineAttempt(a)
    <2>1. UNCHANGED <<status, accepted>>
      BY <1>3 DEF DeclineAttempt, vars, rowVars
    <2> QED
      BY <1>0, <1>3, <2>1 DEF DeclineAttempt, Ledger!Decline, LedgerInv, OutboxInv
  <1>4. CASE AnnounceFailure(a)
    <2>1. UNCHANGED accepted /\ status' = [status EXCEPT ![a] = "PENDING"]
      BY <1>4 DEF AnnounceFailure, Create
    <2> QED
      BY <1>0, <1>4, <2>1 DEF AnnounceFailure, ledgerVars, LedgerInv, OutboxInv
  <1> QED
    BY <1>1, <1>2, <1>3, <1>4 DEF Pay

\* The dispatchers neither insert nor delete a row, and an answer comes only
\* for an event a worker holds.
LEMMA DispatchNotify ==
    ASSUME NotifyInv, Dispatch
    PROVE  LedgerTypeOK' /\ LedgerInv' /\ OutboxInv'
  <1> USE DEF NotifyInv, LedgerTypeOK
  <1>0. UNCHANGED <<invoiceOf, attStatus, paid, announced>> /\ BaseInv /\ TypeOK
    BY DEF Dispatch, ledgerVars, DispatchInv, BaseInv
  <1> SUFFICES ASSUME NEW e \in Events
               PROVE  /\ status'[e] = "NONE" <=> status[e] = "NONE"
                      /\ accepted'[e] => accepted[e] \/ status[e] # "NONE"
    BY <1>0 DEF LedgerInv, OutboxInv
  <1> USE DEF TypeOK, rowVars
  <1>1. ASSUME NEW f \in Events, BecomeDue(f)
        PROVE  UNCHANGED <<status, accepted>>
    BY <1>1 DEF BecomeDue
  <1>2. ASSUME NEW b \in Businesses, SetEndpoint(b) \/ \E f \in Events : Redeliver(b, f)
        PROVE  (status'[e] = "NONE" <=> status[e] = "NONE") /\ UNCHANGED accepted
    BY <1>0, <1>2 DEF SetEndpoint, Redeliver, ResetForRedelivery
  <1>3. ASSUME NEW w \in Workers, Claim(w) \/ (\E f \in Events : DeliverOne(w, f)) \/ MarkLost(w) \/ Crash(w)
        PROVE  (status'[e] = "NONE" <=> status[e] = "NONE") /\ UNCHANGED accepted
    BY <1>0, <1>3 DEF Claim, ClaimDue, DeliverOne, MarkLost, Crash
  <1>4. ASSUME NEW w \in Workers, PostAnswered(w) \/ MarkDelivered(w) \/ RecordFailure(w)
        PROVE  /\ status'[e] = "NONE" <=> status[e] = "NONE"
               /\ accepted'[e] => accepted[e] \/ status[e] # "NONE"
    <2>1. outcome[w] # "none"
      BY <1>4 DEF PostAnswered, MarkDelivered, RecordFailure
    <2>2. current[w] \in Events /\ status[current[w]] # "NONE"
      BY <1>0, <2>1, CurrentKnown
    <2> QED
      BY <1>0, <1>4, <2>2 DEF PostAnswered, MarkDelivered, RecordFailure, MarkRetry, MarkFailed
  <1> QED
    BY <1>1, <1>2, <1>3, <1>4 DEF Dispatch, Deliver

\* NotifyInv is inductive.
LEMMA NextNotify == NotifyInv /\ [NotificationNext]_allVars => NotifyInv'
  <1> SUFFICES ASSUME NotifyInv, [NotificationNext]_allVars PROVE NotifyInv'
    OBVIOUS
  <1>1. DispatchInv'
    BY StepDispatch, NextDispatch DEF NotifyInv
  <1>2. CASE UNCHANGED allVars
    BY <1>1, <1>2 DEF allVars, vars, rowVars, ledgerVars, NotifyInv, LedgerTypeOK, LedgerInv, OutboxInv
  <1> QED
    BY <1>1, <1>2, PayNotify, DispatchNotify DEF NotificationNext, NotifyInv

\* NotifyInv holds in every reachable state of the composition.
THEOREM NotifyInvariance == NotificationSpec => []NotifyInv
  BY InitNotify, NextNotify, PTL DEF NotificationSpec

\* A merchant hears of one success per invoice at most, and of no attempt
\* that is not settled, whatever is redelivered and however workers overlap.
THEOREM OneSuccessPerInvoiceHolds == NotificationSpec => []OneSuccessPerInvoice
  <1>1. NotifyInv => OneSuccessPerInvoice
    BY DEF NotifyInv, LedgerInv, OutboxInv, OneSuccessPerInvoice
  <1> QED
    BY <1>1, NotifyInvariance, PTL
=============================================================================
