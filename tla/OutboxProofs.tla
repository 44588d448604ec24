---------------------------- MODULE OutboxProofs ----------------------------
(***************************************************************************)
(* Proofs about OutboxDispatcher for every set of events, businesses and   *)
(* workers, every schedule that covers its budget, and every bound.        *)
(***************************************************************************)
EXTENDS OutboxInvariant, FiniteSetTheorems, TLAPS

USE EventOwnerAssumption, ScheduleAssumption, BackoffAssumption, OutboxBoundAssumption,
    NoneIsNoEvent

-----------------------------------------------------------------------------
(* Types, workers and rows                                                 *)

BaseInv == TypeOK /\ WorkerInv /\ RowInv /\ AcceptInv

\* The worker that has an outcome holds its event, which is in the table.
LEMMA CurrentKnown ==
    ASSUME BaseInv, NEW w \in Workers, outcome[w] # "none"
    PROVE  /\ current[w] \in Events /\ current[w] \in held[w]
           /\ status[current[w]] # "NONE"
           /\ claimedCount[w][current[w]] \in 0 .. MaxAttempts - 1
  BY DEF BaseInv, TypeOK, WorkerInv, RowInv, Holders

\* What the merchants and the clock do.
LEMMA MerchantBase ==
    ASSUME BaseInv,
           \/ \E e \in Events : Create(e) \/ BecomeDue(e)
           \/ \E b \in Businesses : SetEndpoint(b) \/ \E e \in Events : Redeliver(b, e)
    PROVE  BaseInv'
  <1> USE DEF BaseInv, TypeOK, OutboundEventStatuses, Settled, workerVars, rowVars
  <1>1. ASSUME NEW e \in Events, Create(e) PROVE BaseInv'
    BY <1>1 DEF Create, WorkerInv, RowInv, AcceptInv, DeliveredMeansAccepted, Holders
  <1>2. ASSUME NEW e \in Events, BecomeDue(e) PROVE BaseInv'
    BY <1>2 DEF BecomeDue, WorkerInv, RowInv, AcceptInv, DeliveredMeansAccepted, Holders
  <1>3. ASSUME NEW b \in Businesses, SetEndpoint(b) PROVE BaseInv'
    BY <1>3 DEF SetEndpoint, WorkerInv, RowInv, AcceptInv, DeliveredMeansAccepted, Holders
  <1>4. ASSUME NEW b \in Businesses, NEW e \in Events, Redeliver(b, e) PROVE BaseInv'
    BY <1>4 DEF Redeliver, ResetForRedelivery, WorkerInv, RowInv, AcceptInv,
                DeliveredMeansAccepted, Holders
  <1> QED
    BY <1>1, <1>2, <1>3, <1>4

\* What a worker does.
LEMMA WorkerBase ==
    ASSUME BaseInv, NEW w \in Workers,
           Claim(w) \/ Deliver(w) \/ MarkLost(w) \/ Crash(w)
    PROVE  BaseInv'
  <1> USE DEF BaseInv, TypeOK, OutboundEventStatuses, Settled, workerVars, rowVars
  <1>1. ASSUME NEW S \in SUBSET Events, ClaimDue(w, S) PROVE BaseInv'
    <2>1. TypeOK' /\ WorkerInv'
      BY <1>1 DEF ClaimDue, WorkerInv
    <2>2. RowInv'
      BY <1>1 DEF ClaimDue, RowInv, Holders
    <2>3. AcceptInv'
      BY <1>1 DEF ClaimDue, AcceptInv, DeliveredMeansAccepted
    <2> QED
      BY <2>1, <2>2, <2>3
  <1>2. ASSUME NEW e \in Events, DeliverOne(w, e) PROVE BaseInv'
    <2>0. status[e] # "NONE" /\ outcome[w] = "none"
      BY <1>2 DEF DeliverOne, RowInv, WorkerInv, Holders
    <2>1. TypeOK' /\ WorkerInv'
      BY <1>2 DEF DeliverOne, WorkerInv
    <2>2. RowInv'
      BY <1>2, <2>0 DEF DeliverOne, RowInv, Holders
    <2>3. AcceptInv'
      BY <1>2, <2>0 DEF DeliverOne, AcceptInv, DeliveredMeansAccepted
    <2> QED
      BY <2>1, <2>2, <2>3
  <1>3. CASE PostAnswered(w)
    <2>0. outcome[w] # "none"
      BY <1>3 DEF PostAnswered
    <2>1. TypeOK' /\ WorkerInv'
      BY <1>3, <2>0, CurrentKnown DEF PostAnswered, WorkerInv
    <2>2. RowInv'
      BY <1>3 DEF PostAnswered, RowInv, Holders
    <2>3. AcceptInv'
      BY <1>3, <2>0, CurrentKnown DEF PostAnswered, AcceptInv, DeliveredMeansAccepted
    <2> QED
      BY <2>1, <2>2, <2>3
  <1>4. CASE MarkDelivered(w)
    <2>0. outcome[w] # "none" /\ accepted[current[w]]
      BY <1>4 DEF MarkDelivered, AcceptInv
    <2>1. TypeOK' /\ WorkerInv'
      BY <1>4, <2>0, CurrentKnown DEF MarkDelivered, Done, WorkerInv
    <2>2. RowInv'
      BY <1>4, <2>0, CurrentKnown DEF MarkDelivered, Done, RowInv, Holders
    <2>3. AcceptInv'
      BY <1>4, <2>0, CurrentKnown DEF MarkDelivered, Done, AcceptInv, DeliveredMeansAccepted
    <2> QED
      BY <2>1, <2>2, <2>3
  <1>5. CASE RecordFailure(w)
    <2>0. outcome[w] # "none"
      BY <1>5 DEF RecordFailure
    <2>1. /\ \/ /\ status' = [status EXCEPT ![current[w]] = "PENDING"]
                /\ claimedCount[w][current[w]] + 1 < MaxAttempts
             \/ status' = [status EXCEPT ![current[w]] = "FAILED"]
          /\ attemptCount' = [attemptCount EXCEPT ![current[w]] = claimedCount[w][current[w]] + 1]
          /\ UNCHANGED due \/ due' = [due EXCEPT ![current[w]] = FALSE]
          /\ Done(w) /\ UNCHANGED <<endpoint, tries, accepted, redeliveries, queued, faults>>
      BY <1>5 DEF RecordFailure, NextRetryAt, MarkRetry, MarkFailed
    <2>a. /\ current[w] \in Events /\ claimedCount[w][current[w]] + 1 \in 0 .. MaxAttempts
          /\ attemptCount' \in [Events -> 0 .. MaxAttempts]
      BY <2>0, <2>1, CurrentKnown
    <2>b. WorkerInv' /\ claimedCount' \in [Workers -> [Events -> 0 .. MaxAttempts]]
      BY <2>0, <2>1, CurrentKnown DEF Done, WorkerInv
    <2>c. /\ status' \in [Events -> OutboundEventStatuses] /\ due' \in [Events -> BOOLEAN]
          /\ held' \in [Workers -> SUBSET Events]
          /\ current' \in [Workers -> Events \cup {None}]
          /\ outcome' \in [Workers -> {"none", "posted", "accepted", "failed"}]
      BY <2>1, <2>a DEF Done
    <2>2. TypeOK' /\ WorkerInv'
      BY <2>1, <2>a, <2>b, <2>c
    <2>3. RowInv'
      BY <2>0, <2>1, CurrentKnown DEF Done, RowInv, Holders
    <2>4. AcceptInv'
      BY <2>0, <2>1, CurrentKnown DEF Done, AcceptInv, DeliveredMeansAccepted
    <2> QED
      BY <2>2, <2>3, <2>4
  <1>6. CASE MarkLost(w)
    <2>0. outcome[w] # "none"
      BY <1>6 DEF MarkLost
    <2>1. TypeOK' /\ WorkerInv'
      BY <1>6, <2>0, CurrentKnown DEF MarkLost, Done, WorkerInv
    <2>2. RowInv'
      BY <1>6, <2>0, CurrentKnown DEF MarkLost, Done, RowInv, Holders
    <2>3. AcceptInv'
      BY <1>6, <2>0, CurrentKnown DEF MarkLost, Done, AcceptInv, DeliveredMeansAccepted
    <2> QED
      BY <2>1, <2>2, <2>3
  <1>7. CASE Crash(w)
    <2>1. TypeOK' /\ WorkerInv'
      BY <1>7 DEF Crash, WorkerInv
    <2>2. RowInv'
      BY <1>7 DEF Crash, RowInv, Holders
    <2>3. AcceptInv'
      BY <1>7 DEF Crash, AcceptInv, DeliveredMeansAccepted
    <2> QED
      BY <2>1, <2>2, <2>3
  <1> QED
    BY <1>1, <1>2, <1>3, <1>4, <1>5, <1>6, <1>7 DEF Claim, Deliver

-----------------------------------------------------------------------------
(* Who holds an event                                                      *)

\* A step of a worker changes whose hands an event is in only by a claim, by
\* the end of a try or by a crash.
LEMMA HoldersStep ==
    ASSUME BaseInv, NEW w \in Workers, NEW e \in Events
    PROVE  /\ \A S \in SUBSET Events : ClaimDue(w, S) =>
                 /\ w \notin Holders(e)
                 /\ e \in S => Holders(e)' = Holders(e) \cup {w}
                 /\ e \notin S => Holders(e)' = Holders(e)
           /\ Done(w) /\ outcome[w] # "none" =>
                 Holders(e)' = IF e = current[w] THEN Holders(e) \ {w} ELSE Holders(e)
           /\ Crash(w) => Holders(e)' = Holders(e) \ {w}
           /\ UNCHANGED held => Holders(e)' = Holders(e)
  <1> USE DEF BaseInv, TypeOK
  <1>1. ASSUME NEW S \in SUBSET Events, ClaimDue(w, S)
        PROVE  /\ w \notin Holders(e)
               /\ e \in S => Holders(e)' = Holders(e) \cup {w}
               /\ e \notin S => Holders(e)' = Holders(e)
    BY <1>1 DEF ClaimDue, Holders
  <1>2. ASSUME Done(w), outcome[w] # "none"
        PROVE  Holders(e)' = IF e = current[w] THEN Holders(e) \ {w} ELSE Holders(e)
    BY <1>2, CurrentKnown DEF Done, Holders
  <1>3. Crash(w) => Holders(e)' = Holders(e) \ {w}
    BY DEF Crash, Holders
  <1>4. UNCHANGED held => Holders(e)' = Holders(e)
    BY DEF Holders
  <1> QED
    BY <1>1, <1>2, <1>3, <1>4

\* Handing an event over or dropping it adds no holder, and only Create and
\* Redeliver make a row claimable that no try has just left.
LEMMA NextClaim ==
    ASSUME BaseInv, ClaimInv, [Next]_vars
    PROVE  ClaimInv'
  <1> USE DEF BaseInv, TypeOK, workerVars, rowVars
  <1> SUFFICES ASSUME NEW e \in Events
               PROVE  /\ IsFiniteSet(Holders(e)')
                      /\ Cardinality(Holders(e)') + (IF status'[e] = "PENDING" THEN 1 ELSE 0)
                            <= redeliveries'[e] + 1
    BY DEF ClaimInv, ClaimedOnce
  <1>0. /\ IsFiniteSet(Holders(e)) /\ Cardinality(Holders(e)) \in Nat
        /\ redeliveries[e] \in Nat
        /\ Cardinality(Holders(e)) + (IF status[e] = "PENDING" THEN 1 ELSE 0)
              <= redeliveries[e] + 1
    BY FS_CardinalityType DEF ClaimInv, ClaimedOnce
  <1>1. CASE UNCHANGED vars
    BY <1>0, <1>1 DEF vars, Holders
  <1>2. ASSUME NEW f \in Events, Create(f) \/ BecomeDue(f)
        PROVE  /\ Holders(e)' = Holders(e) /\ redeliveries' = redeliveries
               /\ status'[e] # status[e] => status[e] = "NONE"
    BY <1>2 DEF Create, BecomeDue, Holders
  <1>3. status[e] = "NONE" => Cardinality(Holders(e)) = 0
    BY FS_EmptySet DEF RowInv
  <1>4. ASSUME NEW b \in Businesses, SetEndpoint(b) \/ \E f \in Events : Redeliver(b, f)
        PROVE  /\ Holders(e)' = Holders(e)
               /\ \/ status'[e] = status[e] /\ redeliveries'[e] = redeliveries[e]
                  \/ redeliveries'[e] = redeliveries[e] + 1
    BY <1>4 DEF SetEndpoint, Redeliver, ResetForRedelivery, Holders
  <1>5. ASSUME NEW w \in Workers, NEW S \in SUBSET Events, ClaimDue(w, S)
        PROVE  /\ IsFiniteSet(Holders(e)')
               /\ Cardinality(Holders(e)') + (IF status'[e] = "PENDING" THEN 1 ELSE 0)
                     <= redeliveries'[e] + 1
    <2>1. CASE e \in S
      <3>1. status[e] = "PENDING" /\ status'[e] = "DELIVERING" /\ redeliveries' = redeliveries
        BY <1>5, <2>1 DEF ClaimDue
      <3>2. Holders(e)' = Holders(e) \cup {w} /\ w \notin Holders(e)
        BY <1>5, <2>1, HoldersStep
      <3>3. IsFiniteSet(Holders(e)') /\ Cardinality(Holders(e)') = Cardinality(Holders(e)) + 1
        BY <1>0, <3>2, FS_AddElement
      <3> QED
        BY <1>0, <3>1, <3>3
    <2>2. CASE e \notin S
      <3>1. status'[e] = status[e] /\ redeliveries' = redeliveries
        BY <1>5, <2>2 DEF ClaimDue
      <3>2. Holders(e)' = Holders(e)
        BY <1>5, <2>2, HoldersStep
      <3> QED
        BY <1>0, <3>1, <3>2
    <2> QED
      BY <2>1, <2>2
  <1>6. ASSUME NEW w \in Workers, (\E f \in Events : DeliverOne(w, f)) \/ PostAnswered(w)
        PROVE  Holders(e)' = Holders(e) /\ UNCHANGED <<status, redeliveries>>
    BY <1>6 DEF DeliverOne, PostAnswered, Holders
  <1>7. ASSUME NEW w \in Workers, MarkDelivered(w) \/ RecordFailure(w) \/ MarkLost(w)
        PROVE  /\ IsFiniteSet(Holders(e)')
               /\ Cardinality(Holders(e)') + (IF status'[e] = "PENDING" THEN 1 ELSE 0)
                     <= redeliveries'[e] + 1
    <2>1. /\ outcome[w] # "none" /\ Done(w) /\ redeliveries' = redeliveries
          /\ e # current[w] => status'[e] = status[e]
      BY <1>7 DEF MarkDelivered, RecordFailure, MarkLost, MarkRetry, MarkFailed
    <2>2. CASE e = current[w]
      <3>1. Holders(e)' = Holders(e) \ {w} /\ w \in Holders(e)
        BY <2>1, <2>2, HoldersStep, CurrentKnown DEF Holders
      <3>2. IsFiniteSet(Holders(e)') /\ Cardinality(Holders(e)') = Cardinality(Holders(e)) - 1
        BY <1>0, <3>1, FS_RemoveElement
      <3> QED
        BY <1>0, <2>1, <3>2
    <2>3. CASE e # current[w]
      BY <1>0, <2>1, <2>3, HoldersStep
    <2> QED
      BY <2>2, <2>3
  <1>8. ASSUME NEW w \in Workers, Crash(w)
        PROVE  /\ IsFiniteSet(Holders(e)')
               /\ Cardinality(Holders(e)') + (IF status'[e] = "PENDING" THEN 1 ELSE 0)
                     <= redeliveries'[e] + 1
    <2>1. Holders(e)' = Holders(e) \ {w} /\ UNCHANGED <<status, redeliveries>>
      BY <1>8, HoldersStep DEF Crash
    <2>2. IsFiniteSet(Holders(e)') /\ Cardinality(Holders(e)') <= Cardinality(Holders(e))
      BY <1>0, <2>1, FS_Subset
    <2>3. Cardinality(Holders(e)') \in Nat
      BY <2>2, FS_CardinalityType
    <2> QED
      BY <1>0, <2>1, <2>2, <2>3
  <1>9. CASE \E f \in Events : Create(f) \/ BecomeDue(f)
    BY <1>0, <1>2, <1>3, <1>9
  <1>10. CASE \E b \in Businesses : SetEndpoint(b) \/ \E f \in Events : Redeliver(b, f)
    BY <1>0, <1>4, <1>10
  <1>11. CASE \E w \in Workers : Claim(w) \/ Deliver(w) \/ MarkLost(w) \/ Crash(w)
    BY <1>0, <1>5, <1>6, <1>7, <1>8, <1>11 DEF Claim, Deliver
  <1> QED
    BY <1>1, <1>9, <1>10, <1>11 DEF Next

\* Before any redelivery an event is in one pair of hands, or in its row.
LEMMA SoleHolder ==
    ASSUME BaseInv, ClaimInv, NEW e \in Events, redeliveries[e] = 0, NEW w \in Holders(e)
    PROVE  Holders(e) = {w} /\ status[e] # "PENDING"
  <1>1. IsFiniteSet(Holders(e)) /\ Cardinality(Holders(e)) \in Nat
    BY FS_CardinalityType DEF ClaimInv
  <1>2. {w} \subseteq Holders(e) /\ Cardinality({w}) = 1
    BY FS_Singleton
  <1>3. Cardinality(Holders(e)) >= 1
    BY <1>1, <1>2, FS_Subset
  <1>4. Cardinality(Holders(e)) + (IF status[e] = "PENDING" THEN 1 ELSE 0) <= 1
    BY DEF ClaimInv, ClaimedOnce
  <1>5. status[e] # "PENDING" /\ Cardinality(Holders(e)) = 1
    BY <1>1, <1>3, <1>4
  <1> QED
    BY <1>1, <1>2, <1>5, FS_Subset

\* The first round of an event is a chain of tries counted by its row.
LEMMA NextFirstRound ==
    ASSUME BaseInv, ClaimInv, FirstRoundInv, [Next]_vars
    PROVE  FirstRoundInv'
  <1> USE DEF BaseInv, TypeOK, workerVars, rowVars
  <1> SUFFICES ASSUME NEW e \in Events, redeliveries'[e] = 0
               PROVE  /\ status'[e] = "PENDING" => tries'[e] = attemptCount'[e]
                      /\ \A v \in Holders(e)' : status'[e] = "DELIVERING" /\ tries'[e] = NextTry(v, e)'
                      /\ status'[e] = "FAILED" => tries'[e] = MaxAttempts
    BY DEF FirstRoundInv
  <1> DEFINE Goal == /\ status'[e] = "PENDING" => tries'[e] = attemptCount'[e]
                     /\ \A v \in Holders(e)' : status'[e] = "DELIVERING" /\ tries'[e] = NextTry(v, e)'
                     /\ status'[e] = "FAILED" => tries'[e] = MaxAttempts
  <1>0. redeliveries[e] = 0 /\ redeliveries'[e] = redeliveries[e]
    BY DEF Next, vars, Create, BecomeDue, SetEndpoint, Redeliver, Claim, ClaimDue, Deliver,
       DeliverOne, PostAnswered, MarkDelivered, RecordFailure, MarkLost, Crash
  <1>a. /\ status[e] = "PENDING" => tries[e] = attemptCount[e]
        /\ \A v \in Holders(e) : status[e] = "DELIVERING" /\ tries[e] = NextTry(v, e)
        /\ status[e] = "FAILED" => tries[e] = MaxAttempts
    BY <1>0 DEF FirstRoundInv
  <1>1. CASE UNCHANGED vars
    BY <1>a, <1>1 DEF vars, Holders, NextTry
  <1>2. ASSUME NEW f \in Events, Create(f) \/ BecomeDue(f) PROVE Goal
    BY <1>a, <1>2 DEF Create, BecomeDue, Holders, NextTry, RowInv
  <1>3. ASSUME NEW b \in Businesses, SetEndpoint(b) \/ \E f \in Events : Redeliver(b, f)
        PROVE  Goal
    BY <1>0, <1>a, <1>3 DEF SetEndpoint, Redeliver, ResetForRedelivery, Holders, NextTry
  <1>4. ASSUME NEW w \in Workers, NEW S \in SUBSET Events, ClaimDue(w, S) PROVE Goal
    <2>1. current[w] = None /\ current' = current /\ tries' = tries
      BY <1>4 DEF ClaimDue, WorkerInv
    <2>2. CASE e \in S
      <3>1. /\ status[e] = "PENDING" /\ status'[e] = "DELIVERING"
            /\ claimedCount'[w][e] = attemptCount[e]
        BY <1>4, <2>2 DEF ClaimDue
      <3>a. Holders(e) = {}
        BY <1>0, <3>1, SoleHolder
      <3>b. Holders(e)' = Holders(e) \cup {w}
        BY <1>4, <2>2, HoldersStep
      <3>2. Holders(e)' = {w}
        BY <3>a, <3>b
      <3> QED
        BY <1>a, <2>1, <3>1, <3>2 DEF NextTry
    <2>3. CASE e \notin S
      <3>1. Holders(e)' = Holders(e) /\ w \notin Holders(e) /\ Holders(e) \subseteq Workers
        BY <1>4, <2>3, HoldersStep DEF Holders
      <3>2. /\ status'[e] = status[e] /\ attemptCount' = attemptCount
            /\ \A v \in Workers \ {w} : claimedCount'[v] = claimedCount[v]
        BY <1>4, <2>3 DEF ClaimDue
      <3> QED
        BY <1>a, <2>1, <3>1, <3>2 DEF NextTry
    <2> QED
      BY <2>2, <2>3
  <1>5. ASSUME NEW w \in Workers, NEW f \in Events, DeliverOne(w, f) PROVE Goal
    <2>1. /\ current[w] = None /\ current' = [current EXCEPT ![w] = f]
          /\ w \in Holders(f) /\ tries' = [tries EXCEPT ![f] = @ + 1]
          /\ Holders(e)' = Holders(e) /\ UNCHANGED <<status, attemptCount, claimedCount>>
      BY <1>5 DEF DeliverOne, Holders
    <2>2. CASE e = f
      <3>1. Holders(e) = {w} /\ status[e] = "DELIVERING"
        BY <1>0, <1>a, <2>1, <2>2, SoleHolder
      <3> QED
        BY <1>a, <2>1, <2>2, <3>1 DEF NextTry
    <2>3. CASE e # f
      BY <1>a, <2>1, <2>3 DEF NextTry
    <2> QED
      BY <2>2, <2>3
  <1>6. ASSUME NEW w \in Workers, PostAnswered(w) PROVE Goal
    BY <1>a, <1>6 DEF PostAnswered, Holders, NextTry
  <1>7. ASSUME NEW w \in Workers, MarkDelivered(w) \/ RecordFailure(w) \/ MarkLost(w)
        PROVE  Goal
    <2>1. /\ outcome[w] # "none" /\ Done(w) /\ tries' = tries
          /\ e # current[w] => status'[e] = status[e] /\ attemptCount'[e] = attemptCount[e]
      BY <1>7 DEF MarkDelivered, RecordFailure, MarkLost, MarkRetry, MarkFailed
    <2>2. current[w] \in Events /\ w \in Holders(current[w])
      BY <2>1, CurrentKnown DEF Holders
    <2>3. CASE e = current[w]
      <3>1. Holders(e) = {w}
        BY <1>0, <2>2, <2>3, SoleHolder
      <3>2. Holders(e)' = {}
        BY <2>1, <2>3, <3>1, HoldersStep
      <3>3. status[e] = "DELIVERING" /\ tries[e] = claimedCount[w][e] + 1
        BY <1>a, <2>3, <3>1 DEF NextTry
      <3>4. CASE MarkDelivered(w) \/ MarkLost(w)
        BY <2>2, <2>3, <3>2, <3>3, <3>4 DEF MarkDelivered, MarkLost
      <3>5. CASE RecordFailure(w)
        <4>1. claimedCount[w][e] \in Nat /\ claimedCount[w][e] < MaxAttempts
          BY <2>1, <2>3, CurrentKnown
        <4>2. /\ attemptCount'[e] = claimedCount[w][e] + 1
              /\ status'[e] = "FAILED" => claimedCount[w][e] + 1 >= MaxAttempts
          BY <2>2, <2>3, <3>5, <4>1 DEF RecordFailure, MarkRetry, MarkFailed, NextRetryAt
        <4> QED
          BY <2>1, <3>2, <3>3, <4>1, <4>2
      <3> QED
        BY <1>7, <3>4, <3>5
    <2>4. CASE e # current[w]
      <3>1. Holders(e)' = Holders(e) /\ Holders(e) \subseteq Workers
        BY <2>1, <2>4, HoldersStep DEF Holders
      <3>2. \A v \in Workers : NextTry(v, e)' = NextTry(v, e)
        BY <2>1, <2>2, <2>4 DEF Done, NextTry
      <3> QED
        BY <1>a, <2>1, <2>4, <3>1, <3>2
    <2> QED
      BY <2>3, <2>4
  <1>8. ASSUME NEW w \in Workers, Crash(w) PROVE Goal
    <2>1. Holders(e)' = Holders(e) \ {w} /\ Holders(e) \subseteq Workers
      BY <1>8, HoldersStep DEF Holders
    <2>2. \A v \in Workers \ {w} : NextTry(v, e)' = NextTry(v, e)
      BY <1>8 DEF Crash, NextTry
    <2>3. UNCHANGED <<status, attemptCount, tries>>
      BY <1>8 DEF Crash
    <2> QED
      BY <1>a, <2>1, <2>2, <2>3
  <1> QED
    BY <1>1, <1>2, <1>3, <1>4, <1>5, <1>6, <1>7, <1>8 DEF Next, Claim, Deliver

-----------------------------------------------------------------------------
(* The budget of tries                                                     *)

\* A worker that may try numbers n .. MaxAttempts - 1 has MaxAttempts - n left.
LEMMA TriesLeft ==
    ASSUME NEW w, NEW n \in 0 .. MaxAttempts
    PROVE  /\ IsFiniteSet({w} \X (n .. MaxAttempts - 1))
           /\ Cardinality({w} \X (n .. MaxAttempts - 1)) = MaxAttempts - n
  <1>1. IsFiniteSet({w}) /\ Cardinality({w}) = 1
    BY FS_Singleton
  <1>2. IsFiniteSet(n .. MaxAttempts - 1) /\ Cardinality(n .. MaxAttempts - 1) = MaxAttempts - n
    BY FS_Interval
  <1>3. /\ IsFiniteSet({w} \X (n .. MaxAttempts - 1))
        /\ Cardinality({w} \X (n .. MaxAttempts - 1))
              = Cardinality({w}) * Cardinality(n .. MaxAttempts - 1)
    BY <1>1, <1>2, FS_Product, Zenon
  <1> QED
    BY <1>1, <1>2, <1>3

\* Another redelivery owes the merchant MaxAttempts more tries.
LEMMA Owed ==
    ASSUME NEW n \in Nat
    PROVE  /\ MaxAttempts * (n + 1) \in Nat
           /\ MaxAttempts <= MaxAttempts * (n + 1)
           /\ MaxAttempts * (n + 1 + 1) = MaxAttempts * (n + 1) + MaxAttempts
  OBVIOUS

\* How a worker's step changes the tries that are in the workers' hands.
LEMMA HeldTriesStep ==
    ASSUME BaseInv, NEW w \in Workers, NEW e \in Events
    PROVE  /\ \A S \in SUBSET Events : ClaimDue(w, S) =>
                 /\ e \in S => /\ HeldTries(e)' = HeldTries(e) \cup ({w} \X (attemptCount[e] .. MaxAttempts - 1))
                              /\ HeldTries(e) \cap ({w} \X (attemptCount[e] .. MaxAttempts - 1)) = {}
                 /\ e \notin S => HeldTries(e)' = HeldTries(e)
           /\ DeliverOne(w, e) =>
                 /\ HeldTries(e)' = HeldTries(e) \ {<<w, claimedCount[w][e]>>}
                 /\ <<w, claimedCount[w][e]>> \in HeldTries(e)
           /\ \A f \in Events \ {e} : DeliverOne(w, f) => HeldTries(e)' = HeldTries(e)
           /\ Done(w) /\ outcome[w] # "none" /\ e = current[w] =>
                 /\ HeldTries(e)' = HeldTries(e) \ ({w} \X (claimedCount[w][e] + 1 .. MaxAttempts - 1))
                 /\ {w} \X (claimedCount[w][e] + 1 .. MaxAttempts - 1) \subseteq HeldTries(e)
           /\ Done(w) /\ outcome[w] # "none" /\ e # current[w] => HeldTries(e)' = HeldTries(e)
           /\ Crash(w) => HeldTries(e)' \subseteq HeldTries(e)
           /\ UNCHANGED <<held, claimedCount, current>> => HeldTries(e)' = HeldTries(e)
  <1> USE DEF BaseInv, TypeOK
  <1>1. ASSUME NEW S \in SUBSET Events, ClaimDue(w, S)
        PROVE  /\ e \in S => /\ HeldTries(e)' = HeldTries(e) \cup ({w} \X (attemptCount[e] .. MaxAttempts - 1))
                            /\ HeldTries(e) \cap ({w} \X (attemptCount[e] .. MaxAttempts - 1)) = {}
               /\ e \notin S => HeldTries(e)' = HeldTries(e)
    <2>1. held[w] = {} /\ current[w] = None /\ current' = current /\ held' = [held EXCEPT ![w] = S]
      BY <1>1 DEF ClaimDue, WorkerInv
    <2>2. /\ \A v \in Workers \ {w} : claimedCount'[v] = claimedCount[v]
          /\ e \in S => claimedCount'[w][e] = attemptCount[e]
      BY <1>1 DEF ClaimDue
    <2> QED
      BY <2>1, <2>2 DEF HeldTries, NextTry
  <1>2. ASSUME DeliverOne(w, e)
        PROVE  /\ HeldTries(e)' = HeldTries(e) \ {<<w, claimedCount[w][e]>>}
               /\ <<w, claimedCount[w][e]>> \in HeldTries(e)
    <2>1. /\ current[w] = None /\ current' = [current EXCEPT ![w] = e] /\ e \in held[w]
          /\ UNCHANGED <<held, claimedCount>> /\ claimedCount[w][e] \in 0 .. MaxAttempts - 1
      BY <1>2 DEF DeliverOne, RowInv, Holders
    <2> QED
      BY <2>1 DEF HeldTries, NextTry
  <1>3. ASSUME NEW f \in Events \ {e}, DeliverOne(w, f)
        PROVE  HeldTries(e)' = HeldTries(e)
    <2>1. /\ current[w] # e /\ current' = [current EXCEPT ![w] = f]
          /\ UNCHANGED <<held, claimedCount>>
      BY <1>3 DEF DeliverOne
    <2> QED
      BY <2>1 DEF HeldTries, NextTry
  <1>4. ASSUME Done(w), outcome[w] # "none", e = current[w]
        PROVE  /\ HeldTries(e)' = HeldTries(e) \ ({w} \X (claimedCount[w][e] + 1 .. MaxAttempts - 1))
               /\ {w} \X (claimedCount[w][e] + 1 .. MaxAttempts - 1) \subseteq HeldTries(e)
    <2>1. e \in held[w] /\ claimedCount[w][e] \in 0 .. MaxAttempts - 1
      BY <1>4, CurrentKnown
    <2>2. /\ held' = [held EXCEPT ![w] = @ \ {e}] /\ current' = [current EXCEPT ![w] = None]
          /\ \A v \in Workers \ {w} : claimedCount'[v] = claimedCount[v]
      BY <1>4 DEF Done
    <2> QED
      BY <1>4, <2>1, <2>2 DEF HeldTries, NextTry
  <1>5. ASSUME Done(w), outcome[w] # "none", e # current[w]
        PROVE  HeldTries(e)' = HeldTries(e)
    <2>1. current[w] \in Events
      BY <1>5, CurrentKnown
    <2>2. /\ held' = [held EXCEPT ![w] = @ \ {current[w]}] /\ current' = [current EXCEPT ![w] = None]
          /\ \A v \in Workers : claimedCount'[v][e] = claimedCount[v][e]
      BY <1>5, <2>1 DEF Done
    <2> QED
      BY <1>5, <2>2 DEF HeldTries, NextTry
  <1>6. Crash(w) => HeldTries(e)' \subseteq HeldTries(e)
    BY DEF Crash, HeldTries, NextTry
  <1>7. UNCHANGED <<held, claimedCount, current>> => HeldTries(e)' = HeldTries(e)
    BY DEF HeldTries, NextTry
  <1> QED
    BY <1>1, <1>2, <1>3, <1>4, <1>5, <1>6, <1>7

\* The tries an event is owed are only ever moved between its row and the
\* workers, spent or dropped; a redelivery alone adds to them, its own share.
LEMMA NextBudget ==
    ASSUME BaseInv, BudgetInv, [Next]_vars
    PROVE  BudgetInv'
  <1> USE DEF BaseInv, TypeOK, workerVars, rowVars
  <1> DEFINE Within(e) ==
        /\ IsFiniteSet(HeldTries(e))
        /\ tries[e] + Cardinality(HeldTries(e)) + RowTries(e)
              <= MaxAttempts * (redeliveries[e] + 1)
  <1> SUFFICES ASSUME NEW e \in Events PROVE Within(e)'
    BY DEF BudgetInv
  <1>0. /\ IsFiniteSet(HeldTries(e)) /\ Cardinality(HeldTries(e)) \in Nat
        /\ tries[e] \in Nat /\ RowTries(e) \in Nat /\ redeliveries[e] \in Nat
        /\ MaxAttempts * (redeliveries[e] + 1) \in Nat
        /\ tries[e] + Cardinality(HeldTries(e)) + RowTries(e)
              <= MaxAttempts * (redeliveries[e] + 1)
    BY FS_CardinalityType, Owed DEF BudgetInv, RowInv, RowTries
  <1>1. CASE /\ UNCHANGED <<held, claimedCount, current>>
             /\ UNCHANGED <<status, attemptCount, tries, redeliveries>>
    <2>1. HeldTries(e)' = HeldTries(e) /\ RowTries(e)' = RowTries(e)
      BY <1>1 DEF HeldTries, NextTry, RowTries
    <2> QED
      BY <1>0, <1>1, <2>1
  <1>2. ASSUME NEW f \in Events, Create(f) PROVE Within(e)'
    <2>1. HeldTries(e)' = HeldTries(e) /\ UNCHANGED <<tries, redeliveries>>
      BY <1>2 DEF Create, HeldTries, NextTry
    <2>2. CASE e = f
      <3>1. HeldTries(e) = {} /\ tries[e] = 0 /\ RowTries(e)' = MaxAttempts
        BY <1>2, <2>2 DEF Create, RowInv, Holders, HeldTries, RowTries
      <3> QED
        BY <1>0, <2>1, <3>1, FS_EmptySet, Owed
    <2>3. CASE e # f
      <3>1. RowTries(e)' = RowTries(e)
        BY <1>2, <2>3 DEF Create, RowTries
      <3> QED
        BY <1>0, <2>1, <3>1
    <2> QED
      BY <2>2, <2>3
  <1>3. ASSUME NEW b \in Businesses, NEW f \in Events, Redeliver(b, f) PROVE Within(e)'
    <2>1. HeldTries(e)' = HeldTries(e) /\ UNCHANGED tries
      BY <1>3 DEF Redeliver, HeldTries, NextTry
    <2>2. CASE e = f
      <3>1. RowTries(e)' = MaxAttempts /\ redeliveries'[e] = redeliveries[e] + 1
        BY <1>3, <2>2 DEF Redeliver, ResetForRedelivery, RowTries
      <3> QED
        BY <1>0, <2>1, <3>1, Owed
    <2>3. CASE e # f
      <3>1. RowTries(e)' = RowTries(e) /\ redeliveries'[e] = redeliveries[e]
        BY <1>3, <2>3 DEF Redeliver, ResetForRedelivery, RowTries
      <3> QED
        BY <1>0, <2>1, <3>1
    <2> QED
      BY <2>2, <2>3
  <1>4. ASSUME NEW w \in Workers, NEW S \in SUBSET Events, ClaimDue(w, S) PROVE Within(e)'
    <2>1. UNCHANGED <<tries, redeliveries, attemptCount>>
      BY <1>4 DEF ClaimDue
    <2>2. CASE e \in S
      <3> DEFINE Share == {w} \X (attemptCount[e] .. MaxAttempts - 1)
      <3>1. HeldTries(e)' = HeldTries(e) \cup Share /\ HeldTries(e) \cap Share = {}
        BY <1>4, <2>2, HeldTriesStep
      <3>2. RowTries(e) = MaxAttempts - attemptCount[e] /\ RowTries(e)' = 0
        BY <1>4, <2>2 DEF ClaimDue, RowTries
      <3>3. IsFiniteSet(Share) /\ Cardinality(Share) = MaxAttempts - attemptCount[e]
        BY TriesLeft
      <3> HIDE DEF Share
      <3>4. /\ IsFiniteSet(HeldTries(e)')
            /\ Cardinality(HeldTries(e)') = Cardinality(HeldTries(e)) + Cardinality(Share)
        <4>1. /\ IsFiniteSet(HeldTries(e) \cup Share)
              /\ Cardinality(HeldTries(e) \cup Share)
                    = Cardinality(HeldTries(e)) + Cardinality(Share) - Cardinality(HeldTries(e) \cap Share)
          BY <1>0, <3>3, FS_Union, Zenon
        <4>2. Cardinality(HeldTries(e) \cap Share) = 0 /\ Cardinality(Share) \in Nat
          BY <3>1, <3>3, FS_EmptySet, FS_CardinalityType
        <4> HIDE DEF HeldTries
        <4> QED
          BY <1>0, <3>1, <4>1, <4>2
      <3> QED
        BY <1>0, <2>1, <3>2, <3>3, <3>4
    <2>3. CASE e \notin S
      <3>1. HeldTries(e)' = HeldTries(e) /\ RowTries(e)' = RowTries(e)
        BY <1>4, <2>3, HeldTriesStep DEF ClaimDue, RowTries
      <3> QED
        BY <1>0, <2>1, <3>1
    <2> QED
      BY <2>2, <2>3
  <1>5. ASSUME NEW w \in Workers, NEW f \in Events, DeliverOne(w, f) PROVE Within(e)'
    <2>1. UNCHANGED redeliveries /\ RowTries(e)' = RowTries(e)
      BY <1>5 DEF DeliverOne, RowTries
    <2>2. CASE e = f
      <3>1. /\ HeldTries(e)' = HeldTries(e) \ {<<w, claimedCount[w][e]>>}
            /\ <<w, claimedCount[w][e]>> \in HeldTries(e)
        BY <1>5, <2>2, HeldTriesStep
      <3>2. IsFiniteSet(HeldTries(e)') /\ Cardinality(HeldTries(e)') = Cardinality(HeldTries(e)) - 1
        <4>1. /\ IsFiniteSet(HeldTries(e) \ {<<w, claimedCount[w][e]>>})
              /\ Cardinality(HeldTries(e) \ {<<w, claimedCount[w][e]>>})
                    = IF <<w, claimedCount[w][e]>> \in HeldTries(e)
                      THEN Cardinality(HeldTries(e)) - 1 ELSE Cardinality(HeldTries(e))
          BY <1>0, FS_RemoveElement, Zenon
        <4> QED
          BY <3>1, <4>1, Zenon
      <3>3. tries'[e] = tries[e] + 1
        BY <1>5, <2>2 DEF DeliverOne
      <3> QED
        BY <1>0, <2>1, <3>2, <3>3
    <2>3. CASE e # f
      <3>1. HeldTries(e)' = HeldTries(e)
        BY <1>5, <2>3, HeldTriesStep, f \in Events \ {e}
      <3>2. tries'[e] = tries[e]
        BY <1>5, <2>3 DEF DeliverOne
      <3> QED
        BY <1>0, <2>1, <3>1, <3>2
    <2> QED
      BY <2>2, <2>3
  <1>6. ASSUME NEW w \in Workers, MarkDelivered(w) \/ RecordFailure(w) \/ MarkLost(w)
        PROVE  Within(e)'
    <2>1. outcome[w] # "none" /\ Done(w) /\ UNCHANGED <<tries, redeliveries>>
      BY <1>6 DEF MarkDelivered, RecordFailure, MarkLost
    <2>2. CASE e = current[w]
      <3> DEFINE n == claimedCount[w][e] + 1
                 Share == {w} \X (n .. MaxAttempts - 1)
      <3>1. n \in 0 .. MaxAttempts /\ e \in Events
        BY <2>1, <2>2, CurrentKnown
      <3>2. HeldTries(e)' = HeldTries(e) \ Share /\ HeldTries(e) \cap Share = Share
        BY <2>1, <2>2, HeldTriesStep
      <3>3. IsFiniteSet(Share) /\ Cardinality(Share) = MaxAttempts - n
        BY <3>1, TriesLeft
      <3>4. RowTries(e)' \in {0, RowTries(e), MaxAttempts - n}
        BY <1>6, <2>2, <3>1 DEF MarkDelivered, RecordFailure, MarkLost, MarkRetry, MarkFailed, RowTries
      <3> HIDE DEF Share, n
      <3>5. /\ IsFiniteSet(HeldTries(e)')
            /\ Cardinality(HeldTries(e)') = Cardinality(HeldTries(e)) - Cardinality(Share)
        <4>1. /\ IsFiniteSet(HeldTries(e) \ Share)
              /\ Cardinality(HeldTries(e) \ Share)
                    = Cardinality(HeldTries(e)) - Cardinality(HeldTries(e) \cap Share)
          BY <1>0, FS_Difference, Zenon
        <4> QED
          BY <3>2, <4>1, Zenon
      <3> QED
        BY <1>0, <2>1, <3>1, <3>3, <3>4, <3>5
    <2>3. CASE e # current[w]
      <3>1. HeldTries(e)' = HeldTries(e)
        BY <2>1, <2>3, HeldTriesStep
      <3>2. RowTries(e)' = RowTries(e)
        BY <1>6, <2>3 DEF MarkDelivered, RecordFailure, MarkLost, MarkRetry, MarkFailed, RowTries
      <3> QED
        BY <1>0, <2>1, <3>1, <3>2
    <2> QED
      BY <2>2, <2>3
  <1>7. ASSUME NEW w \in Workers, Crash(w) PROVE Within(e)'
    <2>1. HeldTries(e)' \subseteq HeldTries(e)
      BY <1>7, HeldTriesStep
    <2>2. RowTries(e)' = RowTries(e) /\ UNCHANGED <<tries, redeliveries>>
      BY <1>7 DEF Crash, RowTries
    <2>3. IsFiniteSet(HeldTries(e)') /\ Cardinality(HeldTries(e)') <= Cardinality(HeldTries(e))
      BY <1>0, <2>1, FS_Subset
    <2>4. Cardinality(HeldTries(e)') \in Nat
      BY <2>3, FS_CardinalityType
    <2> QED
      BY <1>0, <2>2, <2>3, <2>4
  <1>8. CASE UNCHANGED vars \/ \E f \in Events : BecomeDue(f)
    BY <1>1, <1>8 DEF vars, BecomeDue
  <1>9. CASE \E b \in Businesses : SetEndpoint(b)
    BY <1>1, <1>9 DEF SetEndpoint
  <1>10. CASE \E w \in Workers : PostAnswered(w)
    BY <1>1, <1>10 DEF PostAnswered
  <1> HIDE DEF Within
  <1> QED
    BY <1>2, <1>3, <1>4, <1>5, <1>6, <1>7, <1>8, <1>9, <1>10 DEF Next, Claim, Deliver
-----------------------------------------------------------------------------
(* The invariant and what follows from it                                  *)

\* No row, no worker busy: every part of DispatchInv holds.
LEMMA InitDispatch == Init => DispatchInv
  <1> SUFFICES ASSUME Init PROVE DispatchInv
    OBVIOUS
  <1> USE DEF Init
  <1>1. TypeOK /\ WorkerInv /\ RowInv /\ AcceptInv
    BY DEF TypeOK, OutboundEventStatuses, WorkerInv, RowInv, Holders, AcceptInv,
       DeliveredMeansAccepted
  <1>2. \A e \in Events : Holders(e) = {} /\ HeldTries(e) = {}
    BY DEF Holders, HeldTries
  <1>3. ClaimInv
    <2> SUFFICES ASSUME NEW e \in Events
                 PROVE  /\ IsFiniteSet(Holders(e))
                        /\ Cardinality(Holders(e)) + (IF status[e] = "PENDING" THEN 1 ELSE 0)
                              <= redeliveries[e] + 1
      BY DEF ClaimInv, ClaimedOnce
    <2>1. IsFiniteSet(Holders(e)) /\ Cardinality(Holders(e)) = 0
      BY <1>2, FS_EmptySet, Zenon
    <2> QED
      BY <2>1
  <1>4. FirstRoundInv
    BY <1>2 DEF FirstRoundInv
  <1>5. BudgetInv
    <2> SUFFICES ASSUME NEW e \in Events
                 PROVE  /\ IsFiniteSet(HeldTries(e))
                        /\ tries[e] + Cardinality(HeldTries(e)) + RowTries(e)
                              <= MaxAttempts * (redeliveries[e] + 1)
      BY DEF BudgetInv
    <2>1. IsFiniteSet(HeldTries(e)) /\ Cardinality(HeldTries(e)) = 0
      BY <1>2, FS_EmptySet, Zenon
    <2>2. tries[e] = 0 /\ redeliveries[e] = 0 /\ RowTries(e) = 0
      BY DEF RowTries
    <2> QED
      BY <2>1, <2>2, Owed
  <1> QED
    BY <1>1, <1>3, <1>4, <1>5 DEF DispatchInv

\* DispatchInv is inductive.
LEMMA NextDispatch == DispatchInv /\ [Next]_vars => DispatchInv'
  <1> SUFFICES ASSUME DispatchInv, [Next]_vars PROVE DispatchInv'
    OBVIOUS
  <1>0. BaseInv /\ ClaimInv /\ FirstRoundInv /\ BudgetInv
    BY DEF DispatchInv, BaseInv
  <1>1. BaseInv'
    <2>1. CASE UNCHANGED vars
      BY <1>0, <2>1 DEF BaseInv, vars, rowVars, workerVars, TypeOK, WorkerInv, RowInv, AcceptInv,
         DeliveredMeansAccepted, Holders
    <2> QED
      BY <1>0, <2>1, MerchantBase, WorkerBase DEF Next
  <1>2. ClaimInv' /\ FirstRoundInv' /\ BudgetInv'
    BY <1>0, NextClaim, NextFirstRound, NextBudget
  <1> QED
    BY <1>1, <1>2 DEF DispatchInv, BaseInv

\* DispatchInv holds in every reachable state of the dispatchers.
THEOREM DispatchInvariance == Spec => []DispatchInv
  BY InitDispatch, NextDispatch, PTL DEF Spec

\* What DispatchInv says of an event, in the words of the properties.
LEMMA DispatchSafety ==
    DispatchInv => /\ TypeOK /\ ClaimedOnce /\ DeliveredMeansAccepted
                   /\ FailedMeansBudgetSpent /\ DeliveryBudget
  <1> SUFFICES ASSUME DispatchInv PROVE FailedMeansBudgetSpent /\ DeliveryBudget
    BY DEF DispatchInv, ClaimInv, AcceptInv
  <1>1. FailedMeansBudgetSpent
    BY DEF DispatchInv, FirstRoundInv, FailedMeansBudgetSpent
  <1>2. ASSUME NEW e \in Events PROVE tries[e] <= MaxAttempts * (redeliveries[e] + 1)
    <2>1. /\ Cardinality(HeldTries(e)) \in Nat /\ RowTries(e) \in Nat
          /\ tries[e] \in Nat /\ redeliveries[e] \in Nat
      BY FS_CardinalityType DEF DispatchInv, TypeOK, BudgetInv, RowInv, RowTries
    <2>2. MaxAttempts * (redeliveries[e] + 1) \in Nat
      BY <2>1, Owed
    <2>3. tries[e] + Cardinality(HeldTries(e)) + RowTries(e) <= MaxAttempts * (redeliveries[e] + 1)
      BY DEF DispatchInv, BudgetInv
    <2> QED
      BY <2>1, <2>2, <2>3
  <1> QED
    BY <1>1, <1>2 DEF DeliveryBudget

\* Every variable of the dispatchers keeps its type.
THEOREM OutboxTypeCorrect == Spec => []TypeOK
  <1>1. DispatchInv => TypeOK
    BY DispatchSafety
  <1> QED
    BY <1>1, DispatchInvariance, PTL

\* An event is handed out once for its insertion and once per redelivery,
\* however many workers poll.
THEOREM ClaimedOnceHolds == Spec => []ClaimedOnce
  <1>1. DispatchInv => ClaimedOnce
    BY DispatchSafety
  <1> QED
    BY <1>1, DispatchInvariance, PTL

\* The budget of tries holds although overlapping workers count from stale
\* values: BudgetInv also counts the tries that are still to come.
THEOREM DeliveryBudgetHolds == Spec => []DeliveryBudget
  <1>1. DispatchInv => DeliveryBudget
    BY DispatchSafety
  <1> QED
    BY <1>1, DispatchInvariance, PTL

\* An event is DELIVERED only if its merchant has answered 2xx.
THEOREM DeliveredMeansAcceptedHolds == Spec => []DeliveredMeansAccepted
  <1>1. DispatchInv => DeliveredMeansAccepted
    BY DispatchSafety
  <1> QED
    BY <1>1, DispatchInvariance, PTL

\* A FAILED event that was never redelivered has had MaxAttempts tries.
THEOREM FailedMeansBudgetSpentHolds == Spec => []FailedMeansBudgetSpent
  <1>1. DispatchInv => FailedMeansBudgetSpent
    BY DispatchSafety
  <1> QED
    BY <1>1, DispatchInvariance, PTL

\* No worker takes up a settled event again of its own accord: in the first
\* round whoever holds an event finds its row DELIVERING.
THEOREM SettledStaysSettledHolds == Spec => SettledStaysSettled
  <1> DEFINE Kept == \A e \in Events : status[e] \in Settled /\ status'[e] # status[e] =>
                                          redeliveries'[e] > 0
  <1>1. DispatchInv /\ [Next]_vars => [Kept]_vars
    <2> SUFFICES ASSUME DispatchInv, Next, NEW e \in Events,
                        status[e] \in Settled, status'[e] # status[e]
                 PROVE  redeliveries'[e] > 0
      OBVIOUS
    <2>0. BaseInv /\ TypeOK /\ status[e] \notin {"NONE", "PENDING", "DELIVERING"}
      BY DEF DispatchInv, BaseInv, Settled
    <2>1. CASE redeliveries'[e] = redeliveries[e]
      <3>a. /\ ~ \E f \in Events : Create(f) \/ BecomeDue(f)
            /\ ~ \E b \in Businesses : SetEndpoint(b) \/ \E f \in Events : Redeliver(b, f)
        BY <2>0, <2>1 DEF TypeOK, Create, BecomeDue, SetEndpoint, Redeliver, ResetForRedelivery, rowVars
      <3>b. PICK w \in Workers : Claim(w) \/ Deliver(w) \/ MarkLost(w) \/ Crash(w)
        BY <3>a DEF Next
      <3>c. ~Claim(w) /\ ~(\E f \in Events : DeliverOne(w, f)) /\ ~PostAnswered(w)
              /\ ~MarkLost(w) /\ ~Crash(w)
        BY <2>0 DEF TypeOK, Claim, ClaimDue, DeliverOne, PostAnswered, MarkLost, Crash, rowVars
      <3>1. outcome[w] # "none" /\ e = current[w]
        BY <2>0, <3>b, <3>c DEF Deliver, TypeOK, MarkDelivered, RecordFailure, MarkRetry, MarkFailed
      <3>2. Holders(e) # {}
        BY <2>0, <3>1, CurrentKnown DEF Holders
      <3>3. redeliveries[e] # 0
        BY <2>0, <3>2 DEF DispatchInv, FirstRoundInv
      <3> QED
        BY <2>0, <2>1, <3>3 DEF TypeOK
    <2>2. CASE redeliveries'[e] # redeliveries[e]
      BY <2>0, <2>2 DEF Next, TypeOK, Create, BecomeDue, SetEndpoint, Redeliver, Claim, ClaimDue,
         Deliver, DeliverOne, PostAnswered, MarkDelivered, RecordFailure, MarkLost, Crash
    <2> QED
      BY <2>1, <2>2
  <1> QED
    BY <1>1, DispatchInvariance, PTL DEF Spec, SettledStaysSettled
=============================================================================
