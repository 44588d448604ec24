--------------------------- MODULE OutboxInvariant --------------------------
(***************************************************************************)
(* The inductive invariant of OutboxDispatcher, in named parts.            *)
(***************************************************************************)
EXTENDS OutboxDispatcher

\* A worker that tries an event holds it, and has an outcome only for it.
WorkerInv ==
    \A w \in Workers :
        /\ current[w] = None <=> outcome[w] = "none"
        /\ current[w] # None => current[w] \in held[w]

\* Nobody works on a row that is not there; whoever may try an event still
\* has a try left for it.
RowInv ==
    \A e \in Events :
        /\ status[e] = "NONE" => tries[e] = 0 /\ Holders(e) = {} /\ attemptCount[e] = 0
        /\ status[e] = "PENDING" => attemptCount[e] < MaxAttempts
        /\ \A w \in Holders(e) : claimedCount[w][e] < MaxAttempts

\* A 2xx answer is remembered before the row is marked.
AcceptInv ==
    /\ \A w \in Workers : outcome[w] = "accepted" => accepted[current[w]]
    /\ DeliveredMeansAccepted

ClaimInv == ClaimedOnce /\ \A e \in Events : IsFiniteSet(Holders(e))

\* The number of the next try worker w has for event e.
NextTry(w, e) == claimedCount[w][e] + (IF current[w] = e THEN 1 ELSE 0)

\* Until its merchant asks again, an event is in one pair of hands and its
\* count is the number of its tries.
FirstRoundInv ==
    \A e \in Events :
        redeliveries[e] = 0 =>
            /\ status[e] = "PENDING" => tries[e] = attemptCount[e]
            /\ \A w \in Holders(e) : status[e] = "DELIVERING" /\ tries[e] = NextTry(w, e)
            /\ status[e] = "FAILED" => tries[e] = MaxAttempts

\* The tries the workers that hold e may still make before they give up ...
HeldTries(e) ==
    {t \in Workers \X (0 .. MaxAttempts - 1) : e \in held[t[1]] /\ t[2] >= NextTry(t[1], e)}

\* ... and those of whoever claims its row next.
RowTries(e) == IF status[e] = "PENDING" THEN MaxAttempts - attemptCount[e] ELSE 0

\* Tries made and tries to come stay within the budget of every delivery the
\* merchant is owed: the insertion's and one per redelivery.
BudgetInv ==
    \A e \in Events :
        /\ IsFiniteSet(HeldTries(e))
        /\ tries[e] + Cardinality(HeldTries(e)) + RowTries(e)
              <= MaxAttempts * (redeliveries[e] + 1)

\* The inductive invariant, from which the safety properties follow.
DispatchInv ==
    /\ TypeOK /\ WorkerInv /\ RowInv /\ AcceptInv
    /\ ClaimInv /\ FirstRoundInv /\ BudgetInv
=============================================================================
