--------------------- MODULE RepeatableStatusStreamProofs ---------------------
(***************************************************************************)
(* The status stream, for every set of statuses and number of trials, and  *)
(* wherever start is called.                                               *)
(*                                                                         *)
(* The safety properties are not inductive by themselves.  What makes them *)
(* so is Bookkeeping: only the call of the latest attempt can be open, a   *)
(* call is cancelled only after the promise has settled, and, when start   *)
(* is on the response queue, an open call is always the stored one.        *)
(***************************************************************************)
EXTENDS RepeatableStatusStream, TLAPS

Bookkeeping ==
  /\ pc = "new" => trial = 0 /\ fulfils = 0 /\ \A a \in Attempt : call[a] = "none"
  /\ onQueue => pc # "storing"
  /\ fulfils = 0 <=> result = "pending"
  /\ \A a \in Attempt :
       /\ call[a] = "open" => a = trial
       /\ call[a] = "cancelled" => result # "pending"

Inv == TypeOK /\ Bookkeeping /\ DecisiveStatusSettles /\ FulfilledOnce /\ NoOrphanCall

LEMMA MaxTrialsPositive == MaxTrials \in Nat /\ MaxTrials >= 1
  BY TrialsAssumption DEF MaxTrials

LEMMA InitInv == Init => Inv
  BY MaxTrialsPositive
  DEF Init, Inv, TypeOK, Bookkeeping, DecisiveStatusSettles, FulfilledOnce, NoOrphanCall,
      Results, CallStates, Attempt, NoCall

-----------------------------------------------------------------------------
\* performAttempt, once no call is open, opens the only open call and stores it.
LEMMA ReopenKeepsInv ==
  ASSUME Inv, NEW state \in [Attempt -> CallStates], trial < MaxTrials,
         result = "pending", Reopen(state),
         \A a \in Attempt : state[a] \notin {"open", "cancelled"},
         UNCHANGED <<config, received, promise, service>>,
         pc' \in {"storing", "returned"}, onQueue => pc' = "returned"
  PROVE  Inv'
<1>. USE MaxTrialsPositive DEF Attempt
<1>1. trial \in 0 .. MaxTrials /\ trial + 1 \in Attempt
  BY DEF Inv, TypeOK
<1>2. /\ trial' = trial + 1
      /\ call' = IF service THEN [state EXCEPT ![trial + 1] = "open"] ELSE state
      /\ operation' = IF service THEN trial + 1 ELSE NoCall
  BY DEF Reopen, OpenCall, Opened
<1>3. call' \in [Attempt -> CallStates]
  BY <1>1, <1>2 DEF CallStates
<1>4. TypeOK'
  BY <1>1, <1>2, <1>3 DEF Inv, TypeOK, config, promise, NoCall
<1>5. Bookkeeping'
  BY <1>1, <1>2 DEF Inv, Bookkeeping, config, promise, CallStates
<1>6. DecisiveStatusSettles' /\ FulfilledOnce'
  BY DEF Inv, DecisiveStatusSettles, FulfilledOnce, config, promise
<1>7. NoOrphanCall'
  BY <1>1, <1>2 DEF NoOrphanCall, config, promise, CallStates
<1>. QED
  BY <1>4, <1>5, <1>6, <1>7 DEF Inv

LEMMA StartKeepsInv == ASSUME Inv, Start PROVE Inv'
<1>1. /\ trial = 0 /\ result = "pending" /\ call \in [Attempt -> CallStates]
      /\ \A a \in Attempt : call[a] = "none"
  BY DEF Start, Inv, TypeOK, Bookkeeping
<1>. QED
  BY <1>1, ReopenKeepsInv, MaxTrialsPositive DEF Start

LEMMA StartElsewhereKeepsInv == ASSUME Inv, StartElsewhere PROVE Inv'
<1>. USE MaxTrialsPositive DEF Attempt
<1>1. /\ trial = 0 /\ fulfils = 0 /\ result = "pending" /\ ~ onQueue
      /\ \A a \in Attempt : call[a] = "none"
  BY DEF StartElsewhere, Inv, Bookkeeping
<1>2. /\ trial' = 1
      /\ call' = IF service THEN [call EXCEPT ![1] = "open"] ELSE call
  BY <1>1 DEF StartElsewhere, OpenCall
<1>3. TypeOK'
  BY <1>1, <1>2 DEF StartElsewhere, Inv, TypeOK, CallStates, config, promise
<1>4. Bookkeeping'
  BY <1>1, <1>2 DEF StartElsewhere, Inv, TypeOK, Bookkeeping, config, promise
<1>5. DecisiveStatusSettles' /\ FulfilledOnce' /\ NoOrphanCall'
  BY <1>1 DEF StartElsewhere, Inv, DecisiveStatusSettles, FulfilledOnce, NoOrphanCall,
              config, promise
<1>. QED
  BY <1>3, <1>4, <1>5 DEF Inv

LEMMA StoreOperationKeepsInv == ASSUME Inv, StoreOperation PROVE Inv'
<1>. USE MaxTrialsPositive DEF Attempt
<1>1. ~ onQueue
  BY DEF StoreOperation, Inv, Bookkeeping
<1>2. TypeOK' /\ Bookkeeping'
  BY <1>1 DEF StoreOperation, Inv, TypeOK, Bookkeeping, config, promise
<1>3. DecisiveStatusSettles' /\ FulfilledOnce' /\ NoOrphanCall'
  BY <1>1 DEF StoreOperation, Inv, DecisiveStatusSettles, FulfilledOnce, NoOrphanCall,
              config, promise
<1>. QED
  BY <1>2, <1>3 DEF Inv

-----------------------------------------------------------------------------
\* Cancelling touches no call but the stored one, and leaves none open if
\* that was the only open one.
LEMMA CancelKeepsCalls ==
  ASSUME TypeOK, CancelOperation
  PROVE  /\ operation' = NoCall
         /\ call' \in [Attempt -> CallStates]
         /\ \A a \in Attempt :
              /\ call'[a] = "open" => call[a] = "open" /\ a # operation
              /\ call'[a] = "cancelled" => call[a] \in {"open", "cancelled"}
  BY DEF CancelOperation, TypeOK, CallStates, Attempt, NoCall

LEMMA DecisiveStatusKeepsInv ==
  ASSUME Inv, NEW a \in Attempt, call[a] = "open", ~ QueueBlocked,
         NEW s \in Status, OnDecisiveStatus(s),
         UNCHANGED <<config, trial, pc, service>>
  PROVE  Inv'
<1>. USE MaxTrialsPositive DEF Attempt
<1>1. /\ operation' \in Attempt \cup {NoCall}
      /\ call' \in [Attempt -> CallStates]
      /\ \A b \in Attempt :
           /\ call'[b] = "open" => call[b] = "open" /\ (fulfils < 2 => b # operation)
           /\ call'[b] = "cancelled" => call[b] \in {"open", "cancelled"}
  <2>1. CASE fulfils < 2
    BY <2>1, CancelKeepsCalls DEF OnDecisiveStatus, Inv
  <2>2. CASE ~ (fulfils < 2)
    BY <2>2 DEF OnDecisiveStatus, Inv, TypeOK
  <2>. QED
    BY <2>1, <2>2
<1>2. /\ fulfils' = fulfils + 1 /\ fulfils \in 0 .. 2
      /\ result' # "pending" /\ result' \in Results
  BY DEF OnDecisiveStatus, FulfilWith, QueueBlocked, Inv, TypeOK, Bookkeeping, Results
<1>3. TypeOK'
  BY <1>1, <1>2 DEF Inv, TypeOK, OnDecisiveStatus, config, NoCall
<1>4. Bookkeeping'
  BY <1>1, <1>2 DEF Inv, TypeOK, Bookkeeping, config
<1>5. DecisiveStatusSettles'
  BY <1>2 DEF DecisiveStatusSettles
\* On the queue the call that reported is the stored one, and nothing was
\* fulfilled before.
<1>6. onQueue => fulfils = 0 /\ \A b \in Attempt : call'[b] # "open"
  BY <1>1 DEF Inv, Bookkeeping, NoOrphanCall
<1>7. FulfilledOnce' /\ NoOrphanCall'
  BY <1>2, <1>6 DEF FulfilledOnce, NoOrphanCall, config
<1>. QED
  BY <1>3, <1>4, <1>5, <1>7 DEF Inv

LEMMA ReportKeepsInv ==
  ASSUME Inv, NEW a \in Attempt, Report(a) PROVE Inv'
<1>1. PICK s \in Status : OnRepeatedStatus(s) \/ OnDecisiveStatus(s) \/ OnOtherStatus(s)
  BY DEF Report
<1>2. CASE OnRepeatedStatus(s)
  BY <1>2 DEF Report, OnRepeatedStatus, Inv, TypeOK, Bookkeeping, DecisiveStatusSettles,
              FulfilledOnce, NoOrphanCall, config, promise
<1>3. CASE OnDecisiveStatus(s)
  BY <1>3, DecisiveStatusKeepsInv DEF Report
<1>4. CASE OnOtherStatus(s)
  <2>1. TypeOK' /\ Bookkeeping' /\ FulfilledOnce' /\ NoOrphanCall'
    BY <1>4 DEF Report, OnOtherStatus, Inv, TypeOK, Bookkeeping, FulfilledOnce,
                NoOrphanCall, config, promise
  <2>2. DecisiveStatusSettles'
    BY <1>4 DEF Report, OnOtherStatus, IsFinal, Inv, DecisiveStatusSettles, config, promise
  <2>. QED
    BY <2>1, <2>2 DEF Inv
<1>. QED
  BY <1>1, <1>2, <1>3, <1>4

-----------------------------------------------------------------------------
LEMMA EndIgnoredKeepsInv ==
  ASSUME Inv, NEW a \in Attempt, EndIgnored(a) PROVE Inv'
<1>1. TypeOK' /\ Bookkeeping'
  BY DEF EndIgnored, Last, Ended, Inv, TypeOK, Bookkeeping, CallStates, config, promise
<1>2. DecisiveStatusSettles' /\ FulfilledOnce' /\ NoOrphanCall'
  BY DEF EndIgnored, Last, Ended, Inv, TypeOK, DecisiveStatusSettles, FulfilledOnce,
         NoOrphanCall, CallStates, config, promise
<1>. QED
  BY <1>1, <1>2 DEF Inv

\* While the promise is pending, the call that ends was the only live one.
LEMMA NothingLiveAfterEnd ==
  ASSUME Inv, NEW a \in Attempt, call[a] \in {"open", "cancelled"}, Unanswered
  PROVE  /\ a = trial
         /\ Ended(a) \in [Attempt -> CallStates]
         /\ \A b \in Attempt : Ended(a)[b] \notin {"open", "cancelled"}
  BY DEF Inv, TypeOK, Bookkeeping, Unanswered, Ended, CallStates

LEMMA RetryKeepsInv ==
  ASSUME Inv, NEW a \in Attempt, Retry(a) PROVE Inv'
<1>1. call[a] \in {"open", "cancelled"} /\ Unanswered
  BY DEF Retry, Last
<1>2. pc \in {"storing", "returned"} /\ (onQueue => pc = "returned")
  BY <1>1 DEF Inv, TypeOK, Bookkeeping
<1>3. UNCHANGED <<config, received, promise, service, pc>>
  BY DEF Retry, Last
<1>4. trial < MaxTrials /\ result = "pending" /\ Reopen(Ended(a))
  BY DEF Retry, TrialsLeft, Unanswered
<1>. QED
  BY <1>1, <1>2, <1>3, <1>4, NothingLiveAfterEnd, ReopenKeepsInv

LEMMA GiveUpKeepsInv ==
  ASSUME Inv, NEW a \in Attempt, GiveUp(a) PROVE Inv'
<1>1. call[a] \in {"open", "cancelled"} /\ result = "pending" /\ fulfils = 0
  BY DEF GiveUp, Last, Unanswered, Inv, Bookkeeping
<1>2. /\ call' = Ended(a)
      /\ call' \in [Attempt -> CallStates]
      /\ \A b \in Attempt : call'[b] \notin {"open", "cancelled"}
  BY <1>1, NothingLiveAfterEnd DEF GiveUp, Unanswered
<1>3. fulfils' = 1 /\ result' \in {"rpcError", "notReceived"}
  BY <1>1 DEF GiveUp, FailWith, FulfilWith
<1>4. UNCHANGED <<config, received, pc, service, trial>> /\ operation' = NoCall
  BY DEF GiveUp, Last
<1>5. TypeOK'
  BY <1>2, <1>3, <1>4 DEF Inv, TypeOK, Results, config
<1>6. Bookkeeping'
  <2>1. pc # "new"
    BY <1>1 DEF Inv, Bookkeeping
  <2>. QED
    BY <1>2, <1>3, <1>4, <2>1 DEF Inv, Bookkeeping, config
<1>7. DecisiveStatusSettles' /\ FulfilledOnce' /\ NoOrphanCall'
  BY <1>2, <1>3 DEF DecisiveStatusSettles, FulfilledOnce, NoOrphanCall
<1>. QED
  BY <1>5, <1>6, <1>7 DEF Inv

LEMMA NextKeepsInv == Inv /\ [Next]_vars => Inv'
<1>. SUFFICES ASSUME Inv, [Next]_vars PROVE Inv'
  OBVIOUS
<1>1. ASSUME NEW a \in Attempt, Garble(a) PROVE Inv'
  BY <1>1 DEF Garble, OnGarbled, vars, config, promise, Inv, TypeOK, Bookkeeping,
              DecisiveStatusSettles, FulfilledOnce, NoOrphanCall
<1>2. ASSUME NEW a \in Attempt, End(a) PROVE Inv'
  BY <1>2, EndIgnoredKeepsInv, RetryKeepsInv, GiveUpKeepsInv DEF End
<1>3. CASE ReleaseService
  BY <1>3 DEF ReleaseService, config, promise, Inv, TypeOK, Bookkeeping,
              DecisiveStatusSettles, FulfilledOnce, NoOrphanCall
<1>4. CASE UNCHANGED vars
  BY <1>4 DEF vars, config, promise, Inv, TypeOK, Bookkeeping,
              DecisiveStatusSettles, FulfilledOnce, NoOrphanCall
<1>. QED
  BY <1>1, <1>2, <1>3, <1>4, StartKeepsInv, StartElsewhereKeepsInv,
     StoreOperationKeepsInv, ReportKeepsInv DEF Next

LEMMA Invariant == Spec => []Inv
  BY InitInv, NextKeepsInv, PTL DEF Spec

-----------------------------------------------------------------------------
\* Every variable keeps its type; in particular no attempt is numbered beyond
\* the number of trials, and the queue blocks at the third fulfil call.
THEOREM TypeCorrect == Spec => []TypeOK
<1>1. Inv => TypeOK
  BY DEF Inv
<1>. QED
  BY <1>1, Invariant, PTL

\* A status that decides the outcome has settled the promise, so that dropping
\* repeated statuses loses no answer.
THEOREM NoAnswerLost == Spec => []DecisiveStatusSettles
<1>1. Inv => DecisiveStatusSettles
  BY DEF Inv
<1>. QED
  BY <1>1, Invariant, PTL

\* Started on the response queue, the stream fulfils its promise at most once.
THEOREM NeverRefulfils == Spec => []FulfilledOnce
<1>1. Inv => FulfilledOnce
  BY DEF Inv
<1>. QED
  BY <1>1, Invariant, PTL

\* Started on the response queue, the stream leaves no call open behind its
\* answer, and can always cancel the one that is open.
THEOREM NoCallLeftOpen == Spec => []NoOrphanCall
<1>1. Inv => NoOrphanCall
  BY DEF Inv
<1>. QED
  BY <1>1, Invariant, PTL

\* Wherever start is called, at most one connection is live.
THEOREM OneConnection == Spec => []OneLiveCall
<1>1. Inv => OneLiveCall
  BY DEF Inv, Bookkeeping, OneLiveCall
<1>. QED
  BY <1>1, Invariant, PTL

\* A success is the expected status, and an error has one of its two reasons.
THEOREM ResultSound == Spec => ResultIsSound
<1>1. Inv /\ Inv' /\ [Next]_vars =>
        [result = "pending" /\ result' # "pending" =>
           /\ (result' = "expected") <=> (expected \in received')
           /\ result' # "expected" =>
                \/ received' \cap Final # {} /\ result' = "notReceived"
                \/ trial = MaxTrials /\ call'[MaxTrials] = "closed"]_vars
  <2>. SUFFICES ASSUME Inv, Next, result = "pending", result' # "pending"
                PROVE  /\ (result' = "expected") <=> (expected \in received')
                       /\ result' # "expected" =>
                            \/ received' \cap Final # {} /\ result' = "notReceived"
                            \/ trial = MaxTrials /\ call'[MaxTrials] = "closed"
    OBVIOUS
  \* Nothing decisive was received before this step.
  <2>1. expected \notin received /\ fulfils = 0 /\ Unanswered
    BY DEF Inv, DecisiveStatusSettles, Bookkeeping, Unanswered
  <2>2. ASSUME NEW a \in Attempt, Report(a)
        PROVE  \E s \in Status : OnDecisiveStatus(s)
    BY <2>2 DEF Report, OnRepeatedStatus, OnOtherStatus, promise
  <2>3. CASE \E s \in Status : OnDecisiveStatus(s)
    BY <2>1, <2>3 DEF OnDecisiveStatus, FulfilWith, IsFinal, Inv, TypeOK
  <2>4. ASSUME NEW a \in Attempt, GiveUp(a)
        PROVE  /\ (result' = "expected") <=> (expected \in received')
               /\ trial = MaxTrials /\ call'[MaxTrials] = "closed"
    <3>1. result' \in {"rpcError", "notReceived"} /\ received' = received
      BY <2>1, <2>4 DEF GiveUp, Last, FailWith, FulfilWith
    <3>2. a = trial /\ trial = MaxTrials
      BY <2>1, <2>4, NothingLiveAfterEnd, MaxTrialsPositive
      DEF GiveUp, Last, TrialsLeft, Inv, TypeOK
    <3>3. call'[a] = "closed"
      BY <2>4 DEF GiveUp, Ended, Inv, TypeOK
    <3>. QED
      BY <2>1, <3>1, <3>2, <3>3
  <2>5. ASSUME NEW a \in Attempt, End(a)
        PROVE  GiveUp(a)
    BY <2>5 DEF End, EndIgnored, Retry, promise
  <2>6. \E a \in Attempt : Report(a) \/ End(a)
    BY DEF Next, Start, StartElsewhere, StoreOperation, ReleaseService, Garble,
           OnGarbled, vars, promise
  <2>. QED
    BY <2>2, <2>3, <2>4, <2>5, <2>6
<1>. QED
  BY <1>1, Invariant, PTL DEF Spec, ResultIsSound

\* No connection is opened once the promise has settled.
THEOREM NoLateAttempt == Spec => NoAttemptAfterResult
<1>1. Inv /\ [Next]_vars => [trial' # trial => result = "pending"]_vars
  <2>. SUFFICES ASSUME Inv, Next, trial' # trial PROVE result = "pending"
    OBVIOUS
  <2>1. CASE Start \/ StartElsewhere
    BY <2>1 DEF Start, StartElsewhere, Inv, Bookkeeping
  <2>2. ASSUME NEW a \in Attempt, End(a) PROVE result = "pending"
    BY <2>2 DEF End, EndIgnored, Retry, GiveUp, Unanswered
  <2>. QED
    BY <2>1, <2>2 DEF Next, StoreOperation, Report, Garble, OnGarbled, vars, ReleaseService
<1>. QED
  BY <1>1, Invariant, PTL DEF Spec, NoAttemptAfterResult
=============================================================================
