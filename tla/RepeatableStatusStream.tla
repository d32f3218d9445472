------------------------ MODULE RepeatableStatusStream ------------------------
(***************************************************************************)
(* IRRepeatableStatusStream.m: waits for one transaction to reach an       *)
(* expected status, opening the status stream of the network service again *)
(* each time it ends without a verdict, up to a number of trials.          *)
(*                                                                         *)
(* The calls of attempts 1, 2, ... are gRPC streams.  Their events are     *)
(* delivered on the service's serial response queue, one at a time, so a   *)
(* delivery and all of handle:done:error: is one step.  The caller of      *)
(* start may be on that queue or on another thread: what start does after  *)
(* the first call is under way then races with the deliveries.             *)
(*                                                                         *)
(* gRPC is external.  A cancelled call drops the messages it had queued    *)
(* and delivers one last "done" event with an error.                       *)
(***************************************************************************)
EXTENDS Integers

CONSTANTS
  Status,        \* the statuses the peer may report
  TrialsCount    \* maxReconnection, as the caller passes it

Final == {"rejected", "committed", "mstExpired"}

ASSUME TrialsAssumption == TrialsCount \in Nat

MaxTrials == IF TrialsCount > 1 THEN TrialsCount ELSE 1
Attempt   == 1 .. MaxTrials
NoCall    == 0

\* "notReceived" is the error the stream makes, "rpcError" the one gRPC passed.
Results    == {"pending", "expected", "notReceived", "rpcError"}
CallStates == {"none", "open", "cancelled", "closed"}

VARIABLES
  expected,   \* expectedTransactionStatus
  trial,      \* currentTrial
  received,   \* receivedStatuses
  operation,  \* the call that cancel reaches
  result,     \* what the promise was fulfilled with
  fulfils,    \* the calls of fulfillWithResult on it
  pc,         \* where start is: "new", "storing" the first call, "returned"
  call,       \* the gRPC call of each attempt
  onQueue,    \* whether start is called on the response queue
  service     \* whether the network service, referenced weakly, still exists

config == <<expected, onQueue>>
promise == <<result, fulfils>>
vars == <<config, trial, received, operation, promise, pc, call, service>>

Init ==
  /\ expected \in Status
  /\ trial = 0
  /\ received = {}
  /\ operation = NoCall
  /\ result = "pending"
  /\ fulfils = 0
  /\ pc = "new"
  /\ call = [a \in Attempt |-> "none"]
  /\ onQueue \in BOOLEAN
  /\ service = TRUE

-----------------------------------------------------------------------------
(* What the steps are made of.  A definition named Mutant... is a slip in    *)
(* the one that follows it; no specification uses it.                        *)

(* A second fulfillWithResult leaves the result and keeps the semaphore of   *)
(* the promise, so a third one blocks its thread for ever (IRPromise.tla).   *)
FulfilWith(r) ==
  /\ fulfils' = fulfils + 1
  /\ result' = IF fulfils = 0 THEN r ELSE result

NotFulfilled == UNCHANGED promise

QueueBlocked == fulfils = 3

MutantUnanswered == TRUE
Unanswered       == result = "pending"

MutantTrialsLeft   == trial <= MaxTrials
MutantTooFewTrials == trial + 1 < MaxTrials
TrialsLeft         == trial < MaxTrials

\* performAttempt, up to the assignment of _operation: a message to the
\* released service answers nil and opens nothing.
OpenCall(state) ==
  /\ trial' = trial + 1
  /\ call' = IF service THEN [state EXCEPT ![trial + 1] = "open"] ELSE state

Opened == IF service THEN trial + 1 ELSE NoCall

\* performAttempt, all of it.
MutantReopen(state) == OpenCall(state) /\ UNCHANGED operation
Reopen(state)       == OpenCall(state) /\ operation' = Opened

\* start, on the response queue: nothing is delivered before it returns.
Start ==
  /\ pc = "new" /\ onQueue
  /\ Reopen(call)
  /\ pc' = "returned"
  /\ UNCHANGED <<config, received, service, promise>>

\* start, on another thread: the call is under way before it is stored.
StartElsewhere ==
  /\ pc = "new" /\ ~ onQueue
  /\ OpenCall(call)
  /\ pc' = IF service THEN "storing" ELSE "returned"
  /\ UNCHANGED <<config, received, operation, service, promise>>

StoreOperation ==
  /\ pc = "storing"
  /\ operation' = 1
  /\ pc' = "returned"
  /\ UNCHANGED <<config, trial, received, call, service, promise>>

-----------------------------------------------------------------------------
(* handle:done:error:                                                        *)

\* [_operation cancel]; _operation = nil
MutantCancelOperation == operation' = NoCall /\ call' = call
CancelOperation ==
  /\ operation' = NoCall
  /\ call' = IF operation # NoCall /\ call[operation] = "open"
             THEN [call EXCEPT ![operation] = "cancelled"]
             ELSE call

MutantIsFinal(s) == s \in {"rejected", "committed"}
IsFinal(s)       == s \in Final

\* A status that was seen, in this attempt or an earlier one, is dropped.
OnRepeatedStatus(s) ==
  /\ s \in received
  /\ UNCHANGED <<received, operation, call, promise>>

\* The status that is waited for, or one after which it cannot come.  A third
\* fulfillWithResult does not return, and nothing is cancelled after it.
OnDecisiveStatus(s) ==
  /\ s \notin received
  /\ received' = received \cup {s}
  /\ \/ s = expected /\ FulfilWith("expected")
     \/ s # expected /\ IsFinal(s) /\ FulfilWith("notReceived")
  /\ IF fulfils < 2 THEN CancelOperation ELSE UNCHANGED <<operation, call>>

OnOtherStatus(s) ==
  /\ s \notin received
  /\ s # expected /\ ~ IsFinal(s)
  /\ received' = received \cup {s}
  /\ UNCHANGED <<operation, call, promise>>

\* The call of attempt a delivers a status ...
Report(a) ==
  /\ ~ QueueBlocked
  /\ call[a] = "open" /\ service
  /\ \E s \in Status : OnRepeatedStatus(s) \/ OnDecisiveStatus(s) \/ OnOtherStatus(s)
  /\ UNCHANGED <<config, trial, pc, service>>

\* ... or a message that does not parse: an error without "done", which
\* neither branch of handle takes ...
MutantOnGarbled ==
  /\ Unanswered /\ TrialsLeft
  /\ Reopen(call)
  /\ UNCHANGED <<config, received, pc, service, promise>>
OnGarbled == UNCHANGED vars

Garble(a) ==
  /\ ~ QueueBlocked
  /\ call[a] = "open" /\ service
  /\ OnGarbled

\* ... or its last event, with an error if the connection failed or the call
\* was cancelled.
Last(a, failed) ==
  /\ ~ QueueBlocked
  /\ call[a] = "open" \/ (call[a] = "cancelled" /\ failed)
  /\ UNCHANGED <<config, received, pc, service>>

Ended(a) == [call EXCEPT ![a] = "closed"]

\* The promise has settled, or nobody listens.
EndIgnored(a) ==
  /\ \E failed \in BOOLEAN : Last(a, failed)
  /\ ~ Unanswered \/ ~ service
  /\ call' = Ended(a)
  /\ UNCHANGED <<trial, operation, promise>>

Retry(a) ==
  /\ \E failed \in BOOLEAN : Last(a, failed)
  /\ Unanswered /\ service /\ TrialsLeft
  /\ Reopen(Ended(a))
  /\ UNCHANGED promise

MutantFailWith(failed) == IF failed THEN FulfilWith("rpcError") ELSE NotFulfilled
FailWith(failed)       == FulfilWith(IF failed THEN "rpcError" ELSE "notReceived")

GiveUp(a) ==
  /\ \E failed \in BOOLEAN : Last(a, failed) /\ FailWith(failed)
  /\ Unanswered /\ service /\ ~ TrialsLeft
  /\ operation' = NoCall
  /\ call' = Ended(a)
  /\ UNCHANGED trial

End(a) == EndIgnored(a) \/ Retry(a) \/ GiveUp(a)

\* The application lets go of the service; its calls stay, but the blocks
\* they call go through a weak reference and do nothing.
ReleaseService ==
  /\ service
  /\ service' = FALSE
  /\ UNCHANGED <<config, trial, received, operation, result, fulfils, pc, call>>

Next ==
  \/ Start \/ StartElsewhere \/ StoreOperation
  \/ \E a \in Attempt : Report(a) \/ Garble(a) \/ End(a)
  \/ ReleaseService

Spec == Init /\ [][Next]_vars

\* start runs to its end, and a call that is open is ended by the peer, by
\* the network or by a cancellation.
Fairness ==
  /\ WF_vars(Start \/ StartElsewhere \/ StoreOperation)
  /\ \A a \in Attempt : WF_vars(End(a))

FairSpec == Spec /\ Fairness

-----------------------------------------------------------------------------
TypeOK ==
  /\ expected \in Status
  /\ trial \in 0 .. MaxTrials
  /\ received \subseteq Status
  /\ operation \in Attempt \cup {NoCall}
  /\ result \in Results
  /\ fulfils \in 0 .. 3
  /\ pc \in {"new", "storing", "returned"}
  /\ call \in [Attempt -> CallStates]
  /\ onQueue \in BOOLEAN
  /\ service \in BOOLEAN

(***************************************************************************)
(* The check at line 66 drops repeated statuses across attempts.  It never *)
(* drops the answer: a status that decides the outcome settled the promise *)
(* when it was first seen.                                                 *)
(***************************************************************************)
DecisiveStatusSettles ==
  received \cap (Final \cup {expected}) # {} => result # "pending"

(***************************************************************************)
(* The promise says what the stream saw: a success only after the expected *)
(* status came, an error only before it, and one of the two kinds of error *)
(* for a reason: a final status, or every trial used up and ended.         *)
(***************************************************************************)
ResultIsSound ==
  [][result = "pending" /\ result' # "pending" =>
       /\ (result' = "expected") <=> (expected \in received')
       /\ result' # "expected" =>
            \/ received' \cap Final # {} /\ result' = "notReceived"
            \/ trial = MaxTrials /\ call'[MaxTrials] = "closed"]_vars

\* No connection is opened once the promise has settled.
NoAttemptAfterResult == [][trial' # trial => result = "pending"]_vars

(***************************************************************************)
(* handle: does not look at isFulfilled when a status arrives (lines       *)
(* 72-83), so that the promise is fulfilled once rests on the cancelled    *)
(* call delivering no further status.  It holds when start is called on    *)
(* the response queue, and not otherwise: an answer that arrives before    *)
(* start has stored its call finds nothing to cancel.                      *)
(***************************************************************************)
FulfilledOnce == onQueue => fulfils <= 1

(***************************************************************************)
(* At most one call is live, it is the one cancel reaches, and none is     *)
(* live once the promise has settled: no stream is left open behind an     *)
(* answered promise.  This too needs start to be on the response queue.    *)
(***************************************************************************)
NoOrphanCall ==
  onQueue => \A a \in Attempt : call[a] = "open" => a = operation /\ result = "pending"

\* At most one call is live, wherever start is called and whatever is delivered.
OneLiveCall ==
  \A a, b \in Attempt : call[a] = "open" /\ call[b] = "open" => a = b

(***************************************************************************)
(* Every wait ends: the promise settles, whatever the peer reports and     *)
(* however often the connection drops, unless the service is released.     *)
(***************************************************************************)
Settles == <>(result # "pending" \/ ~ service)
=============================================================================
