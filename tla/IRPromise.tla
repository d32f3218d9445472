------------------------------- MODULE IRPromise -------------------------------
(***************************************************************************)
(* IRPromise.m: promises whose handlers are called by whoever fulfils      *)
(* them, and which hand their continuation over to the promise a handler   *)
(* returns.                                                                *)
(*                                                                         *)
(* The Builder thread writes one chain of N links on the promise Root;     *)
(* Workers fulfil the promises the application owns: Root and every        *)
(* pending promise a handler returned.  The chain is written while its     *)
(* promises may already be settling.  When Builder is a worker too it      *)
(* writes the chain in one turn; SerialPromise has any use of one thread.  *)
(*                                                                         *)
(* A step is one access to state another thread can touch.  What a thread  *)
(* does under a semaphore to fields that are only touched under it is one  *)
(* step; next, the two handlers and isProcessed are also touched without   *)
(* it, so each access to them by a running call is a step of its own.      *)
(***************************************************************************)
EXTENDS Integers, Sequences

CONSTANTS
  N,          \* the number of links of the chain
  Promise,    \* the promise objects that may be allocated
  Root,       \* the promise the chain starts from
  NoPromise,  \* nil
  Workers,    \* the threads that fulfil promises
  Builder,    \* the thread that writes the chain
  Calls       \* how often the application may fulfil each promise it owns

ASSUME ConstantAssumption ==
  /\ N \in Nat
  /\ Root \in Promise
  /\ NoPromise \notin Promise
  /\ Calls \in Nat \ {0}

Link    == 1 .. N
Thread  == Workers \cup {Builder}
Settled == {"value", "error"}
Status  == {"pending"} \cup Settled
NoLink  == 0                         \* no handler: nil

VARIABLES
  \* the fields of the promise objects
  heap,           \* the promises allocated so far
  sem,            \* the value of the semaphore
  result,         \* isFulfilled and result: "pending" is not fulfilled
  processed,      \* isProcessed
  next,
  resultHandler,  \* the link whose handler it is, or NoLink
  errorHandler,
  \* the calls in progress
  pc,             \* where each thread is
  cur,            \* self of the innermost call
  arg,            \* the argument of fulfillWithResult
  rp,             \* resultPromise
  src,            \* the argument of copyHandlersFromPromise
  stack,          \* the promises to signal as the fulfil calls return
  \* the application
  kind,           \* how link j is written: onThen or onError
  built,          \* how many links are written
  tail,           \* the promise the next link is written on
  owned,          \* the promises the application is to fulfil
  called,         \* how often it has called fulfillWithResult on each
  \* history: what became of the handlers
  runs,           \* how often handler j was called
  ret             \* what it returned

fields == <<heap, sem, result, processed, next, resultHandler, errorHandler>>
locals == <<cur, arg, rp, src>>
app    == <<kind, built, tail, owned, called>>
hist   == <<runs, ret>>
vars   == <<fields, pc, locals, stack, app, hist>>

-----------------------------------------------------------------------------
Init ==
  /\ heap = {Root}
  /\ sem = [p \in Promise |-> 1]
  /\ \E s \in Status :
       /\ result = [p \in Promise |-> IF p = Root THEN s ELSE "pending"]
       /\ owned = IF s = "pending" THEN {Root} ELSE {}
  /\ called = [p \in Promise |-> 0]
  /\ processed = [p \in Promise |-> FALSE]
  /\ next = [p \in Promise |-> NoPromise]
  /\ resultHandler = [p \in Promise |-> NoLink]
  /\ errorHandler = [p \in Promise |-> NoLink]
  /\ pc = [t \in Thread |-> "idle"]
  /\ cur = [t \in Thread |-> NoPromise]
  /\ arg = [t \in Thread |-> "pending"]
  /\ rp = [t \in Thread |-> NoPromise]
  /\ src = [t \in Thread |-> NoPromise]
  /\ stack = [t \in Thread |-> << >>]
  /\ kind \in [Link -> {"then", "error"}]
  /\ built = 0
  /\ tail = Root
  /\ runs = [j \in Link |-> 0]
  /\ ret = [j \in Link |-> NoPromise]

-----------------------------------------------------------------------------
(* What the steps are made of.  A definition named Mutant... is a slip in    *)
(* the one that follows it; no specification uses it.                        *)

Goto(t, l) == pc' = [pc EXCEPT ![t] = l]

\* dispatch_semaphore_wait lets the thread pass.
MutantFree(p) == TRUE
Free(p)       == sem[p] = 1

\* dispatch_semaphore_signal
MutantSignalled(p) == sem' = sem
Signalled(p)       == sem' = [sem EXCEPT ![p] = 1]

MutantIsFulfilled(p) == FALSE
IsFulfilled(p)       == result[p] # "pending"

MutantHasNext(p) == TRUE
HasNext(p)       == next[p] # NoPromise

\* The handler the result of p is for.
MutantHandlerFor(p) == resultHandler[p]
HandlerFor(p) == IF result[p] = "error" THEN errorHandler[p] ELSE resultHandler[p]

\* A message to nil answers nil.
MutantNextOf(p)    == p
NextOf(p)          == IF p = NoPromise THEN NoPromise ELSE next[p]
ResultHandlerOf(p) == IF p = NoPromise THEN NoLink ELSE resultHandler[p]
ErrorHandlerOf(p)  == IF p = NoPromise THEN NoLink ELSE errorHandler[p]

\* The next object of the heap; every use of it is guarded by CanAllocate.
Fresh       == CHOOSE p \in Promise : p \notin heap
CanAllocate == Promise \ heap # {}

\* The object q comes into being in status s.
Allocate(q, s) ==
  /\ heap' = heap \cup {q}
  /\ result' = [result EXCEPT ![q] = s]

\* Handler j runs and returns nil ...
ReturnsNil(j) ==
  /\ runs' = [runs EXCEPT ![j] = @ + 1]
  /\ ret' = [ret EXCEPT ![j] = NoPromise]

\* ... or a new promise q: settled already, or to be fulfilled by the application.
ReturnsPromise(j, q) ==
  /\ CanAllocate
  /\ runs' = [runs EXCEPT ![j] = @ + 1]
  /\ ret' = [ret EXCEPT ![j] = q]
  /\ \E s \in Status :
       /\ Allocate(q, s)
       /\ owned' = IF s = "pending" THEN owned \cup {q} ELSE owned

-----------------------------------------------------------------------------
(* fulfillWithResult                                                         *)

\* A chain is written in one turn of its queue: a worker that is also the
\* builder fulfils nothing while it is writing.
BetweenTurns(t) == pc[t] = "idle" /\ (t = Builder => built \in {0, N})

\* The application calls fulfillWithResult on a promise it owns.
StartFulfil(t) ==
  /\ t \in Workers /\ BetweenTurns(t)
  /\ \E p \in owned, s \in Settled :
       /\ called[p] < Calls
       /\ called' = [called EXCEPT ![p] = @ + 1]
       /\ cur' = [cur EXCEPT ![t] = p]
       /\ arg' = [arg EXCEPT ![t] = s]
  /\ Goto(t, "wait")
  /\ UNCHANGED <<fields, rp, src, stack, kind, built, tail, owned, hist>>

\* The semaphore is taken and the promise settles.
Fulfil(t) ==
  /\ pc[t] = "wait"
  /\ Free(cur[t])
  /\ ~ IsFulfilled(cur[t])
  /\ sem' = [sem EXCEPT ![cur[t]] = 0]
  /\ result' = [result EXCEPT ![cur[t]] = arg[t]]
  /\ stack' = [stack EXCEPT ![t] = Append(@, cur[t])]
  /\ Goto(t, "settled")
  /\ UNCHANGED <<heap, processed, next, resultHandler, errorHandler, locals, app, hist>>

\* The early return of a second call: the semaphore is taken, never signalled.
FulfilAgain(t) ==
  /\ pc[t] = "wait"
  /\ Free(cur[t])
  /\ IsFulfilled(cur[t])
  /\ sem' = [sem EXCEPT ![cur[t]] = 0]
  /\ Goto(t, "return")
  /\ UNCHANGED <<heap, result, processed, next, resultHandler, errorHandler,
                 locals, stack, app, hist>>

\* if (_next) [self triggerResultProcessing]
CheckNext(t) ==
  /\ pc[t] = "settled"
  /\ Goto(t, IF HasNext(cur[t]) THEN "trigger" ELSE "return")
  /\ UNCHANGED <<fields, locals, stack, app, hist>>

\* A fulfil call returns and signals its semaphore; so do those around it.
Signal(t) ==
  /\ pc[t] = "return"
  /\ stack[t] # << >>
  /\ Signalled(stack[t][Len(stack[t])])
  /\ stack' = [stack EXCEPT ![t] = SubSeq(@, 1, Len(@) - 1)]
  /\ UNCHANGED <<heap, result, processed, next, resultHandler, errorHandler,
                 pc, locals, app, hist>>

Return(t) ==
  /\ pc[t] = "return"
  /\ stack[t] = << >>
  /\ Goto(t, "idle")
  /\ UNCHANGED <<fields, locals, stack, app, hist>>

-----------------------------------------------------------------------------
(* triggerResultProcessing                                                   *)

CheckProcessed(t) ==
  /\ pc[t] = "trigger"
  /\ Goto(t, IF processed[cur[t]] THEN "return" ELSE "dispatch")
  /\ UNCHANGED <<fields, locals, stack, app, hist>>

\* isProcessed is set and the handler runs, on this thread; without a
\* promise to continue with, the rest of the chain is dropped.
RunHandler(t) ==
  /\ pc[t] = "dispatch"
  /\ HandlerFor(cur[t]) # NoLink
  /\ processed' = [processed EXCEPT ![cur[t]] = TRUE]
  /\ \/ /\ ReturnsNil(HandlerFor(cur[t]))
        /\ Goto(t, "return")
        /\ UNCHANGED <<heap, result, rp, owned>>
     \/ /\ ReturnsPromise(HandlerFor(cur[t]), Fresh)
        /\ rp' = [rp EXCEPT ![t] = Fresh]
        /\ Goto(t, "copyNext")
  /\ UNCHANGED <<sem, next, resultHandler, errorHandler, cur, arg, src, stack,
                 kind, built, tail, called>>

\* [_next fulfillWithResult:_result]
MutantErrorTarget(t) == cur[t]
ErrorTarget(t)       == next[cur[t]]

\* An error nobody here handles goes to the next promise of the chain,
\* under the semaphores of the calls in progress.
PassErrorOn(t) ==
  /\ pc[t] = "dispatch"
  /\ result[cur[t]] = "error"
  /\ errorHandler[cur[t]] = NoLink
  /\ HasNext(cur[t])
  /\ processed' = [processed EXCEPT ![cur[t]] = TRUE]
  /\ cur' = [cur EXCEPT ![t] = ErrorTarget(t)]
  /\ arg' = [arg EXCEPT ![t] = "error"]
  /\ Goto(t, "wait")
  /\ UNCHANGED <<heap, sem, result, next, resultHandler, errorHandler, rp, src,
                 stack, app, hist>>

\* A value that meets an onError link, or an error at the end of the chain.
NothingToRun(t) ==
  /\ pc[t] = "dispatch"
  /\ HandlerFor(cur[t]) = NoLink
  /\ result[cur[t]] = "error" => ~ HasNext(cur[t])
  /\ Goto(t, "return")
  /\ UNCHANGED <<fields, locals, stack, app, hist>>

(* copyHandlersFromPromise: three reads and three writes, without a lock.    *)

CopyNext(t) ==
  /\ pc[t] = "copyNext"
  /\ src' = [src EXCEPT ![t] = next[cur[t]]]
  /\ next' = [next EXCEPT ![rp[t]] = NextOf(next[cur[t]])]
  /\ Goto(t, "copyResultHandler")
  /\ UNCHANGED <<heap, sem, result, processed, resultHandler, errorHandler,
                 cur, arg, rp, stack, app, hist>>

CopyResultHandler(t) ==
  /\ pc[t] = "copyResultHandler"
  /\ resultHandler' = [resultHandler EXCEPT ![rp[t]] = ResultHandlerOf(src[t])]
  /\ Goto(t, "copyErrorHandler")
  /\ UNCHANGED <<heap, sem, result, processed, next, errorHandler,
                 locals, stack, app, hist>>

CopyErrorHandler(t) ==
  /\ pc[t] = "copyErrorHandler"
  /\ errorHandler' = [errorHandler EXCEPT ![rp[t]] = ErrorHandlerOf(src[t])]
  /\ Goto(t, "checkReturned")
  /\ UNCHANGED <<heap, sem, result, processed, next, resultHandler,
                 locals, stack, app, hist>>

\* if (resultPromise.isFulfilled) [resultPromise triggerResultProcessing]
CheckReturned(t) ==
  /\ pc[t] = "checkReturned"
  /\ IF IsFulfilled(rp[t])
     THEN cur' = [cur EXCEPT ![t] = rp[t]] /\ Goto(t, "trigger")
     ELSE cur' = cur /\ Goto(t, "return")
  /\ UNCHANGED <<fields, arg, rp, src, stack, app, hist>>

-----------------------------------------------------------------------------
(* onThen and onError                                                        *)

\* The builder is about to write link built + 1 on tail, and its semaphore is free.
AtLink ==
  /\ pc[Builder] = "idle"
  /\ built < N
  /\ Free(tail)
  /\ CanAllocate

Matches(s, k) == <<s, k>> \in {<<"value", "then">>, <<"error", "error">>}

\* On a settled promise whose result is for this kind of link, the handler
\* runs at once, on the builder and under the semaphore; the chain goes on
\* from what it returns, or from a new promise nobody fulfils.
LinkRunsNow ==
  LET j == built + 1 IN
  /\ AtLink
  /\ IsFulfilled(tail)
  /\ Matches(result[tail], kind[j])
  /\ \/ ReturnsNil(j) /\ Allocate(Fresh, "pending") /\ UNCHANGED owned
     \/ ReturnsPromise(j, Fresh)
  /\ tail' = Fresh
  /\ built' = j
  /\ UNCHANGED <<sem, processed, next, resultHandler, errorHandler, pc, locals,
                 stack, kind, called>>

\* Otherwise the link is passed over: onThen answers a promise with the same
\* error, onError a promise nobody fulfils.
LinkPassedOver ==
  LET j == built + 1 IN
  /\ AtLink
  /\ IsFulfilled(tail)
  /\ ~ Matches(result[tail], kind[j])
  /\ Allocate(Fresh, IF kind[j] = "then" THEN "error" ELSE "pending")
  /\ tail' = Fresh
  /\ built' = j
  /\ UNCHANGED <<sem, processed, next, resultHandler, errorHandler, pc, locals,
                 stack, kind, owned, called, hist>>

\* On a pending promise the handler is stored first ...
LinkStoresHandler ==
  LET j == built + 1 IN
  /\ AtLink
  /\ ~ IsFulfilled(tail)
  /\ sem' = [sem EXCEPT ![tail] = 0]
  /\ resultHandler' = [resultHandler EXCEPT ![tail] = IF kind[j] = "then" THEN j ELSE NoLink]
  /\ errorHandler' = [errorHandler EXCEPT ![tail] = IF kind[j] = "error" THEN j ELSE NoLink]
  /\ Allocate(Fresh, "pending")
  /\ cur' = [cur EXCEPT ![Builder] = Fresh]
  /\ Goto(Builder, "linking")
  /\ UNCHANGED <<processed, next, arg, rp, src, stack, kind, built, tail, owned,
                 called, hist>>

\* ... and then the next promise, from which the chain goes on.
LinkStoresNext ==
  /\ pc[Builder] = "linking"
  /\ next' = [next EXCEPT ![tail] = cur[Builder]]
  /\ Signalled(tail)
  /\ tail' = cur[Builder]
  /\ built' = built + 1
  /\ Goto(Builder, "idle")
  /\ UNCHANGED <<heap, result, processed, resultHandler, errorHandler, locals,
                 stack, kind, owned, called, hist>>

-----------------------------------------------------------------------------
Write == LinkRunsNow \/ LinkPassedOver \/ LinkStoresHandler \/ LinkStoresNext

\* The steps of a fulfil call once the application has made it.
Work(t) ==
  \/ Fulfil(t) \/ FulfilAgain(t) \/ CheckNext(t) \/ Signal(t) \/ Return(t)
  \/ CheckProcessed(t) \/ RunHandler(t) \/ PassErrorOn(t) \/ NothingToRun(t)
  \/ CopyNext(t) \/ CopyResultHandler(t) \/ CopyErrorHandler(t) \/ CheckReturned(t)

\* The chain is written, every call has returned and every promise the
\* application owns was fulfilled.
Terminated ==
  /\ built = N
  /\ \A t \in Thread : pc[t] = "idle"
  /\ \A p \in owned : called[p] > 0
  /\ UNCHANGED vars

Next ==
  \/ Write
  \/ \E t \in Thread : StartFulfil(t) \/ Work(t)
  \/ Terminated

Spec == Init /\ [][Next]_vars

\* A thread inside the library keeps running, and the builder finishes the
\* chain.  Nothing obliges the application to fulfil what it owns.
Fairness == WF_vars(Write) /\ \A t \in Thread : WF_vars(Work(t))

FairSpec == Spec /\ Fairness

-----------------------------------------------------------------------------
(* What the implementation guarantees                                        *)

Copying == {"copyNext", "copyResultHandler", "copyErrorHandler", "checkReturned"}

PCs == {"idle", "wait", "settled", "return", "trigger", "dispatch", "linking"} \cup Copying

Nullable == Promise \cup {NoPromise}

TypeOK ==
  /\ heap \subseteq Promise
  /\ sem \in [Promise -> {0, 1}]
  /\ result \in [Promise -> Status]
  /\ processed \in [Promise -> BOOLEAN]
  /\ next \in [Promise -> Nullable]
  /\ resultHandler \in [Promise -> Link \cup {NoLink}]
  /\ errorHandler \in [Promise -> Link \cup {NoLink}]
  /\ pc \in [Thread -> PCs]
  /\ cur \in [Thread -> Nullable]
  /\ arg \in [Thread -> Status]
  /\ rp \in [Thread -> Nullable]
  /\ src \in [Thread -> Nullable]
  /\ stack \in [Thread -> Seq(Promise)]
  /\ kind \in [Link -> {"then", "error"}]
  /\ built \in 0 .. N
  /\ tail \in Promise
  /\ owned \subseteq Promise
  /\ called \in [Promise -> 0 .. Calls]
  /\ runs \in [Link -> Nat]
  /\ ret \in [Link -> Nullable]
  /\ \A t \in Thread :
       /\ pc[t] \notin {"idle", "return"} => cur[t] \in Promise
       /\ pc[t] \in Copying => rp[t] \in Promise

\* The promises whose semaphore thread t is going to signal.
Holds(t) ==
  {stack[t][i] : i \in 1 .. Len(stack[t])} \cup
  (IF t = Builder /\ pc[t] = "linking" THEN {tail} ELSE {})

(***************************************************************************)
(* Mutual exclusion (lines 49-67, 98-111): a promise is inside at most one *)
(* fulfil, onThen or onError call, its semaphore stays taken for all of    *)
(* that call, and no thread is inside two calls of the same promise.       *)
(***************************************************************************)
MutualExclusion ==
  /\ \A t \in Thread : \A p \in Holds(t) : sem[p] = 0
  /\ \A t, u \in Thread : t # u => Holds(t) \cap Holds(u) = {}
  /\ \A t \in Thread : \A i, j \in 1 .. Len(stack[t]) :
       stack[t][i] = stack[t][j] => i = j

(***************************************************************************)
(* A semaphore that is taken with no call in progress is lost for good;    *)
(* only a promise the application fulfilled twice can be in that state.    *)
(***************************************************************************)
Leaked(p) == sem[p] = 0 /\ \A t \in Thread : p \notin Holds(t)

Refulfilled(p) == called[p] > 1

LeakOnlyByRefulfil == \A p \in Promise : Leaked(p) => Refulfilled(p)

(***************************************************************************)
(* A promise settles once, and is only processed when settled: results     *)
(* handed to a handler are never replaced by those of a later call.        *)
(***************************************************************************)
ResultsKept ==
  \A p \in heap :
    /\ result[p] # "pending" => result'[p] = result[p]
    /\ processed[p] => processed'[p] /\ result[p] # "pending"

SettledOnce == [][ResultsKept]_vars

\* No handler runs twice, whoever settles the promises and when.
HandlerAtMostOnce == \A j \in Link : runs[j] <= 1

(***************************************************************************)
(* Every fulfil call returns and the chain gets written: no thread waits   *)
(* for a semaphore for ever, unless the application fulfilled some promise *)
(* twice.                                                                  *)
(***************************************************************************)
Excused == \E p \in Promise : Refulfilled(p)

CallsReturn ==
  /\ \A t \in Thread : pc[t] # "idle" ~> (pc[t] = "idle" \/ Excused)
  /\ <>(built = N \/ Excused)

(***************************************************************************)
(* The chain the application wrote, seen through its handlers.             *)
(***************************************************************************)
Outcome ==
  [j \in 0 .. N |->
     IF j = 0 THEN result[Root]
     ELSE IF runs[j] = 0 THEN "idle"
     ELSE IF ret[j] = NoPromise THEN "nil"
     ELSE result[ret[j]]]

Chain == INSTANCE PromiseChain WITH outcome <- Outcome

\* Handlers run in the order, and for the results, that the chain promises.
ImplementsChain == Chain!Spec

\* A handler whose turn has come is eventually called.
DueHandlerRuns == Chain!FedHandlerRuns
=============================================================================
