----------------------------- MODULE SerialPromise -----------------------------
(***************************************************************************)
(* IRPromise.m confined to one serial queue, in any use an application may *)
(* make of it: several links on one promise, links written late, handlers  *)
(* that write links, fulfil promises or return any promise they know.      *)
(* IRPromise has one chain and many threads, this module one thread and    *)
(* any graph of promises.                                                  *)
(*                                                                         *)
(* A promise has one continuation: next and the handler of its last link,  *)
(* which is copied to the promise the handler before it returns.  On one   *)
(* thread only the application's handlers come between the statements of   *)
(* a call, so a step is a call, or what is between two handlers.           *)
(***************************************************************************)
EXTENDS Integers, Sequences, FiniteSets

CONSTANTS
  MaxPromises,  \* bounds: how many promises the application makes
  MaxLinks,     \* how many links it writes
  MaxMisfulfilled  \* and how many it fulfils that it should not

ASSUME BoundsAssumption == {MaxPromises, MaxLinks, MaxMisfulfilled} \subseteq Nat

VARIABLES
  promises,  \* the promise objects, those the application makes first
  call,      \* the call the library is about to go on with, or Idle: the application runs
  stack,     \* the calls in progress around it
  (* history *)
  links,     \* the links written so far, and what became of their handlers
  owned,     \* the promises the application has still to fulfil
  misfulfilled,  \* those it fulfilled though they were settled or a link's
  passed,    \* <<p, q>>: p's continuation was handed on to q, which may be Nil
  reused     \* those given a continuation while they had one, or after that

vars == <<promises, call, stack, links, owned, misfulfilled, passed, reused>>

Nil     == 0
Settled == {"value", "error"}
Status  == {"pending"} \cup Settled
Known   == DOMAIN promises     \* every promise is handed to the application
Link    == DOMAIN links

Idle == [at |-> "application"]

-----------------------------------------------------------------------------
(* What the steps are made of                                                *)

\* +promise, +promiseWithResult:
NewPromise(status) ==
  [semaphore |-> 1, result |-> status, isProcessed |-> FALSE,
   next |-> Nil, resultHandler |-> Nil, errorHandler |-> Nil]

Free(p) == promises[p].semaphore = 1

IsFulfilled(p) == promises[p].result # "pending"

Matches(result, kind) == <<result, kind>> \in {<<"value", "then">>, <<"error", "error">>}

HandlerFor(p) ==
  IF promises[p].result = "error" THEN promises[p].errorHandler ELSE promises[p].resultHandler

Continues(p) == promises[p].next # Nil

HandedOn(p) == \E q \in Known \cup {Nil} : <<p, q>> \in passed

\* A promise that has handed its continuation on, or has run it, gets another
\* for nothing; one that has a continuation loses it.
Spent(p) == Continues(p) \/ promises[p].isProcessed \/ HandedOn(p)

\* The application runs, in a handler or between two turns of the queue.
Running == call = Idle

Top == stack[Len(stack)]
Pop == SubSeq(stack, 1, Len(stack) - 1)

\* Where the library goes on when a call has returned.
Resume(frames) ==
  IF frames # << >> /\ frames[Len(frames)].in = "fulfil" THEN [at |-> "signal"] ELSE Idle

\* dispatch_semaphore_wait that never returns: nobody else is there to signal.
Blocks(p, caller) ==
  /\ ~ Free(p)
  /\ call' = [at |-> "wait", self |-> p, by |-> caller]
  /\ UNCHANGED <<promises, stack, links, passed, reused>>

-----------------------------------------------------------------------------
(* The promises of the application are there from the beginning: +promise and *)
(* +promiseWithResult: touch nothing else, so it does not matter when they     *)
(* are called.  Nor does their order.                                         *)

Rank == [pending |-> 1, value |-> 2, error |-> 3]

Init ==
  /\ \E n \in 0 .. MaxPromises : \E status \in [1 .. n -> Status] :
       /\ \A p, q \in 1 .. n : p < q => Rank[status[p]] <= Rank[status[q]]
       /\ promises = [p \in 1 .. n |-> NewPromise(status[p])]
       /\ owned = {p \in 1 .. n : status[p] = "pending"}
  /\ call = Idle
  /\ stack = << >>
  /\ links = << >>
  /\ misfulfilled = {}
  /\ passed = {}
  /\ reused = {}

-----------------------------------------------------------------------------
(* fulfillWithResult                                                         *)

Fulfil(p, result) ==
  /\ Free(p)
  /\ ~ IsFulfilled(p)
  /\ promises' = [promises EXCEPT ![p].semaphore = 0, ![p].result = result]
  /\ stack' = Append(stack, [in |-> "fulfil", self |-> p])
  /\ call' = IF Continues(p) THEN [at |-> "trigger", self |-> p] ELSE [at |-> "signal"]
  /\ UNCHANGED <<links, passed, reused>>

\* The early return, which does not signal.
FulfilAgain(p) ==
  /\ Free(p)
  /\ IsFulfilled(p)
  /\ promises' = [promises EXCEPT ![p].semaphore = 0]
  /\ call' = Resume(stack)
  /\ UNCHANGED <<stack, links, passed, reused>>

FulfillWithResult(p, result) ==
  /\ Running
  /\ owned' = owned \ {p}
  /\ misfulfilled' = IF p \in owned THEN misfulfilled ELSE misfulfilled \cup {p}
  /\ Cardinality(misfulfilled') <= MaxMisfulfilled
  /\ Fulfil(p, result) \/ FulfilAgain(p) \/ Blocks(p, "application")

MutantSignalled(p) == promises
Signalled(p) == [promises EXCEPT ![p].semaphore = 1]

\* A fulfil call signals and returns.
Signal ==
  /\ call.at = "signal"
  /\ promises' = Signalled(Top.self)
  /\ stack' = Pop
  /\ call' = Resume(Pop)
  /\ UNCHANGED <<links, owned, misfulfilled, passed, reused>>

-----------------------------------------------------------------------------
(* onThen and onError                                                        *)

Linked(kind, on, next, runs) ==
  Append(links, [kind |-> kind, on |-> on, next |-> next, runs |-> runs, returned |-> Nil])

\* On a pending promise the new link takes the place of whatever was there.
LinkPending(p, kind) ==
  LET j == Len(links) + 1
      q == Len(promises) + 1 IN
  /\ Free(p)
  /\ ~ IsFulfilled(p)
  /\ promises' =
       Append([promises EXCEPT ![p].next = q,
                               ![p].resultHandler = IF kind = "then" THEN j ELSE Nil,
                               ![p].errorHandler = IF kind = "error" THEN j ELSE Nil],
              NewPromise("pending"))
  /\ links' = Linked(kind, p, q, 0)
  /\ reused' = IF Spent(p) THEN reused \cup {p} ELSE reused
  /\ UNCHANGED <<call, stack, passed>>

\* On a settled promise the handler runs at once, under the semaphore.
LinkRuns(p, kind) ==
  /\ Free(p)
  /\ IsFulfilled(p)
  /\ Matches(promises[p].result, kind)
  /\ promises' = [promises EXCEPT ![p].semaphore = 0]
  /\ stack' = Append(stack, [in |-> "link", self |-> p, link |-> Len(links) + 1])
  /\ links' = Linked(kind, p, Nil, 1)
  /\ UNCHANGED <<call, passed, reused>>

\* onThen answers an error with the same error, onError a value with a promise
\* that nobody fulfils.
LinkPassedOver(p, kind) ==
  /\ Free(p)
  /\ IsFulfilled(p)
  /\ ~ Matches(promises[p].result, kind)
  /\ promises' = Append(promises, NewPromise(IF kind = "then" THEN "error" ELSE "pending"))
  /\ links' = Linked(kind, p, Nil, 0)
  /\ UNCHANGED <<call, stack, passed, reused>>

OnThenOrError(p, kind) ==
  /\ Running
  /\ Len(links) < MaxLinks
  /\ \/ LinkPending(p, kind) \/ LinkRuns(p, kind) \/ LinkPassedOver(p, kind)
     \/ Blocks(p, "application")
  /\ UNCHANGED <<owned, misfulfilled>>

\* The handler of a link that ran at once returns: what it returns is what the
\* link answers, or a promise that nobody fulfils.
LinkReturns(q) ==
  /\ Running
  /\ stack # << >> /\ Top.in = "link"
  /\ promises' = IF q = Nil THEN Append(Signalled(Top.self), NewPromise("pending"))
                 ELSE Signalled(Top.self)
  /\ stack' = Pop
  /\ links' = [links EXCEPT ![Top.link].returned = q]
  /\ UNCHANGED <<call, owned, misfulfilled, passed, reused>>

-----------------------------------------------------------------------------
(* triggerResultProcessing                                                   *)

AtTrigger == call.at = "trigger" /\ ~ promises[call.self].isProcessed

RunHandler ==
  LET p == call.self IN
  /\ AtTrigger
  /\ HandlerFor(p) # Nil
  /\ promises' = [promises EXCEPT ![p].isProcessed = TRUE]
  /\ stack' = Append(stack, [in |-> "handler", self |-> p, link |-> HandlerFor(p)])
  /\ links' = [links EXCEPT ![HandlerFor(p)].runs = @ + 1]
  /\ call' = Idle
  /\ UNCHANGED <<owned, misfulfilled, passed, reused>>

\* [_next fulfillWithResult:_result], under the semaphore of this call
PassErrorOn ==
  LET p == call.self IN
  /\ AtTrigger
  /\ promises[p].result = "error" /\ HandlerFor(p) = Nil /\ Continues(p)
  /\ promises' = [promises EXCEPT ![p].isProcessed = TRUE]
  /\ call' = [at |-> "pass", self |-> promises[p].next]
  /\ UNCHANGED <<stack, links, owned, misfulfilled, passed, reused>>

Passed ==
  /\ call.at = "pass"
  /\ Fulfil(call.self, "error") \/ FulfilAgain(call.self) \/ Blocks(call.self, "library")
  /\ UNCHANGED <<owned, misfulfilled>>

NothingToRun ==
  /\ call.at = "trigger"
  /\ \/ promises[call.self].isProcessed
     \/ /\ HandlerFor(call.self) = Nil
        /\ promises[call.self].result = "error" => ~ Continues(call.self)
  /\ call' = Resume(stack)
  /\ UNCHANGED <<promises, stack, links, owned, misfulfilled, passed, reused>>

\* copyHandlersFromPromise:.  A promise may have lost its next while its handler
\* ran, and a message to nil answers nil.
MutantCopied(q, from) ==
  LET source == IF from = Nil THEN NewPromise("pending") ELSE promises[from] IN
  [promises EXCEPT ![q].next = source.next, ![q].resultHandler = source.resultHandler]
Copied(q, from) ==
  LET source == IF from = Nil THEN NewPromise("pending") ELSE promises[from] IN
  [promises EXCEPT ![q].next = source.next,
                   ![q].resultHandler = source.resultHandler,
                   ![q].errorHandler = source.errorHandler]

\* if (resultPromise.isFulfilled) [resultPromise triggerResultProcessing]
MutantGoOn(q) == Resume(Pop)
GoOn(q) == IF IsFulfilled(q) THEN [at |-> "trigger", self |-> q] ELSE Resume(Pop)

\* _next, after the handler ran: it may have become another.
MutantNextOf(p) == p
NextOf(p)       == promises[p].next

\* The handler returns q, which goes on with what comes next, or nil, and
\* nothing does.
HandlerReturns(q) ==
  LET next == NextOf(Top.self) IN
  /\ Running
  /\ stack # << >> /\ Top.in = "handler"
  /\ stack' = Pop
  /\ links' = [links EXCEPT ![Top.link].returned = q]
  /\ passed' = IF next = Nil THEN passed ELSE passed \cup {<<next, q>>}
  /\ IF q = Nil
     THEN call' = Resume(Pop) /\ UNCHANGED <<promises, reused>>
     ELSE /\ promises' = Copied(q, next)
          /\ reused' = IF Spent(q) THEN reused \cup {q} ELSE reused
          /\ call' = GoOn(q)
  /\ UNCHANGED <<owned, misfulfilled>>

-----------------------------------------------------------------------------
Next ==
  \/ \E p \in Known :
       \/ \E result \in Settled : FulfillWithResult(p, result)
       \/ \E kind \in {"then", "error"} : OnThenOrError(p, kind)
  \/ \E q \in Known \cup {Nil} : HandlerReturns(q) \/ LinkReturns(q)
  \/ Signal \/ RunHandler \/ PassErrorOn \/ Passed \/ NothingToRun

Spec == Init /\ [][Next]_vars

-----------------------------------------------------------------------------
(* Properties                                                                *)

PromiseType ==
  [semaphore : {0, 1}, result : Status, isProcessed : BOOLEAN,
   next : Nat, resultHandler : Nat, errorHandler : Nat]

LinkType ==
  [kind : {"then", "error"}, on : Nat, next : Nat, runs : Nat, returned : Nat]

FrameType ==
  [in : {"fulfil"}, self : Nat] \cup [in : {"handler", "link"}, self : Nat, link : Nat]

CallType ==
  [at : {"application", "signal"}] \cup [at : {"trigger", "pass"}, self : Nat]
    \cup [at : {"wait"}, self : Nat, by : {"application", "library"}]

\* Whatever refers to a promise or to a link refers to one there is.
PromiseRefers(p) ==
  /\ promises[p].next \in Known \cup {Nil}
  /\ {promises[p].resultHandler, promises[p].errorHandler} \subseteq Link \cup {Nil}

LinkRefers(j) ==
  links[j].on \in Known /\ {links[j].next, links[j].returned} \subseteq Known \cup {Nil}

FrameRefers(k) ==
  stack[k].self \in Known /\ (stack[k].in # "fulfil" => stack[k].link \in Link)

CallRefers == call.at \in {"trigger", "pass", "wait"} => call.self \in Known

HistoryRefers ==
  /\ owned \cup misfulfilled \cup reused \subseteq Known
  /\ passed \subseteq Known \X (Known \cup {Nil})

References ==
  /\ \A p \in Known : PromiseRefers(p)
  /\ \A j \in Link : LinkRefers(j)
  /\ \A k \in DOMAIN stack : FrameRefers(k)
  /\ CallRefers
  /\ HistoryRefers

\* What the library goes on with is there to go on with.
CallFits ==
  /\ call.at = "signal" => stack # << >> /\ Top.in = "fulfil"
  /\ call.at = "trigger" => IsFulfilled(call.self)

\* The link whose continuation a promise has, or Nil.
Carried(p) ==
  IF promises[p].resultHandler # Nil THEN promises[p].resultHandler ELSE promises[p].errorHandler

\* A promise has all of a link or nothing of it: the next promise, and the handler
\* in the place that is for its kind.  Only a settled promise is processed.
Fits(p) ==
  /\ promises[p].isProcessed => IsFulfilled(p)
  /\ Carried(p) = Nil => promises[p].next = Nil
  /\ Carried(p) # Nil =>
       LET link == links[Carried(p)] IN
       /\ link.next # Nil /\ promises[p].next = link.next
       /\ link.kind = "then" => promises[p].errorHandler = Nil
       /\ link.kind = "error" => promises[p].resultHandler = Nil

ContentFits == \A p \in Known : Fits(p)

\* The types; every reference is to a promise or a link there is; a promise that
\* has a handler has the next promise that goes with it and not the other handler.
TypeOK ==
  /\ promises \in Seq(PromiseType)
  /\ links \in Seq(LinkType)
  /\ stack \in Seq(FrameType)
  /\ call \in CallType
  /\ References
  /\ CallFits
  /\ ContentFits

\* S holds what the promises in it come from: the promise that a link is on for
\* the promise the link made, and for one whose continuation was handed on the
\* promise it was handed to.
Backed(S) ==
  /\ \A j \in Link : links[j].next \in S => links[j].on \in S
  /\ \A p, q \in Known : <<p, q>> \in passed /\ p \in S => q \in S

\* The promises that what p settles to comes through.
Path(p) == {q \in Known : \A S \in SUBSET Known : p \in S /\ Backed(S) => q \in S}

\* S holds the promises that are to settle to result, by what their links are for:
\* those that have settled to it, and of the promises a link made those that are
\* to have it from the promise the handler returned, or to be passed the error.
OwedClosed(S, result) ==
  /\ \A p \in Known : promises[p].result = result => p \in S
  /\ \A j \in Link :
       LET link == links[j] IN
       link.next # Nil /\ ~ IsFulfilled(link.next) =>
         /\ link.runs > 0 /\ link.returned \in S => link.next \in S
         /\ link.runs = 0 /\ link.kind = "then" /\ result = "error" /\ link.on \in S =>
              link.next \in S

Owed(p, result) == \A S \in SUBSET Known : OwedClosed(S, result) => p \in S

Resting == Running /\ stack = << >>

Due(j) ==
  /\ links[j].runs = 0
  /\ \E result \in Settled : Matches(result, links[j].kind) /\ Owed(links[j].on, result)

\* When the queue rests, every handler whose turn has come has run, but where a
\* promise on the way was given a continuation in place of another or after it
\* had handed its own on: lines 61-64 and 160-162 write over what is there, and
\* nothing looks at a promise again once it has been processed.
LostOnlyByReuse ==
  Resting => \A j \in Link : Due(j) => Path(links[j].on) \cap reused # {}

\* A handler runs twice only where a promise on the way was fulfilled by the
\* application that a link had made, or that was settled: copyHandlersFromPromise:
\* leaves the handlers on the promise it copies them from, and isProcessed is of
\* the promise, not of the handler.
TwiceOnlyByMisfulfil ==
  \A j \in Link :
    links[j].runs > 1 => Path(links[j].on) \cap misfulfilled # {}

\* The promises whose semaphore a call in progress has taken.
Held == {stack[i].self : i \in {k \in DOMAIN stack : stack[k].in # "handler"}}

\* The queue stops for ever only in two cases: a handler calls a promise whose
\* semaphore is taken by the call the handler runs in, or a promise on the way was
\* fulfilled twice.  The library alone, passing an error on under the semaphores
\* of the calls in progress, never waits for one of them, whatever promises the
\* handlers return.
BlockedOnlyByMisuse ==
  call.at = "wait" =>
    \/ call.by = "application" /\ call.self \in Held
    \/ Path(call.self) \cap misfulfilled # {}
=============================================================================
