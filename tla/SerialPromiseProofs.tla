-------------------------- MODULE SerialPromiseProofs --------------------------
(***************************************************************************)
(* The properties of SerialPromise, for any number of promises, links and  *)
(* misfulfilments.                                                         *)
(*                                                                         *)
(* First what each step does, promise by promise (the Does lemmas), so     *)
(* that the rest need not open the actions; then the types.  Handing says  *)
(* where each continuation is and who may run it, and is inductive with    *)
(* TypeOK alone: that a handler runs once, and that the library waits for  *)
(* nobody, follow from it.  Serving says what became of each handler, and  *)
(* is inductive on top of Handing: at rest, the results that are owed to   *)
(* handlers that ran are all that is owed.                                 *)
(***************************************************************************)
EXTENDS SerialPromise, SequenceTheorems, TLAPS

\* A promise on the way to p was fulfilled by the application that a link had made
\* or that was settled; or was given a continuation while it had one, or after that.
Misfulfil(p) == Path(p) \cap misfulfilled # {}
Reuse(p)     == Path(p) \cap reused # {}

\* A link made p: it is what onThen or onError returned.
LinkMade(p) == \E j \in Link : links[j].next = p

\* The handler of p is running.
InHandler(p) == \E k \in DOMAIN stack : stack[k].in = "handler" /\ stack[k].self = p

\* p has its continuation still to run, or is running it.
Ready(p)  == ~ promises[p].isProcessed /\ ~ HandedOn(p)

\* p runs its continuation, or is still to run it.
Active(p) == InHandler(p) \/ Ready(p)

\* Nothing happened to p yet that a result could be lost by.
Untouched(p) == promises[p].result = "pending" /\ ~ HandedOn(p)

(* Who has a continuation, and who runs it.  b is the promise a link is on, n *)
(* the promise it made.                                                       *)

\* Each link makes a promise of its own.
LinksDistinct ==
  \A i, j \in Link : links[i].next # Nil /\ links[i].next = links[j].next => i = j

\* A promise carries a link only if its result is that of the link's own promise.
CarriedOnPath ==
  \A p, b \in Known : \A j \in Link :
    Carried(p) = j /\ links[j].on = b => p \in Path(b)

\* Of the promises that carry one link only one can still run its handler.
OneActive ==
  \A p, q, b \in Known : \A j \in Link :
    Active(p) /\ Active(q) /\ Carried(p) = j /\ Carried(q) = j /\ links[j].on = b =>
      p = q \/ Misfulfil(b)

\* As long as one can, the promise the link made waits for what the handler returns.
NextUntouched ==
  \A p, n \in Known : \A j \in Link :
    Active(p) /\ Carried(p) = j /\ links[j].next = n => Misfulfil(n) \/ Untouched(n)

\* A promise that is still to run a handler is the first to run it.
NotRunYet ==
  \A p, b \in Known : \A j \in Link :
    Ready(p) /\ Carried(p) = j /\ links[j].on = b => links[j].runs = 0 \/ Misfulfil(b)

\* TwiceOnlyByMisfulfil, in terms of the promise the link is on.
RunOnce ==
  \A b \in Known : \A j \in Link :
    links[j].on = b => links[j].runs <= 1 \/ Misfulfil(b)

\* Only a promise that a link made hands its continuation on, and the library does
\* not fulfil it any more.
HandedOnOnce ==
  \A p \in Known : HandedOn(p) => LinkMade(p) /\ (IsFulfilled(p) => Misfulfil(p))

\* A promise whose handler runs was marked before, so that it runs no other.
OneFrame ==
  \A k, l \in DOMAIN stack :
    stack[k].in = "handler" =>
      /\ promises[stack[k].self].isProcessed
      /\ stack[l].in = "handler" /\ stack[l].self = stack[k].self => k = l

\* What the application owes a result is no promise of the library's.
OwnedPending ==
  \A p \in owned : promises[p].result = "pending" /\ ~ LinkMade(p)

\* A promise that is about to be processed has not handed its continuation on.
TriggerFits ==
  \A p, b \in Known : \A j \in Link :
    /\ call.at = "trigger" /\ call.self = p /\ ~ promises[p].isProcessed
    /\ Carried(p) = j /\ links[j].on = b /\ HandedOn(p)
    => Misfulfil(b)

\* An error is passed on to a promise that nobody else fulfils.
PassFits ==
  \A n \in Known :
    call.at = "pass" /\ call.self = n =>
      /\ LinkMade(n)
      /\ \/ Misfulfil(n)
         \/ /\ Untouched(n)
            /\ \A p \in Known : \A j \in Link :
                 Active(p) /\ Carried(p) = j => links[j].next # n

\* A semaphore that is taken is held by a call, or lost by a second fulfil.
Semaphores ==
  \A p \in Known :
    /\ p \in Held => IsFulfilled(p)
    /\ ~ Free(p) => p \in Held \/ Misfulfil(p)

\* A call that waits is the application's, inside a call that holds the semaphore;
\* or it waits for a semaphore lost before.
WaitFits ==
  \A p \in Known :
    call.at = "wait" /\ call.self = p =>
      (call.by = "application" /\ p \in Held) \/ Misfulfil(p)

\* Where every continuation is, and who may run it.
Handing ==
  /\ LinksDistinct /\ CarriedOnPath /\ OneActive /\ NextUntouched /\ NotRunYet /\ RunOnce
  /\ HandedOnOnce /\ OneFrame /\ OwnedPending /\ TriggerFits /\ PassFits /\ Semaphores
  /\ WaitFits

(* What became of the handlers *)

\* The handler that runs is that of a link on the way to the promise that runs it.
FramesFit ==
  \A k \in DOMAIN stack : \A x, b \in Known : \A i \in Link :
    stack[k].in # "fulfil" /\ stack[k].self = x /\ stack[k].link = i /\ links[i].on = b =>
      /\ stack[k].in = "link" => links[i].next = Nil
      /\ stack[k].in = "handler" =>
           /\ links[i].next # Nil
           /\ x \in Path(b)
           /\ x \in reused \/ Carried(x) = i

\* What a handler returned has the continuation of the promise its link made.
Returns ==
  \A n, q \in Known : \A i \in Link :
    links[i].next = n /\ links[i].returned = q =>
      Reuse(n) \/ (<<n, q>> \in passed /\ (Carried(n) = Nil \/ Carried(q) = Carried(n)))

\* A link whose handler did not run at once is still carried by its promise.
LinkedThere ==
  \A b \in Known : \A i \in Link :
    links[i].next # Nil /\ links[i].on = b => b \in reused \/ Carried(b) = i

\* A link made no promise if its promise was settled, to what it does not handle.
PassedOver ==
  \A b \in Known : \A i \in Link :
    links[i].next = Nil /\ links[i].runs = 0 /\ links[i].on = b =>
      IsFulfilled(b) /\ ~ Matches(promises[b].result, links[i].kind)

\* The handler of link j has run, if result is for it; and the error has gone by, if
\* that is for the next.
Served(j, result) ==
  /\ Matches(result, links[j].kind) => links[j].runs > 0
  /\ result = "error" /\ links[j].kind = "then" /\ links[j].runs = 0 =>
       \/ promises[links[j].next].result # "pending"
       \/ call.at \in {"pass", "wait"} /\ call.self = links[j].next

\* A settled promise has served the link it carries, or is just about to.
SettledServed ==
  \A p \in Known : \A j \in Link :
    IsFulfilled(p) /\ p \notin reused /\ Carried(p) = j =>
      \/ call.at = "trigger" /\ call.self = p /\ ~ promises[p].isProcessed
      \/ Served(j, promises[p].result)

\* What became of every handler.
Serving == FramesFit /\ Returns /\ LinkedThere /\ PassedOver /\ SettledServed

-----------------------------------------------------------------------------
(* Sequences                                                                 *)

\* What a sequence is, when something is appended, replaced or taken off.
LEMMA Appended ==
  ASSUME NEW T, NEW s \in Seq(T), NEW e \in T
  PROVE  /\ Append(s, e) \in Seq(T)
         /\ Len(s) + 1 \in Nat \ {0} /\ Len(s) + 1 \notin DOMAIN s
         /\ DOMAIN Append(s, e) = DOMAIN s \cup {Len(s) + 1}
         /\ \A i \in DOMAIN s : Append(s, e)[i] = s[i]
         /\ Append(s, e)[Len(s) + 1] = e
         /\ Len(Append(s, e)) = Len(s) + 1
<1>1. /\ Append(s, e) \in Seq(T)
      /\ Len(Append(s, e)) = Len(s) + 1
      /\ \A i \in 1 .. Len(s) : Append(s, e)[i] = s[i]
      /\ Append(s, e)[Len(s) + 1] = e
  BY AppendProperties
<1>2. Len(s) \in Nat /\ DOMAIN s = 1 .. Len(s) /\ DOMAIN Append(s, e) = 1 .. Len(Append(s, e))
  BY <1>1, LenProperties
<1> QED
  BY <1>1, <1>2

LEMMA Replaced ==
  ASSUME NEW T, NEW s \in Seq(T), NEW i \in DOMAIN s, NEW e \in T
  PROVE  /\ [s EXCEPT ![i] = e] \in Seq(T)
         /\ DOMAIN [s EXCEPT ![i] = e] = DOMAIN s
         /\ Len([s EXCEPT ![i] = e]) = Len(s)
         /\ \A k \in DOMAIN s : [s EXCEPT ![i] = e][k] = IF k = i THEN e ELSE s[k]
<1>1. /\ [s EXCEPT ![i] = e] \in Seq(T)
      /\ Len([s EXCEPT ![i] = e]) = Len(s)
  BY ExceptSeq, LenProperties
<1> QED
  BY <1>1

LEMMA Indexed ==
  ASSUME NEW T, NEW s \in Seq(T)
  PROVE  /\ Len(s) \in Nat /\ DOMAIN s = 1 .. Len(s)
         /\ Nil \notin DOMAIN s /\ DOMAIN s \subseteq Nat
         /\ \A i \in DOMAIN s : s[i] \in T
         /\ s # << >> => Len(s) \in DOMAIN s
  BY LenProperties, ElementOfSeq, EmptySeq DEF Nil

LEMMA Popped ==
  ASSUME stack \in Seq(FrameType), stack # << >>
  PROVE  /\ Pop \in Seq(FrameType)
         /\ Len(stack) \in DOMAIN stack /\ Top = stack[Len(stack)]
         /\ DOMAIN Pop = DOMAIN stack \ {Len(stack)}
         /\ Len(stack) \in Nat
         /\ \A k \in DOMAIN Pop : Pop[k] = stack[k]
<1>1. Len(stack) \in Nat \ {0} /\ DOMAIN stack = 1 .. Len(stack)
  BY LenProperties, EmptySeq
<1>2. /\ Pop \in Seq(FrameType)
      /\ Len(Pop) = Len(stack) - 1
      /\ \A i \in 1 .. Len(stack) - 1 : Pop[i] = stack[i]
  <2> DEFINE n == Len(stack) - 1
  <2>1. n \in Nat /\ n - 1 + 1 = n /\ \A i \in 1 .. n : 1 + i - 1 = i
    BY <1>1
  <2>2. \A i \in 1 .. n : stack[i] \in FrameType
    BY <1>1, ElementOfSeq
  <2>3. /\ SubSeq(stack, 1, n) \in Seq(FrameType)
        /\ Len(SubSeq(stack, 1, n)) = IF 1 <= n THEN n - 1 + 1 ELSE 0
        /\ \A i \in 1 .. n - 1 + 1 : SubSeq(stack, 1, n)[i] = stack[1 + i - 1]
    BY <2>1, <2>2, SubSeqProperties
  <2>4. Pop = SubSeq(stack, 1, n)
    BY DEF Pop
  <2> HIDE DEF n
  <2>5. /\ Pop \in Seq(FrameType)
        /\ Len(Pop) = n
        /\ \A i \in 1 .. n : Pop[i] = stack[i]
    BY <2>1, <2>3, <2>4
  <2> QED
    BY <2>5 DEF n
<1>3. DOMAIN Pop = 1 .. Len(stack) - 1
  BY <1>1, <1>2, LenProperties
<1> QED
  BY <1>1, <1>2, <1>3 DEF Top

-----------------------------------------------------------------------------
(* What each step does, promise by promise                                   *)

\* The continuation of p is what it was.
SameContent(p) ==
  /\ promises'[p].next = promises[p].next
  /\ promises'[p].resultHandler = promises[p].resultHandler
  /\ promises'[p].errorHandler = promises[p].errorHandler

\* Only the semaphores of the promises in S change, to value.
OnlySemaphores(S, value) ==
  /\ promises' \in Seq(PromiseType)
  /\ Known' = Known
  /\ \A x \in Known :
       /\ promises'[x].semaphore = IF x \in S THEN value ELSE promises[x].semaphore
       /\ promises'[x].result = promises[x].result
       /\ promises'[x].isProcessed = promises[x].isProcessed
       /\ SameContent(x)

\* The step begins a call, which is what frame says.
Pushed(frame) ==
  /\ stack' \in Seq(FrameType)
  /\ Len(stack) + 1 \notin DOMAIN stack
  /\ DOMAIN stack' = DOMAIN stack \cup {Len(stack) + 1}
  /\ \A k \in DOMAIN stack : stack'[k] = stack[k]
  /\ stack'[Len(stack) + 1] = frame
  /\ Len(stack') = Len(stack) + 1

\* The innermost call ends.
TakenOff ==
  /\ stack # << >> /\ stack' = Pop
  /\ stack' \in Seq(FrameType)
  /\ Len(stack) \in DOMAIN stack /\ Top = stack[Len(stack)]
  /\ DOMAIN stack' = DOMAIN stack \ {Len(stack)}
  /\ \A k \in DOMAIN stack' : stack'[k] = stack[k]

LEMMA Pushing ==
  ASSUME TypeOK, NEW frame \in FrameType, stack' = Append(stack, frame)
  PROVE  Pushed(frame)
<1>1. stack \in Seq(FrameType)
  BY DEF TypeOK
<1> HIDE DEF FrameType
<1> QED
  BY <1>1, Appended DEF Pushed

LEMMA TakingOff ==
  ASSUME TypeOK, stack # << >>, stack' = Pop
  PROVE  TakenOff
BY Popped DEF TypeOK, TakenOff

LEMMA PromiseIsTyped ==
  ASSUME TypeOK, NEW p \in Known
  PROVE  /\ promises[p] \in PromiseType
         /\ p \in Nat \ {0} /\ p # Nil /\ DOMAIN promises = Known
BY Indexed DEF TypeOK, Known, Nil

LEMMA LinkIsTyped ==
  ASSUME TypeOK, NEW j \in Link
  PROVE  links[j] \in LinkType /\ j \in Nat \ {0} /\ j # Nil /\ DOMAIN links = Link
BY Indexed DEF TypeOK, Link, Nil

\* A step that gives promise p a new state changes no other.
LEMMA PromiseReplaced ==
  ASSUME TypeOK, NEW p \in Known, NEW e \in PromiseType,
         promises' = [promises EXCEPT ![p] = e]
  PROVE  /\ promises' \in Seq(PromiseType) /\ Known' = Known
         /\ \A x \in Known : promises'[x] = IF x = p THEN e ELSE promises[x]
         /\ Len(promises') = Len(promises)
<1>1. promises \in Seq(PromiseType) /\ p \in DOMAIN promises
  BY DEF TypeOK, Known
<1> HIDE DEF PromiseType
<1> QED
  BY <1>1, Replaced DEF Known

LEMMA FulfilDoes ==
  ASSUME TypeOK, NEW p \in Known, NEW result \in Settled, Fulfil(p, result)
  PROVE  /\ Free(p) /\ promises[p].result = "pending"
         /\ promises' \in Seq(PromiseType) /\ Known' = Known
         /\ \A x \in Known :
              /\ promises'[x].semaphore = IF x = p THEN 0 ELSE promises[x].semaphore
              /\ promises'[x].result = IF x = p THEN result ELSE promises[x].result
              /\ promises'[x].isProcessed = promises[x].isProcessed
              /\ SameContent(x)
         /\ Pushed([in |-> "fulfil", self |-> p])
         /\ call' = IF Continues(p) THEN [at |-> "trigger", self |-> p] ELSE [at |-> "signal"]
         /\ UNCHANGED <<links, passed, reused>>
<1> DEFINE e == [promises[p] EXCEPT !.semaphore = 0, !.result = result]
<1>1. promises[p] \in PromiseType /\ p \in Nat
  BY PromiseIsTyped
<1>2. /\ e \in PromiseType /\ e.semaphore = 0 /\ e.result = result
      /\ e.isProcessed = promises[p].isProcessed /\ e.next = promises[p].next
      /\ e.resultHandler = promises[p].resultHandler /\ e.errorHandler = promises[p].errorHandler
  BY <1>1 DEF PromiseType, Status
<1>3. promises' = [promises EXCEPT ![p] = e]
  BY DEF Fulfil, Known
<1> HIDE DEF e
<1>4. /\ promises' \in Seq(PromiseType) /\ Known' = Known
      /\ \A x \in Known : promises'[x] = IF x = p THEN e ELSE promises[x]
  BY <1>2, <1>3, PromiseReplaced
<1>5. [in |-> "fulfil", self |-> p] \in FrameType
  BY <1>1 DEF FrameType
<1>6. Pushed([in |-> "fulfil", self |-> p])
  BY <1>5, Pushing DEF Fulfil
<1>7. \A x \in Known :
        /\ promises'[x].semaphore = IF x = p THEN 0 ELSE promises[x].semaphore
        /\ promises'[x].result = IF x = p THEN result ELSE promises[x].result
        /\ promises'[x].isProcessed = promises[x].isProcessed
        /\ SameContent(x)
  BY <1>2, <1>4 DEF SameContent
<1>8. Free(p) /\ promises[p].result = "pending"
  BY DEF Fulfil, IsFulfilled
<1>9. /\ call' = IF Continues(p) THEN [at |-> "trigger", self |-> p] ELSE [at |-> "signal"]
      /\ UNCHANGED <<links, passed, reused>>
  BY DEF Fulfil
<1> QED
  BY <1>4, <1>6, <1>7, <1>8, <1>9

LEMMA FulfilAgainDoes ==
  ASSUME TypeOK, NEW p \in Known, FulfilAgain(p)
  PROVE  /\ Free(p) /\ IsFulfilled(p)
         /\ OnlySemaphores({p}, 0)
         /\ call' = Resume(stack)
         /\ UNCHANGED <<stack, links, passed, reused>>
<1> DEFINE e == [promises[p] EXCEPT !.semaphore = 0]
<1>1. promises[p] \in PromiseType
  BY PromiseIsTyped
<1>2. /\ e \in PromiseType /\ e.semaphore = 0 /\ e.result = promises[p].result
      /\ e.isProcessed = promises[p].isProcessed /\ e.next = promises[p].next
      /\ e.resultHandler = promises[p].resultHandler /\ e.errorHandler = promises[p].errorHandler
  BY <1>1 DEF PromiseType, Status
<1>3. promises' = [promises EXCEPT ![p] = e]
  BY DEF FulfilAgain, Known
<1> HIDE DEF e
<1>4. /\ promises' \in Seq(PromiseType) /\ Known' = Known
      /\ \A x \in Known : promises'[x] = IF x = p THEN e ELSE promises[x]
  BY <1>2, <1>3, PromiseReplaced
<1> QED
  BY <1>2, <1>4 DEF FulfilAgain, SameContent, OnlySemaphores

LEMMA SignalledDoes ==
  ASSUME TypeOK, NEW p \in Known, promises' = Signalled(p)
  PROVE  OnlySemaphores({p}, 1)
<1> DEFINE e == [promises[p] EXCEPT !.semaphore = 1]
<1>1. promises[p] \in PromiseType
  BY PromiseIsTyped
<1>2. /\ e \in PromiseType /\ e.semaphore = 1 /\ e.result = promises[p].result
      /\ e.isProcessed = promises[p].isProcessed /\ e.next = promises[p].next
      /\ e.resultHandler = promises[p].resultHandler /\ e.errorHandler = promises[p].errorHandler
  BY <1>1 DEF PromiseType, Status
<1>3. promises' = [promises EXCEPT ![p] = e]
  BY DEF Signalled, Known
<1> HIDE DEF e
<1>4. /\ promises' \in Seq(PromiseType) /\ Known' = Known
      /\ \A x \in Known : promises'[x] = IF x = p THEN e ELSE promises[x]
  BY <1>2, <1>3, PromiseReplaced
<1> QED
  BY <1>2, <1>4 DEF SameContent, OnlySemaphores

\* One promise more, as +promise makes it.
LEMMA PromiseMade ==
  ASSUME NEW s \in Seq(PromiseType), NEW status \in Status,
         promises' = Append(s, NewPromise(status))
  PROVE  /\ promises' \in Seq(PromiseType)
         /\ Len(s) + 1 \in Nat \ {0} /\ Len(s) + 1 \notin DOMAIN s
         /\ Known' = DOMAIN s \cup {Len(s) + 1}
         /\ \A x \in DOMAIN s : promises'[x] = s[x]
         /\ promises'[Len(s) + 1] = NewPromise(status)
<1>1. NewPromise(status) \in PromiseType
  BY DEF NewPromise, PromiseType, Nil
<1> HIDE DEF PromiseType
<1> QED
  BY <1>1, Appended DEF Known

\* One link more.
Added(kind, on, next, runs) ==
  LET j == Len(links) + 1 IN
  /\ links' \in Seq(LinkType)
  /\ j \in Nat \ {0} /\ j \notin Link
  /\ Link' = Link \cup {j}
  /\ \A i \in Link : links'[i] = links[i]
  /\ links'[j].kind = kind /\ links'[j].on = on /\ links'[j].next = next
  /\ links'[j].runs = runs /\ links'[j].returned = Nil

LEMMA LinkAdded ==
  ASSUME TypeOK, NEW kind \in {"then", "error"}, NEW on \in Nat, NEW next \in Nat,
         NEW runs \in Nat, links' = Linked(kind, on, next, runs)
  PROVE  Added(kind, on, next, runs)
<1> DEFINE link == [kind |-> kind, on |-> on, next |-> next, runs |-> runs, returned |-> Nil]
<1>1. link \in LinkType
  BY DEF LinkType, Nil
<1>2. /\ link.kind = kind /\ link.on = on /\ link.next = next
      /\ link.runs = runs /\ link.returned = Nil
  OBVIOUS
<1>3. links \in Seq(LinkType) /\ links' = Append(links, link)
  BY DEF TypeOK, Linked
<1> HIDE DEF link
<1>4. /\ links' \in Seq(LinkType)
      /\ Len(links) + 1 \in Nat \ {0} /\ Len(links) + 1 \notin DOMAIN links
      /\ DOMAIN links' = DOMAIN links \cup {Len(links) + 1}
      /\ \A i \in DOMAIN links : links'[i] = links[i]
      /\ links'[Len(links) + 1] = link
  <2> HIDE DEF LinkType
  <2> QED
    BY <1>1, <1>3, Appended
<1> QED
  BY <1>2, <1>4 DEF Added, Link

\* A link of which only what became of its handler changes.
LinkStays(i) ==
  links'[i].kind = links[i].kind /\ links'[i].on = links[i].on /\ links'[i].next = links[i].next

LEMMA SignalDoes ==
  ASSUME TypeOK, Signal
  PROVE  /\ stack # << >> /\ Top.in = "fulfil" /\ Top.self \in Known
         /\ OnlySemaphores({Top.self}, 1)
         /\ TakenOff
         /\ call' = Resume(Pop)
         /\ UNCHANGED <<links, owned, misfulfilled, passed, reused>>
<1>1. stack # << >> /\ Top.in = "fulfil"
  BY DEF TypeOK, CallFits, Signal
<1>2. TakenOff
  BY <1>1, TakingOff DEF Signal
<1>3. Top.self \in Known
  BY <1>2 
  DEF TakenOff, TypeOK, References, PromiseRefers, LinkRefers, FrameRefers, CallRefers,
      HistoryRefers
<1>4. OnlySemaphores({Top.self}, 1)
  BY <1>3, SignalledDoes DEF Signal
<1> QED
  BY <1>1, <1>2, <1>3, <1>4 DEF Signal

LEMMA LinkPendingDoes ==
  ASSUME TypeOK, NEW p \in Known, NEW kind \in {"then", "error"}, LinkPending(p, kind)
  PROVE  LET j == Len(links) + 1
             q == Len(promises) + 1 IN
         /\ promises[p].result = "pending"
         /\ promises' \in Seq(PromiseType)
         /\ q \in Nat \ {0} /\ q \notin Known /\ Known' = Known \cup {q}
         /\ promises'[q] = NewPromise("pending")
         /\ \A x \in Known :
              /\ promises'[x].semaphore = promises[x].semaphore
              /\ promises'[x].result = promises[x].result
              /\ promises'[x].isProcessed = promises[x].isProcessed
              /\ x # p => SameContent(x)
         /\ promises'[p].next = q
         /\ promises'[p].resultHandler = IF kind = "then" THEN j ELSE Nil
         /\ promises'[p].errorHandler = IF kind = "error" THEN j ELSE Nil
         /\ Added(kind, p, q, 0)
         /\ reused' = IF Spent(p) THEN reused \cup {p} ELSE reused
         /\ UNCHANGED <<call, stack, passed>>
<1> DEFINE j == Len(links) + 1
           q == Len(promises) + 1
           e == [promises[p] EXCEPT !.next = q,
                                    !.resultHandler = IF kind = "then" THEN j ELSE Nil,
                                    !.errorHandler = IF kind = "error" THEN j ELSE Nil]
           s == [promises EXCEPT ![p] = e]
<1>1. promises[p] \in PromiseType /\ p \in Nat /\ p \in DOMAIN promises
  BY PromiseIsTyped
<1>2. promises \in Seq(PromiseType) /\ links \in Seq(LinkType)
  BY DEF TypeOK
<1>3. Len(promises) \in Nat /\ Len(links) \in Nat
  <2> HIDE DEF PromiseType, LinkType
  <2> QED
    BY <1>2, Indexed
<1>4. j \in Nat \ {0} /\ q \in Nat \ {0}
  BY <1>3
<1> HIDE DEF j, q
<1>5. /\ e \in PromiseType /\ e.semaphore = promises[p].semaphore
      /\ e.result = promises[p].result
      /\ e.isProcessed = promises[p].isProcessed /\ e.next = q
      /\ e.resultHandler = (IF kind = "then" THEN j ELSE Nil)
      /\ e.errorHandler = (IF kind = "error" THEN j ELSE Nil)
  BY <1>1, <1>4 DEF PromiseType, Status, Nil
<1>6. promises' = Append(s, NewPromise("pending"))
  BY DEF LinkPending, Known, j, q
<1> HIDE DEF e
<1>7. /\ s \in Seq(PromiseType) /\ DOMAIN s = Known /\ Len(s) = Len(promises)
      /\ \A x \in Known : s[x] = IF x = p THEN e ELSE promises[x]
  <2> HIDE DEF PromiseType
  <2> QED
    BY <1>1, <1>2, <1>5, Replaced DEF Known
<1> HIDE DEF s
<1>8. /\ promises' \in Seq(PromiseType)
      /\ q \notin Known /\ Known' = Known \cup {q}
      /\ \A x \in Known : promises'[x] = s[x]
      /\ promises'[q] = NewPromise("pending")
  BY <1>6, <1>7, PromiseMade DEF q, Status
<1>9. \A x \in Known :
        /\ promises'[x].semaphore = promises[x].semaphore
        /\ promises'[x].result = promises[x].result
        /\ promises'[x].isProcessed = promises[x].isProcessed
        /\ x # p => SameContent(x)
  BY <1>5, <1>7, <1>8 DEF SameContent
<1>10. /\ promises'[p].next = q
       /\ promises'[p].resultHandler = IF kind = "then" THEN j ELSE Nil
       /\ promises'[p].errorHandler = IF kind = "error" THEN j ELSE Nil
  BY <1>5, <1>7, <1>8
<1>11. Added(kind, p, q, 0)
  BY <1>1, <1>4, LinkAdded DEF LinkPending, q
<1>12. promises[p].result = "pending"
  BY DEF LinkPending, IsFulfilled
<1>13. /\ reused' = IF Spent(p) THEN reused \cup {p} ELSE reused
       /\ UNCHANGED <<call, stack, passed>>
  BY DEF LinkPending
<1> QED
  BY <1>4, <1>8, <1>9, <1>10, <1>11, <1>12, <1>13 DEF j, q

LEMMA LinkRunsDoes ==
  ASSUME TypeOK, NEW p \in Known, NEW kind \in {"then", "error"}, LinkRuns(p, kind)
  PROVE  LET j == Len(links) + 1 IN
         /\ IsFulfilled(p)
         /\ OnlySemaphores({p}, 0)
         /\ Pushed([in |-> "link", self |-> p, link |-> j])
         /\ Added(kind, p, Nil, 1)
         /\ UNCHANGED <<call, passed, reused>>
<1> DEFINE e == [promises[p] EXCEPT !.semaphore = 0]
<1>1. promises[p] \in PromiseType /\ p \in Nat
  BY PromiseIsTyped
<1>2. /\ e \in PromiseType /\ e.semaphore = 0 /\ e.result = promises[p].result
      /\ e.isProcessed = promises[p].isProcessed /\ e.next = promises[p].next
      /\ e.resultHandler = promises[p].resultHandler /\ e.errorHandler = promises[p].errorHandler
  BY <1>1 DEF PromiseType, Status
<1>3. promises' = [promises EXCEPT ![p] = e]
  BY DEF LinkRuns, Known
<1> HIDE DEF e
<1>4. /\ promises' \in Seq(PromiseType) /\ Known' = Known
      /\ \A x \in Known : promises'[x] = IF x = p THEN e ELSE promises[x]
  BY <1>2, <1>3, PromiseReplaced
<1>5. OnlySemaphores({p}, 0)
  BY <1>2, <1>4 DEF SameContent, OnlySemaphores
<1>6. Added(kind, p, Nil, 1)
  BY <1>1, LinkAdded DEF LinkRuns, Nil
<1>7. [in |-> "link", self |-> p, link |-> Len(links) + 1] \in FrameType
  BY <1>1, <1>6 DEF FrameType, Added
<1>8. Pushed([in |-> "link", self |-> p, link |-> Len(links) + 1])
  BY <1>7, Pushing DEF LinkRuns
<1> QED
  BY <1>5, <1>6, <1>8 DEF LinkRuns

\* The old promises as they were, but for some semaphores, and one promise more.
OneMore(S, value, status) ==
  LET q == Len(promises) + 1 IN
  /\ promises' \in Seq(PromiseType)
  /\ q \in Nat \ {0} /\ q \notin Known /\ Known' = Known \cup {q}
  /\ promises'[q] = NewPromise(status)
  /\ \A x \in Known :
       /\ promises'[x].semaphore = IF x \in S THEN value ELSE promises[x].semaphore
       /\ promises'[x].result = promises[x].result
       /\ promises'[x].isProcessed = promises[x].isProcessed
       /\ SameContent(x)

LEMMA LinkPassedOverDoes ==
  ASSUME TypeOK, NEW p \in Known, NEW kind \in {"then", "error"}, LinkPassedOver(p, kind)
  PROVE  /\ IsFulfilled(p) /\ ~ Matches(promises[p].result, kind)
         /\ OneMore({}, 1, IF kind = "then" THEN "error" ELSE "pending")
         /\ Added(kind, p, Nil, 0)
         /\ UNCHANGED <<call, stack, passed, reused>>
<1>1. promises \in Seq(PromiseType) /\ p \in Nat
  BY PromiseIsTyped DEF TypeOK
<1>2. Added(kind, p, Nil, 0)
  BY <1>1, LinkAdded DEF LinkPassedOver, Nil
<1> DEFINE status == IF kind = "then" THEN "error" ELSE "pending"
<1>3. status \in Status /\ promises' = Append(promises, NewPromise(status))
  BY DEF LinkPassedOver, Status, Settled
<1> HIDE DEF status
<1>4. OneMore({}, 1, status)
  BY <1>1, <1>3, PromiseMade DEF OneMore, SameContent, Known
<1> QED
  BY <1>2, <1>4 DEF LinkPassedOver, status

LEMMA LinkReturnsDoes ==
  ASSUME TypeOK, NEW q \in Known \cup {Nil}, LinkReturns(q)
  PROVE  LET x == Top.self
             i == Top.link IN
         /\ stack # << >> /\ Top.in = "link" /\ x \in Known /\ i \in Link
         /\ TakenOff
         /\ \/ OnlySemaphores({x}, 1)
            \/ OneMore({x}, 1, "pending")
         /\ links' \in Seq(LinkType) /\ Link' = Link
         /\ \A k \in Link : LinkStays(k) /\ links'[k].runs = links[k].runs
         /\ \A k \in Link : links'[k].returned = IF k = i THEN q ELSE links[k].returned
         /\ Running
         /\ UNCHANGED <<call, owned, misfulfilled, passed, reused>>
<1> DEFINE x == Top.self
           i == Top.link
           e == [links[i] EXCEPT !.returned = q]
           f == [promises[x] EXCEPT !.semaphore = 1]
           s == [promises EXCEPT ![x] = f]
<1>1. stack # << >> /\ Top.in = "link"
  BY DEF LinkReturns
<1>2. TakenOff
  BY <1>1, TakingOff DEF LinkReturns
<1>3. x \in Known /\ i \in Link
  BY <1>1, <1>2
  DEF TakenOff, TypeOK, References, PromiseRefers, LinkRefers, FrameRefers, CallRefers,
      HistoryRefers
<1> HIDE DEF x, i
<1>4. links[i] \in LinkType /\ q \in Nat
  BY <1>3, LinkIsTyped, PromiseIsTyped DEF Nil
<1>5. e \in LinkType /\ e.kind = links[i].kind /\ e.on = links[i].on /\ e.next = links[i].next
      /\ e.runs = links[i].runs /\ e.returned = q
  BY <1>4 DEF LinkType
<1>6. links' = [links EXCEPT ![i] = e]
  BY <1>3 DEF LinkReturns, Link, i
<1> HIDE DEF e
<1>7. links' \in Seq(LinkType) /\ Link' = Link /\ \A k \in Link : links'[k] = IF k = i THEN e ELSE links[k]
  <2>1. links \in Seq(LinkType) /\ i \in DOMAIN links
    BY <1>3 DEF TypeOK, Link
  <2> HIDE DEF LinkType
  <2> QED
    BY <1>5, <1>6, <2>1, Replaced DEF Link
<1>8. /\ \A k \in Link : LinkStays(k) /\ links'[k].runs = links[k].runs
      /\ \A k \in Link : links'[k].returned = IF k = i THEN q ELSE links[k].returned
  BY <1>5, <1>7 DEF LinkStays
<1>9. OnlySemaphores({x}, 1) \/ OneMore({x}, 1, "pending")
  <2>1. CASE q # Nil
    <3>1. promises' = Signalled(x)
      BY <2>1 DEF LinkReturns, x
    <3> QED
      BY <1>3, <3>1, SignalledDoes
  <2>2. CASE q = Nil
    <3>1. promises[x] \in PromiseType
      BY <1>3, PromiseIsTyped
    <3>2. /\ f \in PromiseType /\ f.semaphore = 1 /\ f.result = promises[x].result
          /\ f.isProcessed = promises[x].isProcessed /\ f.next = promises[x].next
          /\ f.resultHandler = promises[x].resultHandler
          /\ f.errorHandler = promises[x].errorHandler
      BY <3>1 DEF PromiseType, Status
    <3>3. promises' = Append(s, NewPromise("pending"))
      BY <1>3, <2>2 DEF LinkReturns, Signalled, Known, x
    <3> HIDE DEF f
    <3>4. /\ s \in Seq(PromiseType) /\ DOMAIN s = Known /\ Len(s) = Len(promises)
          /\ \A k \in Known : s[k] = IF k = x THEN f ELSE promises[k]
      <4>1. promises \in Seq(PromiseType) /\ x \in DOMAIN promises
        BY <1>3 DEF TypeOK, Known
      <4> HIDE DEF PromiseType
      <4> QED
        BY <3>2, <4>1, Replaced DEF Known
    <3> HIDE DEF s
    <3>5. /\ promises' \in Seq(PromiseType)
          /\ Len(promises) + 1 \in Nat \ {0} /\ Len(promises) + 1 \notin Known
          /\ Known' = Known \cup {Len(promises) + 1}
          /\ \A k \in Known : promises'[k] = s[k]
          /\ promises'[Len(promises) + 1] = NewPromise("pending")
      BY <3>3, <3>4, PromiseMade DEF Status
    <3>6. OneMore({x}, 1, "pending")
      BY <3>2, <3>4, <3>5 DEF OneMore, SameContent
    <3> QED
      BY <3>6
  <2> QED
    BY <2>1, <2>2
<1>10. Running /\ UNCHANGED <<call, owned, misfulfilled, passed, reused>>
  BY DEF LinkReturns
<1> QED
  BY <1>1, <1>2, <1>3, <1>7, <1>8, <1>9, <1>10 DEF x, i

\* Only isProcessed of p changes, to TRUE.
OnlyProcessed(p) ==
  /\ promises' \in Seq(PromiseType)
  /\ Known' = Known
  /\ promises'[p].isProcessed = TRUE
  /\ \A x \in Known :
       /\ promises'[x].semaphore = promises[x].semaphore
       /\ promises'[x].result = promises[x].result
       /\ x # p => promises'[x].isProcessed = promises[x].isProcessed
       /\ SameContent(x)

LEMMA ProcessedDoes ==
  ASSUME TypeOK, NEW p \in Known, promises' = [promises EXCEPT ![p].isProcessed = TRUE]
  PROVE  OnlyProcessed(p)
<1> DEFINE e == [promises[p] EXCEPT !.isProcessed = TRUE]
<1>1. promises[p] \in PromiseType
  BY PromiseIsTyped
<1>2. /\ e \in PromiseType /\ e.semaphore = promises[p].semaphore /\ e.result = promises[p].result
      /\ e.isProcessed = TRUE /\ e.next = promises[p].next
      /\ e.resultHandler = promises[p].resultHandler /\ e.errorHandler = promises[p].errorHandler
  BY <1>1 DEF PromiseType, Status
<1>3. promises' = [promises EXCEPT ![p] = e]
  BY DEF Known
<1> HIDE DEF e
<1>4. /\ promises' \in Seq(PromiseType) /\ Known' = Known
      /\ \A x \in Known : promises'[x] = IF x = p THEN e ELSE promises[x]
  BY <1>2, <1>3, PromiseReplaced
<1> QED
  BY <1>2, <1>4 DEF SameContent, OnlyProcessed

\* The link a promise carries fits what the promise has.
LEMMA Carrying ==
  ASSUME TypeOK, NEW p \in Known, Carried(p) # Nil
  PROVE  /\ Carried(p) \in Link
         /\ links[Carried(p)].next # Nil /\ links[Carried(p)].next = promises[p].next
         /\ promises[p].next \in Known
         /\ links[Carried(p)].kind \in {"then", "error"}
         /\ links[Carried(p)].kind = "then" =>
              promises[p].resultHandler = Carried(p) /\ promises[p].errorHandler = Nil
         /\ links[Carried(p)].kind = "error" =>
              promises[p].errorHandler = Carried(p) /\ promises[p].resultHandler = Nil
<1>1. Carried(p) \in Link
  BY DEF TypeOK, References, PromiseRefers, LinkRefers, FrameRefers, CallRefers, HistoryRefers, Carried
<1>2. links[Carried(p)] \in LinkType
  BY <1>1, LinkIsTyped
<1>3. promises[p].next \in Known \cup {Nil}
  BY DEF TypeOK, References, PromiseRefers, LinkRefers, FrameRefers, CallRefers, HistoryRefers
<1>4. /\ links[Carried(p)].next # Nil /\ links[Carried(p)].next = promises[p].next
      /\ links[Carried(p)].kind = "then" => promises[p].errorHandler = Nil
      /\ links[Carried(p)].kind = "error" => promises[p].resultHandler = Nil
  BY DEF TypeOK, ContentFits, Fits
<1> QED
  BY <1>1, <1>2, <1>3, <1>4 DEF LinkType, Carried

LEMMA NotCarrying ==
  ASSUME TypeOK, NEW p \in Known, Carried(p) = Nil
  PROVE  /\ promises[p].next = Nil
         /\ promises[p].resultHandler = Nil /\ promises[p].errorHandler = Nil
BY DEF TypeOK, ContentFits, Fits, Carried

LEMMA HandlerCarried ==
  ASSUME TypeOK, NEW p \in Known, HandlerFor(p) # Nil
  PROVE  HandlerFor(p) = Carried(p)
BY Carrying, NotCarrying DEF HandlerFor, Carried

LEMMA RunHandlerDoes ==
  ASSUME TypeOK, RunHandler
  PROVE  LET p == call.self
             i == Carried(p) IN
         /\ call.at = "trigger" /\ p \in Known /\ ~ promises[p].isProcessed
         /\ i # Nil /\ i \in Link
         /\ OnlyProcessed(p)
         /\ Pushed([in |-> "handler", self |-> p, link |-> i])
         /\ links' \in Seq(LinkType) /\ Link' = Link
         /\ \A k \in Link : LinkStays(k) /\ links'[k].returned = links[k].returned
         /\ \A k \in Link : links'[k].runs = IF k = i THEN links[k].runs + 1 ELSE links[k].runs
         /\ call' = Idle
         /\ UNCHANGED <<owned, misfulfilled, passed, reused>>
<1> DEFINE p == call.self
           i == Carried(p)
           e == [links[i] EXCEPT !.runs = @ + 1]
<1>1. call.at = "trigger" /\ ~ promises[p].isProcessed /\ HandlerFor(p) # Nil
  BY DEF RunHandler, AtTrigger
<1>2. p \in Known
  BY <1>1 DEF TypeOK, References, PromiseRefers, LinkRefers, FrameRefers, CallRefers, HistoryRefers
<1>3. HandlerFor(p) = i /\ i # Nil /\ i \in Link
  BY <1>1, <1>2, HandlerCarried, Carrying
<1>4. OnlyProcessed(p)
  BY <1>2, ProcessedDoes DEF RunHandler
<1>5. [in |-> "handler", self |-> p, link |-> i] \in FrameType
  BY <1>2, <1>3, PromiseIsTyped, LinkIsTyped DEF FrameType
<1>6. Pushed([in |-> "handler", self |-> p, link |-> i])
  BY <1>3, <1>5, Pushing DEF RunHandler
<1>7. links[i] \in LinkType
  BY <1>3, LinkIsTyped
<1>8. e \in LinkType /\ e.kind = links[i].kind /\ e.on = links[i].on /\ e.next = links[i].next
      /\ e.runs = links[i].runs + 1 /\ e.returned = links[i].returned
  BY <1>7 DEF LinkType
<1>9. links' = [links EXCEPT ![i] = e]
  BY <1>3 DEF RunHandler, Link
<1> HIDE DEF e
<1>10. links' \in Seq(LinkType) /\ Link' = Link /\ \A k \in Link : links'[k] = IF k = i THEN e ELSE links[k]
  <2>1. links \in Seq(LinkType) /\ i \in DOMAIN links
    BY <1>3 DEF TypeOK, Link
  <2> HIDE DEF LinkType
  <2> QED
    BY <1>8, <1>9, <2>1, Replaced DEF Link
<1>11. /\ \A k \in Link : LinkStays(k) /\ links'[k].returned = links[k].returned
       /\ \A k \in Link : links'[k].runs = IF k = i THEN links[k].runs + 1 ELSE links[k].runs
  BY <1>8, <1>10 DEF LinkStays
<1>12. call' = Idle /\ UNCHANGED <<owned, misfulfilled, passed, reused>>
  BY DEF RunHandler
<1> QED
  BY <1>1, <1>2, <1>3, <1>4, <1>6, <1>10, <1>11, <1>12

LEMMA PassErrorOnDoes ==
  ASSUME TypeOK, PassErrorOn
  PROVE  LET p == call.self
             i == Carried(p) IN
         /\ call.at = "trigger" /\ p \in Known /\ ~ promises[p].isProcessed
         /\ promises[p].result = "error"
         /\ i # Nil /\ i \in Link /\ links[i].kind = "then"
         /\ links[i].next # Nil /\ links[i].next \in Known
         /\ OnlyProcessed(p)
         /\ call' = [at |-> "pass", self |-> links[i].next]
         /\ UNCHANGED <<stack, links, owned, misfulfilled, passed, reused>>
<1> DEFINE p == call.self
           i == Carried(p)
<1>1. /\ call.at = "trigger" /\ ~ promises[p].isProcessed
      /\ promises[p].result = "error" /\ HandlerFor(p) = Nil /\ promises[p].next # Nil
  BY DEF PassErrorOn, AtTrigger, Continues
<1>2. p \in Known
  BY <1>1 DEF TypeOK, References, PromiseRefers, LinkRefers, FrameRefers, CallRefers, HistoryRefers
<1>3. i # Nil
  BY <1>1, <1>2, NotCarrying
<1>4. /\ i \in Link /\ links[i].next # Nil /\ links[i].next = promises[p].next
      /\ promises[p].next \in Known /\ links[i].kind = "then"
  BY <1>1, <1>2, <1>3, Carrying DEF HandlerFor
<1>5. OnlyProcessed(p)
  BY <1>2, ProcessedDoes DEF PassErrorOn
<1>6. call' = [at |-> "pass", self |-> promises[p].next]
      /\ UNCHANGED <<stack, links, owned, misfulfilled, passed, reused>>
  BY DEF PassErrorOn
<1> QED
  BY <1>1, <1>2, <1>3, <1>4, <1>5, <1>6

LEMMA HandlerReturnsDoes ==
  ASSUME TypeOK, NEW q \in Known \cup {Nil}, HandlerReturns(q)
  PROVE  LET x == Top.self
             i == Top.link
             n == promises[x].next IN
         /\ stack # << >> /\ Top.in = "handler" /\ x \in Known /\ i \in Link
         /\ n \in Known \cup {Nil}
         /\ TakenOff
         /\ links' \in Seq(LinkType) /\ Link' = Link
         /\ \A k \in Link : LinkStays(k) /\ links'[k].runs = links[k].runs
         /\ \A k \in Link : links'[k].returned = IF k = i THEN q ELSE links[k].returned
         /\ passed' = IF n = Nil THEN passed ELSE passed \cup {<<n, q>>}
         /\ promises' \in Seq(PromiseType) /\ Known' = Known
         /\ \A y \in Known :
              /\ promises'[y].semaphore = promises[y].semaphore
              /\ promises'[y].result = promises[y].result
              /\ promises'[y].isProcessed = promises[y].isProcessed
              /\ y # q => SameContent(y)
         /\ q # Nil =>
              /\ promises'[q].next = IF n = Nil THEN Nil ELSE promises[n].next
              /\ promises'[q].resultHandler = IF n = Nil THEN Nil ELSE promises[n].resultHandler
              /\ promises'[q].errorHandler = IF n = Nil THEN Nil ELSE promises[n].errorHandler
         /\ reused' = IF q # Nil /\ Spent(q) THEN reused \cup {q} ELSE reused
         /\ call' = IF q = Nil THEN Resume(Pop) ELSE GoOn(q)
         /\ Running
         /\ UNCHANGED <<owned, misfulfilled>>
<1> DEFINE x == Top.self
           i == Top.link
           n == promises[x].next
           e == [links[i] EXCEPT !.returned = q]
<1>1. stack # << >> /\ Top.in = "handler" /\ Running
  BY DEF HandlerReturns
<1>2. TakenOff
  BY <1>1, TakingOff DEF HandlerReturns
<1>3. x \in Known /\ i \in Link
  BY <1>1, <1>2
  DEF TakenOff, TypeOK, References, PromiseRefers, LinkRefers, FrameRefers, CallRefers,
      HistoryRefers
<1>4. n \in Known \cup {Nil}
  BY <1>3 DEF TypeOK, References, PromiseRefers, LinkRefers, FrameRefers, CallRefers, HistoryRefers
<1>5. links[i] \in LinkType /\ q \in Nat
  BY <1>3, LinkIsTyped, PromiseIsTyped DEF Nil
<1>6. e \in LinkType /\ e.kind = links[i].kind /\ e.on = links[i].on /\ e.next = links[i].next
      /\ e.runs = links[i].runs /\ e.returned = q
  BY <1>5 DEF LinkType
<1>7. links' = [links EXCEPT ![i] = e]
  BY <1>3 DEF HandlerReturns, Link
<1> HIDE DEF e
<1>8. links' \in Seq(LinkType) /\ Link' = Link /\ \A k \in Link : links'[k] = IF k = i THEN e ELSE links[k]
  <2>1. links \in Seq(LinkType) /\ i \in DOMAIN links
    BY <1>3 DEF TypeOK, Link
  <2> HIDE DEF LinkType, i
  <2> QED
    BY <1>6, <1>7, <2>1, Replaced DEF Link
<1>9. /\ \A k \in Link : LinkStays(k) /\ links'[k].runs = links[k].runs
      /\ \A k \in Link : links'[k].returned = IF k = i THEN q ELSE links[k].returned
  BY <1>6, <1>8 DEF LinkStays
<1>10. /\ passed' = IF n = Nil THEN passed ELSE passed \cup {<<n, q>>}
       /\ reused' = IF q # Nil /\ Spent(q) THEN reused \cup {q} ELSE reused
       /\ call' = IF q = Nil THEN Resume(Pop) ELSE GoOn(q)
       /\ UNCHANGED <<owned, misfulfilled>>
  BY DEF HandlerReturns, NextOf
<1>11. /\ promises' \in Seq(PromiseType) /\ Known' = Known
       /\ \A y \in Known :
            /\ promises'[y].semaphore = promises[y].semaphore
            /\ promises'[y].result = promises[y].result
            /\ promises'[y].isProcessed = promises[y].isProcessed
            /\ y # q => SameContent(y)
       /\ q # Nil =>
            /\ promises'[q].next = IF n = Nil THEN Nil ELSE promises[n].next
            /\ promises'[q].resultHandler = IF n = Nil THEN Nil ELSE promises[n].resultHandler
            /\ promises'[q].errorHandler = IF n = Nil THEN Nil ELSE promises[n].errorHandler
  <2>1. CASE q = Nil
    <3>1. promises' = promises
      BY <2>1 DEF HandlerReturns
    <3> QED
      BY <2>1, <3>1 DEF SameContent, Known, TypeOK
  <2>2. CASE q # Nil
    <3> DEFINE source == IF n = Nil THEN NewPromise("pending") ELSE promises[n]
               f == [promises[q] EXCEPT !.next = source.next,
                                        !.resultHandler = source.resultHandler,
                                        !.errorHandler = source.errorHandler]
    <3>1. q \in Known
      BY <2>2
    <3>2. promises[q] \in PromiseType /\ source \in PromiseType
      BY <1>4, <3>1, PromiseIsTyped DEF NewPromise, PromiseType, Status, Nil
    <3>3. promises' = [promises EXCEPT ![q] = f]
      BY <2>2, <3>1 DEF HandlerReturns, Copied, NextOf, Known
    <3>4. /\ source.next = (IF n = Nil THEN Nil ELSE promises[n].next)
          /\ source.resultHandler = (IF n = Nil THEN Nil ELSE promises[n].resultHandler)
          /\ source.errorHandler = (IF n = Nil THEN Nil ELSE promises[n].errorHandler)
      BY DEF NewPromise
    <3> HIDE DEF source
    <3>5. /\ f \in PromiseType /\ f.semaphore = promises[q].semaphore
          /\ f.result = promises[q].result /\ f.isProcessed = promises[q].isProcessed
          /\ f.next = source.next /\ f.resultHandler = source.resultHandler
          /\ f.errorHandler = source.errorHandler
      BY <3>2 DEF PromiseType, Status
    <3> HIDE DEF f
    <3>6. /\ promises' \in Seq(PromiseType) /\ Known' = Known
          /\ \A y \in Known : promises'[y] = IF y = q THEN f ELSE promises[y]
      BY <3>1, <3>3, <3>5, PromiseReplaced
    <3> QED
      BY <3>1, <3>4, <3>5, <3>6 DEF SameContent
  <2> QED
    BY <2>1, <2>2
<1> QED
  BY <1>1, <1>2, <1>3, <1>4, <1>8, <1>9, <1>10, <1>11

-----------------------------------------------------------------------------
(* The steps                                                                 *)

\* Who fulfils p, and what that says of p.
ByApplication(p) ==
  /\ Running
  /\ owned' = owned \ {p}
  /\ misfulfilled' = IF p \in owned THEN misfulfilled ELSE misfulfilled \cup {p}

ByLibrary(p) == call.at = "pass" /\ p = call.self /\ UNCHANGED <<owned, misfulfilled>>

Linking == Running /\ UNCHANGED <<owned, misfulfilled>>

Fulfils(p) == \E result \in Settled :
  Fulfil(p, result) /\ (ByApplication(p) \/ (ByLibrary(p) /\ result = "error"))

FulfilsAgain(p) == FulfilAgain(p) /\ (ByApplication(p) \/ ByLibrary(p))

Waits(p) ==
  \/ Blocks(p, "application") /\ (ByApplication(p) \/ Linking)
  \/ Blocks(p, "library") /\ ByLibrary(p)

Links(p) == \E kind \in {"then", "error"} : LinkPending(p, kind) /\ Linking
Runs(p)  == \E kind \in {"then", "error"} : LinkRuns(p, kind) /\ Linking
Skips(p) == \E kind \in {"then", "error"} : LinkPassedOver(p, kind) /\ Linking

\* The steps, by who takes them and what they do.
Step ==
  \/ \E p \in Known :
       Fulfils(p) \/ FulfilsAgain(p) \/ Waits(p) \/ Links(p) \/ Runs(p) \/ Skips(p)
  \/ \E q \in Known \cup {Nil} : HandlerReturns(q) \/ LinkReturns(q)
  \/ Signal \/ RunHandler \/ PassErrorOn \/ NothingToRun
  \/ UNCHANGED vars

LEMMA Steps ==
  ASSUME TypeOK, [Next]_vars
  PROVE  Step
<1>1. ASSUME NEW p \in Known, NEW result \in Settled, FulfillWithResult(p, result)
      PROVE  Fulfils(p) \/ FulfilsAgain(p) \/ Waits(p)
  BY <1>1 DEF FulfillWithResult, Fulfils, FulfilsAgain, Waits, ByApplication
<1>2. ASSUME NEW p \in Known, NEW kind \in {"then", "error"}, OnThenOrError(p, kind)
      PROVE  Links(p) \/ Runs(p) \/ Skips(p) \/ Waits(p)
  BY <1>2 DEF OnThenOrError, Links, Runs, Skips, Waits, Linking
<1>3. ASSUME Passed
      PROVE  \E p \in Known : Fulfils(p) \/ FulfilsAgain(p) \/ Waits(p)
  <2>1. call.self \in Known /\ ByLibrary(call.self)
    BY <1>3
    DEF Passed, TypeOK, References, PromiseRefers, LinkRefers, FrameRefers, CallRefers,
        HistoryRefers, ByLibrary
  <2>2. Fulfils(call.self) \/ FulfilsAgain(call.self) \/ Waits(call.self)
    BY <1>3, <2>1 DEF Passed, Fulfils, FulfilsAgain, Waits, Settled
  <2> QED
    BY <2>1, <2>2
<1> QED
  BY <1>1, <1>2, <1>3 DEF Next, Step

-----------------------------------------------------------------------------
(* Types                                                                     *)

\* References are to promises and links there are, from the beginning.
LEMMA TypeInit == Init => TypeOK
<1> SUFFICES ASSUME Init PROVE TypeOK
  OBVIOUS
<1>0. PICK n \in 0 .. MaxPromises : \E status \in [1 .. n -> Status] :
        /\ promises = [p \in 1 .. n |-> NewPromise(status[p])]
        /\ owned = {p \in 1 .. n : status[p] = "pending"}
  BY DEF Init
<1>1. PICK status \in [1 .. n -> Status] :
        /\ promises = [p \in 1 .. n |-> NewPromise(status[p])]
        /\ owned = {p \in 1 .. n : status[p] = "pending"}
  BY <1>0
<1>2. n \in Nat
  OBVIOUS
<1>3. \A p \in 1 .. n : NewPromise(status[p]) \in PromiseType
  BY DEF NewPromise, PromiseType, Nil
<1>4. promises \in Seq(PromiseType) /\ Known = 1 .. n
  <2> DEFINE new(p) == NewPromise(status[p])
  <2>1. \A p \in 1 .. n : new(p) \in PromiseType
    BY <1>3
  <2>2. promises = [p \in 1 .. n |-> new(p)]
    BY <1>1
  <2> HIDE DEF new, PromiseType
  <2>3. promises \in Seq(PromiseType)
    BY <1>2, <2>1, <2>2, IsASeq
  <2> QED
    BY <2>2, <2>3 DEF Known
<1>5. links = << >> /\ stack = << >> /\ Link = {} /\ DOMAIN stack = {}
  BY DEF Init, Link
<1>6. links \in Seq(LinkType) /\ stack \in Seq(FrameType)
  BY <1>5, EmptySeq
<1>7. call = [at |-> "application"] /\ call \in CallType /\ call.at = "application"
  BY DEF Init, Idle, CallType
<1>8. \A p \in Known :
        /\ promises[p].next = Nil /\ promises[p].resultHandler = Nil
        /\ promises[p].errorHandler = Nil /\ promises[p].isProcessed = FALSE
  BY <1>1, <1>4 DEF NewPromise
<1>9. References
  BY <1>1, <1>4, <1>5, <1>7, <1>8
  DEF References, PromiseRefers, LinkRefers, FrameRefers, CallRefers, HistoryRefers, Init
<1>10. CallFits
  BY <1>7 DEF CallFits
<1>11. ContentFits
  BY <1>8 DEF ContentFits, Fits, Carried
<1> QED
  BY <1>4, <1>6, <1>7, <1>9, <1>10, <1>11 DEF TypeOK

\* A call that returns goes on with the call it was made in.
LEMMA Resuming ==
  ASSUME call' = Resume(stack')
  PROVE  /\ call' \in CallType
         /\ call'.at \in {"application", "signal"}
         /\ call'.at = "signal" =>
              stack' # << >> /\ stack'[Len(stack')].in = "fulfil"
BY DEF Resume, Idle, CallType

\* What there was stays as fit as it was.
LEMMA RefersStill ==
  ASSUME TypeOK, Known \subseteq Known', Link \subseteq Link'
  PROVE  /\ \A p \in Known : SameContent(p) => PromiseRefers(p)'
         /\ \A j \in Link :
              LinkStays(j) /\ links'[j].returned \in Known' \cup {Nil} => LinkRefers(j)'
         /\ \A k \in DOMAIN stack : stack'[k] = stack[k] => FrameRefers(k)'
<1>1. /\ \A p \in Known : PromiseRefers(p)
      /\ \A j \in Link : LinkRefers(j)
      /\ \A k \in DOMAIN stack : FrameRefers(k)
  BY DEF TypeOK, References
<1>2. \A p \in Known : SameContent(p) => PromiseRefers(p)'
  BY <1>1 DEF PromiseRefers, SameContent
<1>3. \A j \in Link : LinkStays(j) /\ links'[j].returned \in Known' \cup {Nil} => LinkRefers(j)'
  BY <1>1 DEF LinkRefers, LinkStays
<1>4. \A k \in DOMAIN stack : stack'[k] = stack[k] => FrameRefers(k)'
  BY <1>1 DEF FrameRefers
<1> QED
  BY <1>2, <1>3, <1>4

LEMMA SameCarried ==
  ASSUME NEW p, SameContent(p)
  PROVE  Carried(p)' = Carried(p)
BY DEF SameContent, Carried

LEMMA FitsStill ==
  ASSUME TypeOK, NEW p \in Known, SameContent(p),
         Link \subseteq Link', \A j \in Link : LinkStays(j),
         promises'[p].isProcessed => promises'[p].result # "pending"
  PROVE  Fits(p)'
<1>1. CASE Carried(p) = Nil
  BY <1>1, NotCarrying, SameCarried DEF Fits, SameContent, IsFulfilled
<1>2. CASE Carried(p) # Nil
  <2>1. Carried(p) \in Link /\ LinkStays(Carried(p))
    BY <1>2, Carrying
  <2>2. /\ Carried(p)' = Carried(p)
        /\ links'[Carried(p)].next = links[Carried(p)].next
        /\ links'[Carried(p)].kind = links[Carried(p)].kind
    BY <2>1, SameCarried DEF LinkStays
  <2>3. Fits(p)
    BY DEF TypeOK, ContentFits
  <2> QED
    BY <1>2, <2>2, <2>3 DEF Fits, SameContent, IsFulfilled
<1> QED
  BY <1>1, <1>2

LEMMA ProcessedSettled ==
  ASSUME TypeOK, NEW p \in Known, promises[p].isProcessed
  PROVE  promises[p].result # "pending"
BY DEF TypeOK, ContentFits, Fits, IsFulfilled

\* The step keeps the promises and the links.
LEMMA LinksUntouched ==
  ASSUME TypeOK, UNCHANGED links
  PROVE  /\ Link' = Link /\ links' \in Seq(LinkType)
         /\ \A j \in Link : LinkStays(j) /\ links'[j].returned \in Known \cup {Nil}
BY DEF TypeOK, References, LinkRefers, Link, LinkStays

LEMMA StackUntouched ==
  ASSUME TypeOK, UNCHANGED stack
  PROVE  /\ DOMAIN stack' = DOMAIN stack /\ stack' \in Seq(FrameType)
         /\ \A k \in DOMAIN stack : stack'[k] = stack[k]
BY DEF TypeOK

\* How owned, misfulfilled, passed and reused may change.
LEMMA HistoryRefersStill ==
  ASSUME TypeOK, Known \subseteq Known',
         owned' \subseteq owned,
         misfulfilled' \subseteq misfulfilled \cup Known,
         reused' \subseteq reused \cup Known,
         passed' \subseteq passed \cup (Known \X (Known \cup {Nil}))
  PROVE  HistoryRefers'
<1>1. HistoryRefers
  BY DEF TypeOK, References
<1> QED
  BY <1>1 DEF HistoryRefers

LEMMA FulfilsTypes ==
  ASSUME TypeOK, NEW p \in Known, Fulfils(p)
  PROVE  TypeOK'
<1>1. PICK result \in Settled : Fulfil(p, result) /\ (ByApplication(p) \/ ByLibrary(p))
  BY DEF Fulfils
<1>2. /\ promises[p].result = "pending"
      /\ promises' \in Seq(PromiseType) /\ Known' = Known
      /\ \A x \in Known :
           /\ promises'[x].result = IF x = p THEN result ELSE promises[x].result
           /\ promises'[x].isProcessed = promises[x].isProcessed
           /\ SameContent(x)
      /\ Pushed([in |-> "fulfil", self |-> p])
      /\ call' = IF Continues(p) THEN [at |-> "trigger", self |-> p] ELSE [at |-> "signal"]
      /\ UNCHANGED <<links, passed, reused>>
  BY <1>1, FulfilDoes
<1>3. /\ Link' = Link /\ links' \in Seq(LinkType)
      /\ \A j \in Link : LinkStays(j) /\ links'[j].returned \in Known \cup {Nil}
  BY <1>2, LinksUntouched
<1>4. HistoryRefers'
  BY <1>1, <1>2, HistoryRefersStill DEF ByApplication, ByLibrary
<1>5. \A k \in DOMAIN stack' : FrameRefers(k)'
  <2>1. \A k \in DOMAIN stack : FrameRefers(k)'
    BY <1>2, <1>3, RefersStill DEF Pushed
  <2>2. \A k \in DOMAIN stack' : k = Len(stack) + 1 => FrameRefers(k)'
    BY <1>2 DEF Pushed, FrameRefers
  <2> QED
    BY <1>2, <2>1, <2>2 DEF Pushed
<1>6. CallRefers' /\ call' \in CallType
  BY <1>2, PromiseIsTyped DEF CallRefers, CallType
<1>7. References'
  BY <1>2, <1>3, <1>4, <1>5, <1>6, RefersStill DEF References
<1>8. ContentFits'
  <2>1. \A x \in Known : promises'[x].isProcessed => promises'[x].result # "pending"
    BY <1>2, ProcessedSettled DEF Settled
  <2>2. \A x \in Known : Fits(x)'
    BY <1>2, <1>3, <2>1, FitsStill
  <2> QED
    BY <1>2, <2>2 DEF ContentFits
<1>9. CallFits'
  <2>1. stack' # << >> /\ Top' = [in |-> "fulfil", self |-> p]
    BY <1>2 DEF Pushed, Top
  <2>2. IsFulfilled(p)'
    BY <1>2 DEF IsFulfilled, Settled
  <2>3. CASE Continues(p)
    BY <1>2, <2>2, <2>3 DEF CallFits
  <2>4. CASE ~ Continues(p)
    BY <1>2, <2>1, <2>4 DEF CallFits
  <2> QED
    BY <2>3, <2>4
<1> QED
  BY <1>2, <1>3, <1>6, <1>7, <1>8, <1>9 DEF TypeOK, Pushed

\* The parts of TypeOK that are about the promises and the links.
HeapOK ==
  /\ promises \in Seq(PromiseType)
  /\ links \in Seq(LinkType)
  /\ \A p \in Known : PromiseRefers(p)
  /\ \A j \in Link : LinkRefers(j)
  /\ ContentFits

StackOK == stack \in Seq(FrameType) /\ \A k \in DOMAIN stack : FrameRefers(k)
CallOK  == call \in CallType /\ CallRefers /\ CallFits

LEMMA TypesApart == TypeOK <=> HeapOK /\ StackOK /\ CallOK /\ HistoryRefers
BY DEF TypeOK, HeapOK, StackOK, CallOK, References

\* A step of the semaphores alone keeps the types.
LEMMA SemaphoresHeap ==
  ASSUME TypeOK, NEW S, NEW value, OnlySemaphores(S, value), UNCHANGED links
  PROVE  HeapOK'
<1>1. /\ Link' = Link /\ links' \in Seq(LinkType)
      /\ \A j \in Link : LinkStays(j) /\ links'[j].returned \in Known \cup {Nil}
  BY LinksUntouched
<1>2. \A x \in Known : Fits(x)'
  BY <1>1, FitsStill, ProcessedSettled DEF OnlySemaphores
<1>3. /\ \A p \in Known : PromiseRefers(p)'
      /\ \A j \in Link : LinkRefers(j)'
  BY <1>1, RefersStill DEF OnlySemaphores
<1> QED
  BY <1>1, <1>2, <1>3 DEF HeapOK, OnlySemaphores, ContentFits

\* A step that changes neither promises nor links.
LEMMA SameHeap ==
  ASSUME TypeOK, UNCHANGED <<promises, links>>
  PROVE  HeapOK' /\ Known' = Known /\ Link' = Link
<1>1. HeapOK
  BY TypesApart
<1> QED
  BY <1>1 DEF HeapOK, PromiseRefers, LinkRefers, ContentFits, Fits, Known, Link, Carried, IsFulfilled

LEMMA SameStack ==
  ASSUME TypeOK, UNCHANGED stack, Known \subseteq Known', Link \subseteq Link'
  PROVE  StackOK'
<1>1. StackOK
  BY TypesApart
<1> QED
  BY <1>1 DEF StackOK, FrameRefers

LEMMA LongerStack ==
  ASSUME TypeOK, NEW frame, Pushed(frame), Known \subseteq Known', Link \subseteq Link',
         frame.self \in Known', frame.in # "fulfil" => frame.link \in Link'
  PROVE  StackOK'
<1>1. \A k \in DOMAIN stack : FrameRefers(k)'
  BY RefersStill DEF Pushed
<1>2. \A k \in DOMAIN stack' : k = Len(stack) + 1 => FrameRefers(k)'
  BY DEF Pushed, FrameRefers
<1> QED
  BY <1>1, <1>2 DEF Pushed, StackOK

LEMMA ShorterStack ==
  ASSUME TypeOK, TakenOff, Known \subseteq Known', Link \subseteq Link'
  PROVE  StackOK'
<1>1. \A k \in DOMAIN stack' : k \in DOMAIN stack /\ FrameRefers(k)'
  BY RefersStill DEF TakenOff
<1> QED
  BY <1>1 DEF TakenOff, StackOK

LEMMA ResumedCall ==
  ASSUME call' = Resume(stack')
  PROVE  CallOK'
BY Resuming DEF CallOK, CallRefers, CallFits, Top

\* The application goes on running.
LEMMA RunningCall ==
  ASSUME Running, UNCHANGED call
  PROVE  CallOK'
BY DEF Running, Idle, CallOK, CallRefers, CallFits, CallType

LEMMA FulfilsAgainTypes ==
  ASSUME TypeOK, NEW p \in Known, FulfilsAgain(p)
  PROVE  TypeOK'
<1>1. /\ OnlySemaphores({p}, 0)
      /\ call' = Resume(stack)
      /\ UNCHANGED <<stack, links, passed, reused>>
  BY FulfilAgainDoes DEF FulfilsAgain
<1>2. HeapOK' /\ Known' = Known /\ Link' = Link
  BY <1>1, SemaphoresHeap DEF OnlySemaphores, Link
<1>3. StackOK'
  BY <1>1, <1>2, SameStack
<1>4. CallOK'
  BY <1>1, ResumedCall
<1>5. HistoryRefers'
  BY <1>1, <1>2, HistoryRefersStill DEF FulfilsAgain, ByApplication, ByLibrary
<1> QED
  BY <1>2, <1>3, <1>4, <1>5 DEF TypeOK, HeapOK, StackOK, CallOK, References

LEMMA WaitsTypes ==
  ASSUME TypeOK, NEW p \in Known, Waits(p)
  PROVE  TypeOK'
<1>1. PICK caller \in {"application", "library"} : Blocks(p, caller)
  BY DEF Waits
<1>2. HeapOK' /\ Known' = Known /\ Link' = Link
  BY <1>1, SameHeap DEF Blocks
<1>3. StackOK'
  BY <1>1, <1>2, SameStack DEF Blocks
<1>4. CallOK'
  <2>1. call' = [at |-> "wait", self |-> p, by |-> caller] /\ p \in Nat
    BY <1>1, PromiseIsTyped DEF Blocks
  <2> QED
    BY <1>2, <2>1 DEF CallOK, CallRefers, CallFits, CallType
<1>5. HistoryRefers'
  BY <1>1, <1>2, HistoryRefersStill DEF Waits, Blocks, ByApplication, ByLibrary, Linking
<1> QED
  BY <1>2, <1>3, <1>4, <1>5 DEF TypeOK, HeapOK, StackOK, CallOK, References

LEMMA SignalTypes ==
  ASSUME TypeOK, Signal
  PROVE  TypeOK'
<1>1. /\ OnlySemaphores({Top.self}, 1)
      /\ TakenOff
      /\ call' = Resume(Pop)
      /\ UNCHANGED <<links, owned, misfulfilled, passed, reused>>
  BY SignalDoes
<1>2. HeapOK' /\ Known' = Known /\ Link' = Link
  BY <1>1, SemaphoresHeap DEF OnlySemaphores, Link
<1>3. StackOK'
  BY <1>1, <1>2, ShorterStack
<1>4. CallOK'
  BY <1>1, ResumedCall DEF TakenOff
<1>5. HistoryRefers'
  BY <1>1, <1>2, HistoryRefersStill
<1> QED
  BY <1>2, <1>3, <1>4, <1>5 DEF TypeOK, HeapOK, StackOK, CallOK, References

LEMMA NothingToRunTypes ==
  ASSUME TypeOK, NothingToRun
  PROVE  TypeOK'
<1>1. call' = Resume(stack) /\ UNCHANGED <<promises, stack, links, owned, misfulfilled, passed, reused>>
  BY DEF NothingToRun
<1>2. HeapOK' /\ Known' = Known /\ Link' = Link
  BY <1>1, SameHeap
<1>3. StackOK'
  BY <1>1, <1>2, SameStack
<1>4. CallOK'
  BY <1>1, ResumedCall
<1>5. HistoryRefers'
  BY <1>1, <1>2, HistoryRefersStill
<1> QED
  BY <1>2, <1>3, <1>4, <1>5 DEF TypeOK, HeapOK, StackOK, CallOK, References

LEMMA AddedLinks ==
  ASSUME TypeOK, NEW kind \in {"then", "error"}, NEW on \in Known, NEW next, NEW runs,
         Added(kind, on, next, runs), Known \subseteq Known', next \in Known' \cup {Nil}
  PROVE  /\ \A j \in Link : LinkStays(j) /\ links'[j].returned = links[j].returned
         /\ Link \subseteq Link'
         /\ \A j \in Link' : LinkRefers(j)'
<1>1. \A j \in Link : links[j].returned \in Known \cup {Nil}
  BY DEF TypeOK, References, LinkRefers
<1>2. \A j \in Link : LinkRefers(j)'
  BY <1>1, RefersStill DEF Added, LinkStays
<1>3. \A j \in Link' : j = Len(links) + 1 => LinkRefers(j)'
  BY DEF Added, LinkRefers
<1> QED
  BY <1>2, <1>3 DEF Added, LinkStays

LEMMA RunsTypes ==
  ASSUME TypeOK, NEW p \in Known, Runs(p)
  PROVE  TypeOK'
<1>1. PICK kind \in {"then", "error"} : LinkRuns(p, kind) /\ Linking
  BY DEF Runs
<1>2. /\ OnlySemaphores({p}, 0)
      /\ Pushed([in |-> "link", self |-> p, link |-> Len(links) + 1])
      /\ Added(kind, p, Nil, 1)
      /\ UNCHANGED <<call, passed, reused>>
  BY <1>1, LinkRunsDoes
<1>3. Known' = Known /\ promises' \in Seq(PromiseType)
  BY <1>2 DEF OnlySemaphores
<1>4. /\ \A j \in Link : LinkStays(j)
      /\ Link \subseteq Link'
      /\ \A j \in Link' : LinkRefers(j)'
  BY <1>2, <1>3, AddedLinks
<1>5. HeapOK'
  <2>1. \A x \in Known : Fits(x)'
    BY <1>2, <1>4, FitsStill, ProcessedSettled DEF OnlySemaphores
  <2>2. \A x \in Known : PromiseRefers(x)'
    BY <1>2, <1>3, <1>4, RefersStill DEF OnlySemaphores
  <2> QED
    BY <1>2, <1>3, <1>4, <2>1, <2>2 DEF HeapOK, ContentFits, Added
<1>6. StackOK'
  <2>1. Len(links) + 1 \in Link'
    BY <1>2 DEF Added
  <2> QED
    BY <1>2, <1>3, <1>4, <2>1, LongerStack
<1>7. CallOK'
  BY <1>1, <1>2, RunningCall DEF Linking
<1>8. HistoryRefers'
  BY <1>1, <1>2, <1>3, HistoryRefersStill DEF Linking
<1> QED
  BY <1>5, <1>6, <1>7, <1>8 DEF TypeOK, HeapOK, StackOK, CallOK, References

LEMMA NewPromiseFits ==
  ASSUME NEW q \in Known', NEW status, promises'[q] = NewPromise(status)
  PROVE  Fits(q)' /\ PromiseRefers(q)' /\ Carried(q)' = Nil /\ promises'[q].isProcessed = FALSE
BY DEF NewPromise, Fits, PromiseRefers, Carried

LEMMA OneMoreHeap ==
  ASSUME TypeOK, NEW S, NEW value, NEW status, OneMore(S, value, status),
         links' \in Seq(LinkType), Link \subseteq Link', \A j \in Link : LinkStays(j),
         \A j \in Link' : LinkRefers(j)'
  PROVE  HeapOK'
<1>1. \A x \in Known : Fits(x)'
  BY FitsStill, ProcessedSettled DEF OneMore
<1>2. \A x \in Known : PromiseRefers(x)'
  BY RefersStill DEF OneMore
<1>3. \A x \in Known' : x = Len(promises) + 1 => Fits(x)' /\ PromiseRefers(x)'
  BY NewPromiseFits DEF OneMore
<1> QED
  BY <1>1, <1>2, <1>3 DEF HeapOK, ContentFits, OneMore

LEMMA SkipsTypes ==
  ASSUME TypeOK, NEW p \in Known, Skips(p)
  PROVE  TypeOK'
<1>1. PICK kind \in {"then", "error"} : LinkPassedOver(p, kind) /\ Linking
  BY DEF Skips
<1>2. PICK status : OneMore({}, 1, status)
  BY <1>1, LinkPassedOverDoes
<1>3. Added(kind, p, Nil, 0) /\ UNCHANGED <<call, stack, passed, reused>>
  BY <1>1, LinkPassedOverDoes
<1>4. Known \subseteq Known'
  BY <1>2 DEF OneMore
<1>5. /\ \A j \in Link : LinkStays(j)
      /\ Link \subseteq Link'
      /\ \A j \in Link' : LinkRefers(j)'
  BY <1>3, <1>4, AddedLinks
<1>6. HeapOK'
  BY <1>2, <1>3, <1>5, OneMoreHeap DEF Added
<1>7. StackOK'
  BY <1>3, <1>4, <1>5, SameStack
<1>8. CallOK'
  BY <1>1, <1>3, RunningCall DEF Linking
<1>9. HistoryRefers'
  BY <1>1, <1>3, <1>4, HistoryRefersStill DEF Linking
<1> QED
  BY <1>6, <1>7, <1>8, <1>9 DEF TypeOK, HeapOK, StackOK, CallOK, References

LEMMA LinkReturnsTypes ==
  ASSUME TypeOK, NEW q \in Known \cup {Nil}, LinkReturns(q)
  PROVE  TypeOK'
<1>1. /\ TakenOff
      /\ OnlySemaphores({Top.self}, 1) \/ OneMore({Top.self}, 1, "pending")
      /\ links' \in Seq(LinkType) /\ Link' = Link
      /\ \A k \in Link : LinkStays(k)
      /\ \A k \in Link : links'[k].returned = IF k = Top.link THEN q ELSE links[k].returned
      /\ Running
      /\ UNCHANGED <<call, owned, misfulfilled, passed, reused>>
  BY LinkReturnsDoes
<1>2. Known \subseteq Known'
  BY <1>1 DEF OnlySemaphores, OneMore
<1>3. \A k \in Link' : LinkRefers(k)'
  <2>1. \A k \in Link : links[k].returned \in Known \cup {Nil}
    BY DEF TypeOK, References, LinkRefers
  <2> QED
    BY <1>1, <1>2, <2>1, RefersStill
<1>4. HeapOK'
  <2>1. CASE OnlySemaphores({Top.self}, 1)
    <3>1. \A x \in Known : Fits(x)'
      BY <1>1, <2>1, FitsStill, ProcessedSettled DEF OnlySemaphores
    <3>2. \A x \in Known : PromiseRefers(x)'
      BY <1>1, <2>1, RefersStill DEF OnlySemaphores
    <3> QED
      BY <1>1, <1>3, <2>1, <3>1, <3>2 DEF HeapOK, ContentFits, OnlySemaphores
  <2>2. CASE OneMore({Top.self}, 1, "pending")
    BY <1>1, <1>3, <2>2, OneMoreHeap
  <2> QED
    BY <1>1, <2>1, <2>2
<1>5. StackOK'
  BY <1>1, <1>2, ShorterStack
<1>6. CallOK'
  BY <1>1, RunningCall
<1>7. HistoryRefers'
  BY <1>1, <1>2, HistoryRefersStill
<1> QED
  BY <1>4, <1>5, <1>6, <1>7 DEF TypeOK, HeapOK, StackOK, CallOK, References

LEMMA LinksTypes ==
  ASSUME TypeOK, NEW p \in Known, Links(p)
  PROVE  TypeOK'
<1> DEFINE j == Len(links) + 1
           q == Len(promises) + 1
<1>1. PICK kind \in {"then", "error"} : LinkPending(p, kind) /\ Linking
  BY DEF Links
<1>2. /\ promises[p].result = "pending"
      /\ promises' \in Seq(PromiseType)
      /\ q \in Nat \ {0} /\ q \notin Known /\ Known' = Known \cup {q}
      /\ promises'[q] = NewPromise("pending")
      /\ \A x \in Known :
           /\ promises'[x].result = promises[x].result
           /\ promises'[x].isProcessed = promises[x].isProcessed
           /\ x # p => SameContent(x)
      /\ promises'[p].next = q
      /\ promises'[p].resultHandler = IF kind = "then" THEN j ELSE Nil
      /\ promises'[p].errorHandler = IF kind = "error" THEN j ELSE Nil
      /\ Added(kind, p, q, 0)
      /\ reused' = IF Spent(p) THEN reused \cup {p} ELSE reused
      /\ UNCHANGED <<call, stack, passed>>
  BY <1>1, LinkPendingDoes
<1> HIDE DEF q
<1>3. /\ \A k \in Link : LinkStays(k)
      /\ Link \subseteq Link' /\ Known \subseteq Known'
      /\ \A k \in Link' : LinkRefers(k)'
  BY <1>2, AddedLinks
<1>4. /\ j \in Nat \ {0} /\ j \in Link'
      /\ links'[j].next = q /\ links'[j].kind = kind
  BY <1>2 DEF Added
<1> HIDE DEF j
<1>5. Fits(p)' /\ PromiseRefers(p)'
  <2>1. q # Nil /\ j # Nil /\ q \in Known'
    BY <1>2, <1>4 DEF Nil
  <2>2. promises'[p].isProcessed => promises'[p].result # "pending"
    BY <1>2, ProcessedSettled
  <2>3. PromiseRefers(p)'
    BY <1>2, <1>4, <2>1 DEF PromiseRefers
  <2>4. Carried(p)' = j
    BY <1>2, <2>1 DEF Carried
  <2> QED
    BY <1>2, <1>4, <2>1, <2>2, <2>3, <2>4 DEF Fits, IsFulfilled
<1>6. \A x \in Known : x # p => Fits(x)' /\ PromiseRefers(x)'
  BY <1>2, <1>3, FitsStill, RefersStill, ProcessedSettled
<1>7. \A x \in Known' : x = q => Fits(x)' /\ PromiseRefers(x)'
  BY <1>2, NewPromiseFits
<1>8. HeapOK'
  BY <1>2, <1>3, <1>5, <1>6, <1>7 DEF HeapOK, ContentFits, Added
<1>9. StackOK'
  BY <1>2, <1>3, SameStack
<1>10. CallOK'
  BY <1>1, <1>2, RunningCall DEF Linking
<1>11. HistoryRefers'
  BY <1>1, <1>2, <1>3, HistoryRefersStill DEF Linking
<1> QED
  BY <1>8, <1>9, <1>10, <1>11 DEF TypeOK, HeapOK, StackOK, CallOK, References

LEMMA ProcessedHeap ==
  ASSUME TypeOK, NEW p \in Known, OnlyProcessed(p), IsFulfilled(p),
         links' \in Seq(LinkType), Link' = Link, \A j \in Link : LinkStays(j),
         \A j \in Link : links'[j].returned = links[j].returned
  PROVE  HeapOK'
<1>1. \A x \in Known : promises'[x].isProcessed => promises'[x].result # "pending"
  BY ProcessedSettled DEF OnlyProcessed, IsFulfilled
<1>2. \A x \in Known : Fits(x)'
  BY <1>1, FitsStill DEF OnlyProcessed
<1>3. \A j \in Link : links[j].returned \in Known \cup {Nil}
  BY DEF TypeOK, References, LinkRefers
<1>4. \A x \in Known : PromiseRefers(x)'
  BY RefersStill DEF OnlyProcessed
<1>5. \A j \in Link : LinkRefers(j)'
  BY <1>3, RefersStill DEF OnlyProcessed
<1> QED
  BY <1>2, <1>4, <1>5 DEF HeapOK, ContentFits, OnlyProcessed

\* What triggers its handlers has settled.
LEMMA TriggerSettled ==
  ASSUME TypeOK, call.at = "trigger"
  PROVE  IsFulfilled(call.self) /\ call.self \in Known
BY DEF TypeOK, CallFits, References, CallRefers

LEMMA RunHandlerTypes ==
  ASSUME TypeOK, RunHandler
  PROVE  TypeOK'
<1> DEFINE p == call.self
           i == Carried(p)
<1>1. /\ call.at = "trigger" /\ p \in Known
      /\ i \in Link
      /\ OnlyProcessed(p)
      /\ Pushed([in |-> "handler", self |-> p, link |-> i])
      /\ links' \in Seq(LinkType) /\ Link' = Link
      /\ \A k \in Link : LinkStays(k) /\ links'[k].returned = links[k].returned
      /\ call' = Idle
      /\ UNCHANGED <<owned, misfulfilled, passed, reused>>
  BY RunHandlerDoes
<1>2. Known' = Known
  BY <1>1 DEF OnlyProcessed
<1>3. HeapOK'
  BY <1>1, ProcessedHeap, TriggerSettled
<1>4. StackOK'
  BY <1>1, <1>2, LongerStack
<1>5. CallOK'
  BY <1>1 DEF Idle, CallOK, CallRefers, CallFits, CallType
<1>6. HistoryRefers'
  BY <1>1, <1>2, HistoryRefersStill
<1> QED
  BY <1>3, <1>4, <1>5, <1>6 DEF TypeOK, HeapOK, StackOK, CallOK, References

LEMMA PassErrorOnTypes ==
  ASSUME TypeOK, PassErrorOn
  PROVE  TypeOK'
<1> DEFINE p == call.self
           n == links[Carried(p)].next
<1>1. /\ call.at = "trigger" /\ p \in Known
      /\ n \in Known
      /\ OnlyProcessed(p)
      /\ call' = [at |-> "pass", self |-> n]
      /\ UNCHANGED <<stack, links, owned, misfulfilled, passed, reused>>
  BY PassErrorOnDoes
<1>2. Known' = Known /\ n \in Nat
  BY <1>1, PromiseIsTyped DEF OnlyProcessed
<1>3. Link' = Link /\ links' \in Seq(LinkType)
      /\ \A j \in Link : LinkStays(j) /\ links'[j].returned = links[j].returned
  BY <1>1, LinksUntouched
<1>4. HeapOK'
  BY <1>1, <1>3, ProcessedHeap, TriggerSettled
<1>5. StackOK'
  BY <1>1, <1>2, <1>3, SameStack
<1>6. CallOK'
  BY <1>1, <1>2 DEF CallOK, CallRefers, CallFits, CallType
<1>7. HistoryRefers'
  BY <1>1, <1>2, HistoryRefersStill
<1> QED
  BY <1>4, <1>5, <1>6, <1>7 DEF TypeOK, HeapOK, StackOK, CallOK, References

LEMMA HandlerReturnsTypes ==
  ASSUME TypeOK, NEW q \in Known \cup {Nil}, HandlerReturns(q)
  PROVE  TypeOK'
<1> DEFINE x == Top.self
           i == Top.link
           n == promises[x].next
<1>1. /\ x \in Known /\ i \in Link
      /\ n \in Known \cup {Nil}
      /\ TakenOff
      /\ links' \in Seq(LinkType) /\ Link' = Link
      /\ \A k \in Link : LinkStays(k)
      /\ \A k \in Link : links'[k].returned = IF k = i THEN q ELSE links[k].returned
      /\ passed' = IF n = Nil THEN passed ELSE passed \cup {<<n, q>>}
      /\ promises' \in Seq(PromiseType) /\ Known' = Known
      /\ \A y \in Known :
           /\ promises'[y].result = promises[y].result
           /\ promises'[y].isProcessed = promises[y].isProcessed
           /\ y # q => SameContent(y)
      /\ q # Nil =>
           /\ promises'[q].next = IF n = Nil THEN Nil ELSE promises[n].next
           /\ promises'[q].resultHandler = IF n = Nil THEN Nil ELSE promises[n].resultHandler
           /\ promises'[q].errorHandler = IF n = Nil THEN Nil ELSE promises[n].errorHandler
      /\ reused' = IF q # Nil /\ Spent(q) THEN reused \cup {q} ELSE reused
      /\ call' = IF q = Nil THEN Resume(Pop) ELSE GoOn(q)
      /\ UNCHANGED <<owned, misfulfilled>>
  BY HandlerReturnsDoes
<1> HIDE DEF x, i, n
<1>2. \A k \in Link : LinkRefers(k)'
  <2>1. \A k \in Link : links[k].returned \in Known \cup {Nil}
    BY DEF TypeOK, References, LinkRefers
  <2> QED
    BY <1>1, <2>1, RefersStill
<1>3. \A y \in Known : y # q => Fits(y)' /\ PromiseRefers(y)'
  BY <1>1, FitsStill, RefersStill, ProcessedSettled
<1>4. q # Nil => Fits(q)' /\ PromiseRefers(q)'
  <2>1. SUFFICES ASSUME q # Nil PROVE Fits(q)' /\ PromiseRefers(q)'
    OBVIOUS
  <2>2. q \in Known /\ (promises'[q].isProcessed => promises'[q].result # "pending")
    BY <1>1, <2>1, ProcessedSettled
  <2>3. CASE n = Nil
    BY <1>1, <2>1, <2>2, <2>3 DEF Fits, PromiseRefers, Carried, IsFulfilled
  <2>4. CASE n # Nil
    <3>1. /\ n \in Known
          /\ promises'[q].next = promises[n].next
          /\ promises'[q].resultHandler = promises[n].resultHandler
          /\ promises'[q].errorHandler = promises[n].errorHandler
      BY <1>1, <2>1, <2>4
    <3>2. PromiseRefers(n) /\ Fits(n)
      BY <3>1 DEF TypeOK, References, ContentFits
    <3>3. Carried(q)' = Carried(n)
      BY <3>1 DEF Carried
    <3>4. PromiseRefers(q)'
      BY <1>1, <3>1, <3>2 DEF PromiseRefers
    <3>5. CASE Carried(n) = Nil
      BY <2>2, <3>1, <3>2, <3>3, <3>4, <3>5 DEF Fits, IsFulfilled
    <3>6. CASE Carried(n) # Nil
      <4>1. Carried(n) \in Link /\ LinkStays(Carried(n))
        BY <1>1, <3>1, <3>6, Carrying
      <4>2. /\ links'[Carried(n)].next = links[Carried(n)].next
            /\ links'[Carried(n)].kind = links[Carried(n)].kind
        BY <4>1 DEF LinkStays
      <4> QED
        BY <2>2, <3>1, <3>2, <3>3, <3>4, <3>6, <4>2 DEF Fits, IsFulfilled
    <3> QED
      BY <3>4, <3>5, <3>6
  <2> QED
    BY <2>3, <2>4
<1>5. HeapOK'
  <2>1. \A y \in Known : y = q => Fits(y)' /\ PromiseRefers(y)'
    BY <1>4, PromiseIsTyped
  <2>2. \A y \in Known : Fits(y)' /\ PromiseRefers(y)'
    BY <1>3, <2>1
  <2> QED
    BY <1>1, <1>2, <2>2 DEF HeapOK, ContentFits
<1>6. StackOK'
  BY <1>1, ShorterStack
<1>7. CallOK'
  <2>1. CASE call' = Resume(Pop)
    BY <1>1, <2>1, ResumedCall DEF TakenOff
  <2>2. CASE call' # Resume(Pop)
    <3>1. /\ q \in Known /\ promises[q].result # "pending"
          /\ call' = [at |-> "trigger", self |-> q]
      BY <1>1, <2>2 DEF GoOn, IsFulfilled
    <3> QED
      BY <1>1, <3>1, PromiseIsTyped DEF CallOK, CallRefers, CallFits, CallType, IsFulfilled
  <2> QED
    BY <2>1, <2>2
<1>8. HistoryRefers'
  BY <1>1, HistoryRefersStill
<1> QED
  BY <1>5, <1>6, <1>7, <1>8 DEF TypeOK, HeapOK, StackOK, CallOK, References

\* Every step keeps the types and the references.
LEMMA TypeNext == TypeOK /\ [Next]_vars => TypeOK'
<1> SUFFICES ASSUME TypeOK, [Next]_vars PROVE TypeOK'
  OBVIOUS
<1>1. ASSUME NEW p \in Known,
             Fulfils(p) \/ FulfilsAgain(p) \/ Waits(p) \/ Links(p) \/ Runs(p) \/ Skips(p)
      PROVE  TypeOK'
  BY <1>1, FulfilsTypes, FulfilsAgainTypes, WaitsTypes, LinksTypes, RunsTypes, SkipsTypes
<1>2. ASSUME NEW q \in Known \cup {Nil}, HandlerReturns(q) \/ LinkReturns(q)
      PROVE  TypeOK'
  BY <1>2, HandlerReturnsTypes, LinkReturnsTypes
<1>3. ASSUME Signal \/ RunHandler \/ PassErrorOn \/ NothingToRun
      PROVE  TypeOK'
  BY <1>3, SignalTypes, RunHandlerTypes, PassErrorOnTypes, NothingToRunTypes
<1>4. ASSUME UNCHANGED vars
      PROVE  TypeOK'
  <2>1. UNCHANGED <<promises, call, stack, links, owned, misfulfilled, passed, reused>>
    BY <1>4 DEF vars
  <2>2. HeapOK' /\ Known' = Known /\ Link' = Link
    BY <2>1, SameHeap
  <2>3. StackOK'
    BY <2>1, <2>2, SameStack
  <2>4. CallOK
    BY TypesApart
  <2>5. CallOK'
    BY <2>1, <2>2, <2>4 DEF CallOK, CallRefers, CallFits, Top, IsFulfilled
  <2>6. HistoryRefers'
    BY <2>1, <2>2, HistoryRefersStill
  <2> QED
    BY <2>2, <2>3, <2>5, <2>6 DEF TypeOK, HeapOK, StackOK, CallOK, References
<1>5. Step
  BY Steps
<1> QED
  BY <1>1, <1>2, <1>3, <1>4, <1>5 DEF Step

(***************************************************************************)
(* The types, and that every reference is to a promise or a link there is: *)
(* whatever the handlers do, copyHandlersFromPromise: gives a promise all  *)
(* of a continuation or nothing of it.                                     *)
(***************************************************************************)
THEOREM TypeCorrect == Spec => []TypeOK
<1>1. Init => TypeOK
  BY TypeInit
<1>2. TypeOK /\ [Next]_vars => TypeOK'
  BY TypeNext
<1> QED
  BY <1>1, <1>2, PTL DEF Spec

-----------------------------------------------------------------------------
(* What a step keeps: promises, links, results, and what has been written    *)
(* down of the past.                                                         *)

\* What only ever grows; and what has settled stays as it is.
Grows ==
  /\ Known \subseteq Known' /\ Link \subseteq Link'
  /\ \A j \in Link : LinkStays(j)
  /\ passed \subseteq passed' /\ misfulfilled \subseteq misfulfilled' /\ reused \subseteq reused'
  /\ \A p \in Known :
       promises[p].result # "pending" => promises'[p].result = promises[p].result

LEMMA StepGrows ==
  ASSUME TypeOK, Step
  PROVE  Grows
<1>1. ASSUME NEW p \in Known, Fulfils(p) PROVE Grows
  <2>1. PICK result \in Settled : Fulfil(p, result) /\ (ByApplication(p) \/ ByLibrary(p))
    BY <1>1 DEF Fulfils
  <2>2. /\ promises[p].result = "pending" /\ Known' = Known
        /\ \A x \in Known : promises'[x].result = IF x = p THEN result ELSE promises[x].result
        /\ UNCHANGED <<links, passed, reused>>
    BY <2>1, FulfilDoes
  <2> QED
    BY <2>1, <2>2, LinksUntouched DEF Grows, ByApplication, ByLibrary
<1>2. ASSUME NEW p \in Known, FulfilsAgain(p) PROVE Grows
  <2>1. OnlySemaphores({p}, 0) /\ UNCHANGED <<links, passed, reused>>
    BY <1>2, FulfilAgainDoes DEF FulfilsAgain
  <2> QED
    BY <1>2, <2>1, LinksUntouched DEF Grows, FulfilsAgain, ByApplication, ByLibrary, OnlySemaphores
<1>3. ASSUME NEW p \in Known, Waits(p) PROVE Grows
  BY <1>3, LinksUntouched DEF Waits, Blocks, Linking, Grows, ByApplication, ByLibrary, Known
<1>4. ASSUME NEW p \in Known, Links(p) PROVE Grows
  <2>1. PICK kind \in {"then", "error"} : LinkPending(p, kind) /\ Linking
    BY <1>4 DEF Links
  <2>2. /\ Known \subseteq Known' /\ reused \subseteq reused'
        /\ \A x \in Known : promises'[x].result = promises[x].result
        /\ Added(kind, p, Len(promises) + 1, 0)
        /\ UNCHANGED passed
    BY <2>1, LinkPendingDoes
  <2> QED
    BY <2>1, <2>2 DEF Grows, Linking, Added, LinkStays
<1>5. ASSUME NEW p \in Known, Runs(p) PROVE Grows
  <2>1. PICK kind \in {"then", "error"} : LinkRuns(p, kind) /\ Linking
    BY <1>5 DEF Runs
  <2>2. OnlySemaphores({p}, 0) /\ Added(kind, p, Nil, 1) /\ UNCHANGED <<passed, reused>>
    BY <2>1, LinkRunsDoes
  <2> QED
    BY <2>1, <2>2 DEF Grows, Linking, Added, LinkStays, OnlySemaphores
<1>6. ASSUME NEW p \in Known, Skips(p) PROVE Grows
  <2>1. PICK kind \in {"then", "error"} : LinkPassedOver(p, kind) /\ Linking
    BY <1>6 DEF Skips
  <2>2. PICK status : OneMore({}, 1, status)
    BY <2>1, LinkPassedOverDoes
  <2>3. Added(kind, p, Nil, 0) /\ UNCHANGED <<passed, reused>>
    BY <2>1, LinkPassedOverDoes
  <2> QED
    BY <2>1, <2>2, <2>3 DEF Grows, Linking, Added, LinkStays, OneMore
<1>7. ASSUME NEW q \in Known \cup {Nil}, HandlerReturns(q) PROVE Grows
  <2>1. /\ Known' = Known /\ Link' = Link /\ passed \subseteq passed' /\ reused \subseteq reused'
        /\ \A k \in Link : LinkStays(k)
        /\ \A y \in Known : promises'[y].result = promises[y].result
        /\ UNCHANGED misfulfilled
    BY <1>7, HandlerReturnsDoes
  <2> QED
    BY <2>1 DEF Grows
<1>8. ASSUME NEW q \in Known \cup {Nil}, LinkReturns(q) PROVE Grows
  <2>1. /\ OnlySemaphores({Top.self}, 1) \/ OneMore({Top.self}, 1, "pending")
        /\ Link' = Link
        /\ \A k \in Link : LinkStays(k)
        /\ UNCHANGED <<misfulfilled, passed, reused>>
    BY <1>8, LinkReturnsDoes
  <2> QED
    BY <2>1 DEF Grows, OnlySemaphores, OneMore
<1>9. ASSUME Signal PROVE Grows
  <2>1. OnlySemaphores({Top.self}, 1) /\ UNCHANGED <<links, misfulfilled, passed, reused>>
    BY <1>9, SignalDoes
  <2> QED
    BY <2>1, LinksUntouched DEF Grows, OnlySemaphores
<1>10. ASSUME RunHandler PROVE Grows
  <2>1. /\ OnlyProcessed(call.self) /\ Link' = Link /\ \A k \in Link : LinkStays(k)
        /\ UNCHANGED <<misfulfilled, passed, reused>>
    BY <1>10, RunHandlerDoes
  <2> QED
    BY <2>1 DEF Grows, OnlyProcessed
<1>11. ASSUME PassErrorOn PROVE Grows
  <2>1. OnlyProcessed(call.self) /\ UNCHANGED <<links, misfulfilled, passed, reused>>
    BY <1>11, PassErrorOnDoes
  <2> QED
    BY <2>1, LinksUntouched DEF Grows, OnlyProcessed
<1>12. ASSUME NothingToRun \/ UNCHANGED vars PROVE Grows
  <2>1. UNCHANGED <<promises, links, misfulfilled, passed, reused>>
    BY <1>12 DEF NothingToRun, vars
  <2> QED
    BY <2>1, LinksUntouched DEF Grows, Known
<1> QED
  BY <1>1, <1>2, <1>3, <1>4, <1>5, <1>6, <1>7, <1>8, <1>9, <1>10, <1>11, <1>12 DEF Step

-----------------------------------------------------------------------------
(* Paths                                                                     *)

\* Path is reflexive and transitive, and only grows.
LEMMA PathReflexive ==
  ASSUME NEW p \in Known
  PROVE  p \in Path(p)
BY DEF Path

LEMMA PathBacked ==
  ASSUME TypeOK, NEW p
  PROVE  Backed(Path(p))
<1>1. \A j \in Link : links[j].on \in Known
  BY DEF TypeOK, References, LinkRefers
<1>2. ASSUME NEW j \in Link, links[j].next \in Path(p)
      PROVE  links[j].on \in Path(p)
  <2>1. \A S \in SUBSET Known : p \in S /\ Backed(S) => links[j].next \in S
    BY <1>2 DEF Path
  <2>2. \A S \in SUBSET Known : p \in S /\ Backed(S) => links[j].on \in S
    BY <2>1 DEF Backed
  <2> QED
    BY <1>1, <2>2 DEF Path
<1>3. ASSUME NEW q \in Known, NEW r \in Known, <<q, r>> \in passed, q \in Path(p)
      PROVE  r \in Path(p)
  <2>1. \A S \in SUBSET Known : p \in S /\ Backed(S) => q \in S
    BY <1>3 DEF Path
  <2>2. \A S \in SUBSET Known : p \in S /\ Backed(S) => r \in S
    BY <1>3, <2>1 DEF Backed
  <2> QED
    BY <2>2 DEF Path
<1> QED
  BY <1>2, <1>3 DEF Backed

LEMMA PathTransitive ==
  ASSUME TypeOK, NEW p, NEW q \in Path(p)
  PROVE  Path(q) \subseteq Path(p)
<1>1. Backed(Path(p)) /\ Path(p) \in SUBSET Known
  BY PathBacked DEF Path
<1> QED
  BY <1>1 DEF Path

LEMMA PathGrows ==
  ASSUME TypeOK, Grows, NEW p \in Known
  PROVE  Path(p) \subseteq Path(p)'
<1> SUFFICES ASSUME NEW q \in Path(p), NEW S \in SUBSET Known', p \in S, Backed(S)'
             PROVE  q \in S
  <2>1. \A q \in Path(p) : q \in Known'
    BY DEF Path, Grows
  <2> QED
    BY <2>1 DEF Path
<1> DEFINE T == S \cap Known
<1>1. \A j \in Link : links[j].next \in T => links[j].on \in T
  <2>1. \A j \in Link : links[j].on \in Known
    BY DEF TypeOK, References, LinkRefers
  <2>2. \A j \in Link : links[j].next \in S => links[j].on \in S
    BY DEF Backed, Grows, LinkStays
  <2> QED
    BY <2>1, <2>2
<1>2. \A a, b \in Known : <<a, b>> \in passed /\ a \in T => b \in T
  BY DEF Backed, Grows
<1>3. T \in SUBSET Known /\ p \in T /\ Backed(T)
  BY <1>1, <1>2 DEF Backed
<1> QED
  BY <1>3 DEF Path

\* What was handed on, and where, is on the path.
LEMMA OnBehindNext ==
  ASSUME TypeOK, NEW j \in Link, links[j].next # Nil
  PROVE  links[j].on \in Path(links[j].next) /\ links[j].next \in Known /\ links[j].on \in Known
<1>1. links[j].next \in Known /\ links[j].on \in Known
  BY DEF TypeOK, References, LinkRefers
<1> QED
  BY <1>1, PathReflexive, PathBacked DEF Backed

\* What lies on the way to a promise lies on the way to those behind it.
LEMMA MisfulfilUp ==
  ASSUME TypeOK, NEW p \in Known, NEW q \in Path(p)
  PROVE  (Misfulfil(q) => Misfulfil(p)) /\ (Reuse(q) => Reuse(p))
BY PathTransitive DEF Misfulfil, Reuse

LEMMA MisfulfilNext ==
  ASSUME TypeOK, NEW j \in Link, links[j].next # Nil
  PROVE  /\ Misfulfil(links[j].on) => Misfulfil(links[j].next)
         /\ Reuse(links[j].on) => Reuse(links[j].next)
BY OnBehindNext, MisfulfilUp

LEMMA MisfulfilKept ==
  ASSUME TypeOK, Grows, NEW p \in Known
  PROVE  (Misfulfil(p) => Misfulfil(p)') /\ (Reuse(p) => Reuse(p)')
BY PathGrows DEF Misfulfil, Reuse, Grows

\* What is on the path and misfulfilled in the end was so, or becomes so, for p.
LEMMA MisfulfilNow ==
  ASSUME TypeOK, Grows, NEW p \in Known, NEW q \in Path(p)
  PROVE  (q \in misfulfilled' => Misfulfil(p)') /\ (q \in reused' => Reuse(p)')
BY PathGrows DEF Misfulfil, Reuse

-----------------------------------------------------------------------------
(* Most steps leave every continuation where it is: all but a link on a      *)
(* pending promise, a handler that is run and a handler that returns.        *)

\* A step that moves no continuation and runs that of no link there was; a promise
\* may settle by it.
Mild ==
  /\ Grows
  /\ passed' = passed
  /\ \A p \in Known : Carried(p)' = Carried(p)
  /\ \A p \in Known' : p \notin Known => Carried(p)' = Nil
  /\ \A j \in Link : links'[j].runs = links[j].runs
  /\ \A j \in Link' : j \notin Link => links'[j].next = Nil /\ links'[j].runs \in {0, 1}
  /\ \A p \in Known : promises[p].isProcessed => promises'[p].isProcessed
  /\ \A k \in DOMAIN stack' :
       stack'[k].in = "handler" => k \in DOMAIN stack /\ stack'[k] = stack[k]

SameResults == \A p \in Known : promises'[p].result = promises[p].result

MildStep ==
  \/ \E p \in Known : FulfilsAgain(p) \/ Waits(p) \/ Runs(p) \/ Skips(p)
  \/ \E q \in Known \cup {Nil} : LinkReturns(q)
  \/ Signal \/ PassErrorOn \/ NothingToRun \/ UNCHANGED vars

\* To fulfil a promise is mild but for its result.
LEMMA FulfilsMild ==
  ASSUME TypeOK, Step, NEW p \in Known, Fulfils(p)
  PROVE  Mild
<1>1. PICK result \in Settled : Fulfil(p, result)
  BY DEF Fulfils
<1>2. /\ Known' = Known
      /\ \A x \in Known : promises'[x].isProcessed = promises[x].isProcessed /\ SameContent(x)
      /\ Pushed([in |-> "fulfil", self |-> p])
      /\ UNCHANGED <<links, passed, reused>>
  BY <1>1, FulfilDoes
<1>3. \A x \in Known : Carried(x)' = Carried(x)
  BY <1>2, SameCarried
<1>4. \A k \in DOMAIN stack' : stack'[k].in = "handler" => k \in DOMAIN stack /\ stack'[k] = stack[k]
  BY <1>2 DEF Pushed
<1> QED
  BY <1>2, <1>3, <1>4, StepGrows DEF Mild, Link

LEMMA MildSteps ==
  ASSUME TypeOK, Step, MildStep
  PROVE  Mild /\ SameResults
<1> USE StepGrows
<1>1. ASSUME NEW S, NEW value, OnlySemaphores(S, value)
      PROVE  /\ SameResults /\ Known' = Known
             /\ \A p \in Known : Carried(p)' = Carried(p)
             /\ \A p \in Known : promises'[p].isProcessed = promises[p].isProcessed
  BY <1>1, SameCarried DEF OnlySemaphores, SameResults
<1>2. ASSUME NEW S, NEW value, NEW status, OneMore(S, value, status)
      PROVE  /\ SameResults
             /\ \A p \in Known : Carried(p)' = Carried(p)
             /\ \A p \in Known' : p \notin Known => Carried(p)' = Nil
             /\ \A p \in Known : promises'[p].isProcessed = promises[p].isProcessed
  <2>1. \A p \in Known' : p \notin Known => Carried(p)' = Nil
    BY <1>2, NewPromiseFits DEF OneMore
  <2> QED
    BY <1>2, <2>1, SameCarried DEF OneMore, SameResults
<1>3. ASSUME NEW kind, NEW on, NEW runs \in {0, 1}, Added(kind, on, Nil, runs)
      PROVE  /\ \A j \in Link : links'[j].runs = links[j].runs
             /\ \A j \in Link' : j \notin Link => links'[j].next = Nil /\ links'[j].runs \in {0, 1}
  BY <1>3 DEF Added
<1>4. ASSUME NEW p \in Known, FulfilsAgain(p) PROVE Mild /\ SameResults
  <2>1. OnlySemaphores({p}, 0) /\ UNCHANGED <<stack, links, passed>>
    BY <1>4, FulfilAgainDoes DEF FulfilsAgain
  <2> QED
    BY <1>1, <2>1 DEF Mild, Link
<1>5. ASSUME NEW p \in Known, Waits(p) PROVE Mild /\ SameResults
  <2>1. UNCHANGED <<promises, stack, links, passed>>
    BY <1>5 DEF Waits, Blocks
  <2> QED
    BY <2>1 DEF Mild, SameResults, Link, Known, Carried
<1>6. ASSUME NEW p \in Known, Runs(p) PROVE Mild /\ SameResults
  <2>1. PICK kind \in {"then", "error"} : LinkRuns(p, kind)
    BY <1>6 DEF Runs
  <2>2. /\ OnlySemaphores({p}, 0) /\ Added(kind, p, Nil, 1) /\ UNCHANGED passed
        /\ Pushed([in |-> "link", self |-> p, link |-> Len(links) + 1])
    BY <2>1, LinkRunsDoes
  <2>3. \A k \in DOMAIN stack' : stack'[k].in = "handler" => k \in DOMAIN stack /\ stack'[k] = stack[k]
    BY <2>2 DEF Pushed
  <2> QED
    BY <1>1, <1>3, <2>2, <2>3 DEF Mild
<1>7. ASSUME NEW p \in Known, Skips(p) PROVE Mild /\ SameResults
  <2>1. PICK kind \in {"then", "error"} : LinkPassedOver(p, kind)
    BY <1>7 DEF Skips
  <2>2. PICK status : OneMore({}, 1, status)
    BY <2>1, LinkPassedOverDoes
  <2>3. Added(kind, p, Nil, 0) /\ UNCHANGED <<stack, passed>>
    BY <2>1, LinkPassedOverDoes
  <2> QED
    BY <1>2, <1>3, <2>2, <2>3 DEF Mild
<1>8. ASSUME NEW q \in Known \cup {Nil}, LinkReturns(q) PROVE Mild /\ SameResults
  <2>1. /\ TakenOff /\ Link' = Link /\ UNCHANGED passed
        /\ OnlySemaphores({Top.self}, 1) \/ OneMore({Top.self}, 1, "pending")
        /\ \A k \in Link : links'[k].runs = links[k].runs
    BY <1>8, LinkReturnsDoes
  <2>2. \A k \in DOMAIN stack' : stack'[k].in = "handler" => k \in DOMAIN stack /\ stack'[k] = stack[k]
    BY <2>1 DEF TakenOff
  <2>3. /\ SameResults
        /\ \A p \in Known : Carried(p)' = Carried(p)
        /\ \A p \in Known' : p \notin Known => Carried(p)' = Nil
        /\ \A p \in Known : promises'[p].isProcessed = promises[p].isProcessed
    BY <1>1, <1>2, <2>1
  <2> QED
    BY <2>1, <2>2, <2>3 DEF Mild
<1>9. ASSUME Signal PROVE Mild /\ SameResults
  <2>1. OnlySemaphores({Top.self}, 1) /\ TakenOff /\ UNCHANGED <<links, passed>>
    BY <1>9, SignalDoes
  <2>2. \A k \in DOMAIN stack' : stack'[k].in = "handler" => k \in DOMAIN stack /\ stack'[k] = stack[k]
    BY <2>1 DEF TakenOff
  <2> QED
    BY <1>1, <2>1, <2>2 DEF Mild, Link
<1>10. ASSUME PassErrorOn PROVE Mild /\ SameResults
  <2>1. OnlyProcessed(call.self) /\ UNCHANGED <<stack, links, passed>>
    BY <1>10, PassErrorOnDoes
  <2> QED
    BY <2>1, SameCarried DEF Mild, SameResults, Link, OnlyProcessed
<1>11. ASSUME NothingToRun \/ UNCHANGED vars PROVE Mild /\ SameResults
  <2>1. UNCHANGED <<promises, stack, links, passed>>
    BY <1>11 DEF NothingToRun, vars
  <2> QED
    BY <2>1 DEF Mild, SameResults, Link, Known, Carried
<1> QED
  BY <1>4, <1>5, <1>6, <1>7, <1>8, <1>9, <1>10, <1>11 DEF MildStep

LEMMA NilIsNone ==
  ASSUME TypeOK
  PROVE  Nil \notin Known /\ Nil \notin Link
BY PromiseIsTyped, LinkIsTyped

LEMMA LinkOnKnown ==
  ASSUME TypeOK, NEW j \in Link
  PROVE  links[j].on \in Known /\ links[j].next \in Known \cup {Nil}
BY DEF TypeOK, References, LinkRefers

LEMMA MildSame ==
  ASSUME TypeOK, TypeOK', Mild
  PROVE  /\ \A p \in Known' : HandedOn(p)' => p \in Known /\ HandedOn(p)
         /\ \A p \in Known' : LinkMade(p)' => p \in Known /\ LinkMade(p)
         /\ \A p \in Known : LinkMade(p) => LinkMade(p)'
         /\ \A p \in Known : Ready(p)' => Ready(p)
         /\ \A p \in Known : Active(p)' => Active(p)
         /\ \A p \in Known' : \A j \in Link' :
              Carried(p)' = j => p \in Known /\ j \in Link /\ Carried(p) = j
         /\ \A j \in Link : links'[j].on = links[j].on /\ links'[j].next = links[j].next
<1>1. \A p \in Known' : HandedOn(p)' => p \in Known /\ HandedOn(p)
  <2>1. passed \subseteq Known \X (Known \cup {Nil})
    BY DEF TypeOK, References, HistoryRefers
  <2> QED
    BY <2>1 DEF Mild, HandedOn
<1>2. Nil \notin Known' /\ Nil \notin Link'
  <2>1. TypeOK => Nil \notin Known /\ Nil \notin Link
    BY NilIsNone
  <2>2. /\ promises' \in Seq(PromiseType) /\ links' \in Seq(LinkType)
    BY DEF TypeOK
  <2> HIDE DEF PromiseType, LinkType
  <2> QED
    BY <2>2, Indexed DEF Known, Link
<1>3. \A j \in Link : links'[j].on = links[j].on /\ links'[j].next = links[j].next
  BY DEF Mild, Grows, LinkStays
<1>4. \A p \in Known' : LinkMade(p)' => p \in Known /\ LinkMade(p)
  BY <1>2, <1>3, LinkOnKnown DEF LinkMade, Mild
<1>5. \A p \in Known : LinkMade(p) => LinkMade(p)'
  BY <1>3 DEF LinkMade, Mild, Grows
<1>6. \A p \in Known : Ready(p)' => Ready(p)
  <2>1. \A p \in Known : HandedOn(p) => HandedOn(p)'
    BY DEF HandedOn, Mild, Grows
  <2> QED
    BY <2>1 DEF Ready, Mild, Grows
<1>7. \A p \in Known : InHandler(p)' => InHandler(p)
  BY DEF InHandler, Mild
<1>8. \A p \in Known : Active(p)' => Active(p)
  BY <1>6, <1>7 DEF Active
<1>9. \A p \in Known' : \A j \in Link' :
        Carried(p)' = j => p \in Known /\ j \in Link /\ Carried(p) = j
  <2>1. \A p \in Known : Carried(p) # Nil => Carried(p) \in Link
    BY Carrying
  <2> QED
    BY <1>2, <2>1 DEF Mild
<1> QED
  BY <1>1, <1>3, <1>4, <1>5, <1>6, <1>8, <1>9

LEMMA MildKeeps ==
  ASSUME TypeOK, TypeOK', Mild, Handing
  PROVE  /\ LinksDistinct' /\ CarriedOnPath' /\ OneActive' /\ NotRunYet' /\ RunOnce'
         /\ OneFrame'
<1> USE MildSame, LinkOnKnown
<1>1. LinksDistinct'
  BY DEF Handing, LinksDistinct, Mild
<1>2. CarriedOnPath'
  BY PathGrows DEF Handing, CarriedOnPath, Mild
<1>3. OneActive'
  <2> SUFFICES ASSUME NEW p \in Known', NEW q \in Known', NEW b \in Known', NEW j \in Link',
                      Active(p)', Active(q)', Carried(p)' = j, Carried(q)' = j, links'[j].on = b
               PROVE  p = q \/ Misfulfil(b)'
    BY DEF OneActive
  <2>1. /\ p \in Known /\ q \in Known /\ j \in Link /\ Carried(p) = j /\ Carried(q) = j
        /\ Active(p) /\ Active(q) /\ b = links[j].on /\ b \in Known
    OBVIOUS
  <2>2. p = q \/ Misfulfil(b)
    BY <2>1 DEF Handing, OneActive
  <2> QED
    BY <2>1, <2>2, MisfulfilKept DEF Mild
<1>4. NotRunYet'
  <2> SUFFICES ASSUME NEW p \in Known', NEW b \in Known', NEW j \in Link',
                      Ready(p)', Carried(p)' = j, links'[j].on = b
               PROVE  links'[j].runs = 0 \/ Misfulfil(b)'
    BY DEF NotRunYet
  <2>1. /\ p \in Known /\ j \in Link /\ Carried(p) = j
        /\ Ready(p) /\ b = links[j].on /\ b \in Known
    OBVIOUS
  <2>2. links[j].runs = 0 \/ Misfulfil(b)
    BY <2>1 DEF Handing, NotRunYet
  <2> QED
    BY <2>1, <2>2, MisfulfilKept DEF Mild
<1>5. RunOnce'
  <2> SUFFICES ASSUME NEW b \in Known', NEW j \in Link', links'[j].on = b
               PROVE  links'[j].runs <= 1 \/ Misfulfil(b)'
    BY DEF RunOnce
  <2>1. CASE j \in Link
    <3>1. b = links[j].on /\ b \in Known
      BY <2>1
    <3>2. links[j].runs <= 1 \/ Misfulfil(b)
      BY <2>1, <3>1 DEF Handing, RunOnce
    <3> QED
      BY <2>1, <3>1, <3>2, MisfulfilKept DEF Mild
  <2>2. CASE j \notin Link
    BY <2>2 DEF Mild
  <2> QED
    BY <2>1, <2>2
<1>6. OneFrame'
  <2>1. \A k \in DOMAIN stack : stack[k].self \in Known
    BY DEF TypeOK, References, FrameRefers
  <2> QED
    BY <2>1 DEF Handing, OneFrame, Mild
<1> QED
  BY <1>1, <1>2, <1>3, <1>4, <1>5, <1>6

LEMMA OwnedShrinks ==
  ASSUME TypeOK, Step
  PROVE  owned' \subseteq owned
<1>1. \A p \in Known : Fulfils(p) \/ FulfilsAgain(p) \/ Waits(p) => owned' \subseteq owned
  BY DEF Fulfils, FulfilsAgain, Waits, ByApplication, ByLibrary, Linking
<1>2. \A p \in Known : Links(p) \/ Runs(p) \/ Skips(p) => owned' \subseteq owned
  BY DEF Links, Runs, Skips, Linking
<1>3. \A q \in Known \cup {Nil} : HandlerReturns(q) \/ LinkReturns(q) => owned' \subseteq owned
  BY DEF HandlerReturns, LinkReturns
<1>4. Signal \/ RunHandler \/ PassErrorOn \/ NothingToRun \/ UNCHANGED vars => owned' \subseteq owned
  BY DEF Signal, RunHandler, PassErrorOn, NothingToRun, vars
<1> QED
  BY <1>1, <1>2, <1>3, <1>4 DEF Step

LEMMA MildResults ==
  ASSUME TypeOK, TypeOK', Mild, SameResults, owned' \subseteq owned, Handing
  PROVE  NextUntouched' /\ HandedOnOnce' /\ OwnedPending'
<1> USE MildSame, LinkOnKnown
<1>1. NextUntouched'
  <2> SUFFICES ASSUME NEW p \in Known', NEW n \in Known', NEW j \in Link',
                      Active(p)', Carried(p)' = j, links'[j].next = n
               PROVE  Misfulfil(n)' \/ Untouched(n)'
    BY DEF NextUntouched
  <2>1. /\ p \in Known /\ j \in Link /\ Carried(p) = j /\ Active(p) /\ n = links[j].next
    OBVIOUS
  <2>2. n \in Known
    BY <2>1, Carrying, NilIsNone
  <2>3. Misfulfil(n) \/ Untouched(n)
    BY <2>1, <2>2 DEF Handing, NextUntouched
  <2>4. Untouched(n) => Untouched(n)'
    BY <2>2 DEF Untouched, SameResults
  <2> QED
    BY <2>2, <2>3, <2>4, MisfulfilKept DEF Mild
<1>2. HandedOnOnce'
  <2> SUFFICES ASSUME NEW p \in Known', HandedOn(p)'
               PROVE  LinkMade(p)' /\ (IsFulfilled(p)' => Misfulfil(p)')
    BY DEF HandedOnOnce
  <2>1. p \in Known /\ HandedOn(p)
    OBVIOUS
  <2>2. LinkMade(p) /\ (IsFulfilled(p) => Misfulfil(p))
    BY <2>1 DEF Handing, HandedOnOnce
  <2>3. IsFulfilled(p)' => IsFulfilled(p)
    BY <2>1 DEF IsFulfilled, SameResults
  <2> QED
    BY <2>1, <2>2, <2>3, MisfulfilKept DEF Mild
<1>3. OwnedPending'
  <2>1. owned \subseteq Known
    BY DEF TypeOK, References, HistoryRefers
  <2>2. \A p \in owned : promises[p].result = "pending" /\ ~ LinkMade(p)
    BY DEF Handing, OwnedPending
  <2>3. \A p \in owned' : promises'[p].result = "pending" /\ ~ LinkMade(p)'
    BY <2>1, <2>2 DEF SameResults, Mild, Grows
  <2> QED
    BY <2>3 DEF OwnedPending
<1> QED
  BY <1>1, <1>2, <1>3

LEMMA UpThePath ==
  TypeOK =>
    /\ Nil \notin Known /\ Nil \notin Link
    /\ \A p \in Known : \A q \in Path(p) :
         (Misfulfil(q) => Misfulfil(p)) /\ (Reuse(q) => Reuse(p))
    /\ \A j \in Link : links[j].next # Nil => links[j].on \in Path(links[j].next)
    /\ \A p \in Known : Carried(p) # Nil =>
         Carried(p) \in Link /\ promises[p].next = links[Carried(p)].next
    /\ \A p \in Known : Carried(p) = Nil => promises[p].next = Nil
BY NilIsNone, MisfulfilUp, OnBehindNext, Carrying, NotCarrying

LEMMA UpThePathNext ==
  ASSUME TypeOK'
  PROVE  /\ Nil \notin Known' /\ Nil \notin Link'
         /\ \A p \in Known' : \A q \in Path(p)' :
              (Misfulfil(q)' => Misfulfil(p)') /\ (Reuse(q)' => Reuse(p)')
<1>1. (TypeOK =>
    /\ Nil \notin Known /\ Nil \notin Link
    /\ \A p \in Known : \A q \in Path(p) :
         (Misfulfil(q) => Misfulfil(p)) /\ (Reuse(q) => Reuse(p)))'
  BY UpThePath, PTL
<1> QED
  BY <1>1

\* The semaphores that are taken, by what happens to the stack.
LEMMA HeldPushed ==
  ASSUME NEW frame, Pushed(frame)
  PROVE  Held' = IF frame.in = "handler" THEN Held ELSE Held \cup {frame.self}
BY DEF Pushed, Held

LEMMA HeldTakenOff ==
  ASSUME TakenOff
  PROVE  /\ Held' \subseteq Held
         /\ IF Top.in = "handler" THEN Held' = Held ELSE Held \ {Top.self} \subseteq Held'
BY DEF TakenOff, Held

LEMMA HeldSame ==
  ASSUME UNCHANGED stack
  PROVE  Held' = Held
BY DEF Held

\* A promise is settled: the one step that can misfulfil.
LEMMA FulfilsKeeps ==
  ASSUME TypeOK, TypeOK', Step, Handing, NEW p \in Known, Fulfils(p)
  PROVE  Handing'
<1>1. PICK result \in Settled : Fulfil(p, result) /\ (ByApplication(p) \/ ByLibrary(p))
  BY DEF Fulfils
<1>2. Mild
  BY FulfilsMild
<1>3. Grows
  BY <1>2 DEF Mild
<1>4. /\ promises[p].result = "pending" /\ promises'[p].result # "pending"
      /\ Known' = Known
      /\ \A x \in Known : x # p => promises'[x].result = promises[x].result
      /\ \A x \in Known : promises'[x].semaphore = IF x = p THEN 0 ELSE promises[x].semaphore
      /\ Pushed([in |-> "fulfil", self |-> p])
      /\ call' = IF Continues(p) THEN [at |-> "trigger", self |-> p] ELSE [at |-> "signal"]
  BY <1>1, FulfilDoes DEF Settled
<1>5. /\ LinksDistinct' /\ CarriedOnPath' /\ OneActive' /\ NotRunYet' /\ RunOnce' /\ OneFrame'
  BY <1>2, MildKeeps
<1>6. p \in Path(p)
  BY PathReflexive
\* What a link made is fulfilled by misuse, or by the library when it may be.
<1>7. LinkMade(p) =>
        \/ Misfulfil(p)'
        \/ ~ HandedOn(p) /\ \A x \in Known : \A j \in Link :
                              Active(x) /\ Carried(x) = j => links[j].next # p
  <2>1. CASE ByApplication(p)
    <3>1. LinkMade(p) => p \in misfulfilled'
      BY <2>1 DEF ByApplication, Handing, OwnedPending
    <3> QED
      BY <1>3, <1>6, <3>1, MisfulfilNow
  <2>2. CASE ByLibrary(p)
    BY <1>3, <2>2, MisfulfilKept DEF ByLibrary, Handing, PassFits, Untouched
  <2> QED
    BY <1>1, <2>1, <2>2
<1>8. NextUntouched'
  <2> SUFFICES ASSUME NEW x \in Known', NEW n \in Known', NEW j \in Link',
                      Active(x)', Carried(x)' = j, links'[j].next = n
               PROVE  Misfulfil(n)' \/ Untouched(n)'
    BY DEF NextUntouched
  <2>1. /\ x \in Known /\ j \in Link /\ Carried(x) = j /\ Active(x) /\ n = links[j].next
        /\ n \in Known
    BY <1>2, <1>4, MildSame
  <2>2. CASE n = p
    BY <1>7, <2>1, <2>2 DEF LinkMade
  <2>3. CASE n # p
    <3>1. Misfulfil(n) \/ Untouched(n)
      BY <2>1 DEF Handing, NextUntouched
    <3>2. Untouched(n) => Untouched(n)'
      BY <1>2, <1>4, <2>1, <2>3, MildSame DEF Untouched
    <3> QED
      BY <1>3, <2>1, <3>1, <3>2, MisfulfilKept
  <2> QED
    BY <2>2, <2>3
<1>9. HandedOnOnce'
  <2> SUFFICES ASSUME NEW x \in Known', HandedOn(x)'
               PROVE  LinkMade(x)' /\ (IsFulfilled(x)' => Misfulfil(x)')
    BY DEF HandedOnOnce
  <2>1. x \in Known /\ HandedOn(x)
    BY <1>2, MildSame
  <2>2. LinkMade(x) /\ LinkMade(x)' /\ (IsFulfilled(x) => Misfulfil(x))
    BY <1>2, <2>1, MildSame DEF Handing, HandedOnOnce
  <2>3. CASE x = p
    BY <1>7, <2>1, <2>2, <2>3
  <2>4. CASE x # p
    <3>1. IsFulfilled(x)' => IsFulfilled(x)
      BY <1>4, <2>1, <2>4 DEF IsFulfilled
    <3> QED
      BY <1>3, <2>1, <2>2, <3>1, MisfulfilKept
  <2> QED
    BY <2>3, <2>4
<1>10. OwnedPending'
  <2>1. owned \subseteq Known /\ owned' \subseteq owned
    BY OwnedShrinks DEF TypeOK, References, HistoryRefers
  <2>2. p \notin owned'
    <3>1. CASE ByApplication(p)
      BY <3>1 DEF ByApplication
    <3>2. CASE ByLibrary(p)
      BY <3>2 DEF ByLibrary, Handing, PassFits, OwnedPending
    <3> QED
      BY <1>1, <3>1, <3>2
  <2>3. \A x \in owned : promises[x].result = "pending" /\ ~ LinkMade(x)
    BY DEF Handing, OwnedPending
  <2>4. \A x \in owned' : ~ LinkMade(x)'
    BY <1>2, <1>4, <2>1, <2>3, MildSame
  <2>5. \A x \in owned' : promises'[x].result = "pending"
    BY <1>4, <2>1, <2>2, <2>3
  <2> QED
    BY <2>4, <2>5 DEF OwnedPending
<1>11. TriggerFits'
  <2> SUFFICES ASSUME NEW x \in Known', NEW b \in Known', NEW j \in Link',
                      call'.at = "trigger", call'.self = x, Carried(x)' = j, links'[j].on = b,
                      HandedOn(x)'
               PROVE  Misfulfil(b)'
    BY DEF TriggerFits
  <2>1. x = p
    BY <1>4
  <2>2. Misfulfil(x)'
    BY <1>4, <1>9, <2>1 DEF HandedOnOnce, IsFulfilled
  <2>3. x \in Path(b)'
    BY <1>5 DEF CarriedOnPath
  <2> QED
    BY <2>2, <2>3, UpThePathNext
<1>12. PassFits' /\ WaitFits'
  BY <1>4 DEF PassFits, WaitFits
<1>13. Semaphores'
  <2> SUFFICES ASSUME NEW x \in Known'
               PROVE  /\ x \in Held' => IsFulfilled(x)'
                      /\ ~ Free(x)' => x \in Held' \/ Misfulfil(x)'
    BY DEF Semaphores
  <2>1. Held' = Held \cup {p}
    BY <1>4, HeldPushed
  <2>2. x \in Held => IsFulfilled(x)
    BY <1>4 DEF Handing, Semaphores
  <2>3. ~ Free(x) => x \in Held \/ Misfulfil(x)
    BY <1>4 DEF Handing, Semaphores
  <2>4. IsFulfilled(x) => IsFulfilled(x)'
    BY <1>4 DEF IsFulfilled
  <2>5. x # p /\ ~ Free(x)' => ~ Free(x)
    BY <1>4 DEF Free
  <2>6. IsFulfilled(p)'
    BY <1>4 DEF IsFulfilled
  <2> QED
    BY <1>3, <1>4, <2>1, <2>2, <2>3, <2>4, <2>5, <2>6, MisfulfilKept
<1> QED
  BY <1>5, <1>8, <1>9, <1>10, <1>11, <1>12, <1>13 DEF Handing

LEMMA QuietCall ==
  ASSUME call'.at \notin {"trigger", "pass", "wait"}
  PROVE  TriggerFits' /\ PassFits' /\ WaitFits'
BY DEF TriggerFits, PassFits, WaitFits

LEMMA SemaphoresStill ==
  ASSUME TypeOK, Grows, Handing,
         \A x \in Held' : x \in Known => x \in Held \/ IsFulfilled(x),
         \A x \in Known : ~ Free(x)' =>
           (~ Free(x) /\ (x \in Held => x \in Held')) \/ x \in Held' \/ Misfulfil(x)',
         \A x \in Known' : x \notin Known => Free(x)' /\ x \notin Held'
  PROVE  Semaphores'
<1> SUFFICES ASSUME NEW x \in Known'
             PROVE  /\ x \in Held' => IsFulfilled(x)'
                    /\ ~ Free(x)' => x \in Held' \/ Misfulfil(x)'
  BY DEF Semaphores
<1>1. CASE x \notin Known
  BY <1>1
<1>2. CASE x \in Known
  <2>1. /\ x \in Held => IsFulfilled(x)
        /\ ~ Free(x) => x \in Held \/ Misfulfil(x)
    BY <1>2 DEF Handing, Semaphores
  <2>2. IsFulfilled(x) => IsFulfilled(x)'
    BY <1>2 DEF IsFulfilled, Grows
  <2> QED
    BY <1>2, <2>1, <2>2, MisfulfilKept
<1> QED
  BY <1>1, <1>2

LEMMA HeldKnown ==
  ASSUME TypeOK
  PROVE  Held \subseteq Known
BY DEF TypeOK, References, FrameRefers, Held

LEMMA RunningAt ==
  ASSUME Running
  PROVE  call.at = "application"
BY DEF Running, Idle

LEMMA FulfilsAgainCall ==
  ASSUME TypeOK, Step, Grows, Handing, NEW p \in Known, FulfilsAgain(p)
  PROVE  TriggerFits' /\ PassFits' /\ WaitFits' /\ Semaphores'
<1>1. /\ IsFulfilled(p)
      /\ OnlySemaphores({p}, 0)
      /\ call' = Resume(stack)
      /\ UNCHANGED stack
  BY FulfilAgainDoes DEF FulfilsAgain
<1>2. TriggerFits' /\ PassFits' /\ WaitFits'
  BY <1>1, Resuming, QuietCall
<1>3. Misfulfil(p)'
  <2>1. CASE ByApplication(p)
    <3>1. p \in misfulfilled'
      BY <1>1, <2>1 DEF ByApplication, Handing, OwnedPending, IsFulfilled
    <3> QED
      BY <3>1, PathReflexive, MisfulfilNow
  <2>2. CASE ByLibrary(p)
    BY <1>1, <2>2, MisfulfilKept DEF ByLibrary, Handing, PassFits, Untouched, IsFulfilled
  <2> QED
    BY <2>1, <2>2 DEF FulfilsAgain
<1>4. Held' = Held
  BY <1>1, HeldSame
<1>5. \A x \in Known : x # p /\ ~ Free(x)' => ~ Free(x)
  BY <1>1 DEF OnlySemaphores, Free
<1>6. Semaphores'
  BY <1>1, <1>3, <1>4, <1>5, SemaphoresStill DEF OnlySemaphores
<1> QED
  BY <1>2, <1>6

LEMMA WaitsCall ==
  ASSUME TypeOK, Step, Grows, Handing, NEW p \in Known, Waits(p)
  PROVE  TriggerFits' /\ PassFits' /\ WaitFits' /\ Semaphores'
<1>1. UNCHANGED <<promises, stack>>
  BY DEF Waits, Blocks
<1>2. Held' = Held /\ Known' = Known /\ \A x \in Known : Free(x)' <=> Free(x)
  BY <1>1, HeldSame DEF Known, Free
<1>3. Semaphores'
  BY <1>2, HeldKnown, SemaphoresStill
<1>4. call'.at = "wait" /\ call'.self = p
  BY DEF Waits, Blocks
<1>5. TriggerFits' /\ PassFits'
  BY <1>4 DEF TriggerFits, PassFits
<1>6. (call'.by = "application" /\ p \in Held') \/ Misfulfil(p)'
  <2>1. p \in Held => IsFulfilled(p)
    BY DEF Handing, Semaphores
  <2>2. ~ Free(p) /\ (p \in Held \/ Misfulfil(p))
    BY DEF Waits, Blocks, Handing, Semaphores
  <2>3. CASE Blocks(p, "application")
    BY <1>2, <2>2, <2>3, MisfulfilKept DEF Blocks
  <2>4. CASE Blocks(p, "library") /\ ByLibrary(p)
    <3>1. Misfulfil(p) \/ promises[p].result = "pending"
      BY <2>4 DEF ByLibrary, Handing, PassFits, Untouched
    <3> QED
      BY <2>1, <2>2, <3>1, MisfulfilKept DEF IsFulfilled
  <2> QED
    BY <2>3, <2>4 DEF Waits
<1>7. WaitFits'
  BY <1>2, <1>4, <1>6 DEF WaitFits
<1> QED
  BY <1>3, <1>5, <1>7

LEMMA RunsCall ==
  ASSUME TypeOK, Step, Grows, Handing, NEW p \in Known, Runs(p)
  PROVE  TriggerFits' /\ PassFits' /\ WaitFits' /\ Semaphores'
<1>1. PICK kind \in {"then", "error"} : LinkRuns(p, kind) /\ Linking
  BY DEF Runs
<1>2. /\ IsFulfilled(p)
      /\ OnlySemaphores({p}, 0)
      /\ Pushed([in |-> "link", self |-> p, link |-> Len(links) + 1])
      /\ UNCHANGED call
  BY <1>1, LinkRunsDoes
<1>3. TriggerFits' /\ PassFits' /\ WaitFits'
  BY <1>1, <1>2, RunningAt, QuietCall DEF Linking
<1>4. Held' = Held \cup {p}
  BY <1>2, HeldPushed
<1>5. \A x \in Known : x # p /\ ~ Free(x)' => ~ Free(x)
  BY <1>2 DEF OnlySemaphores, Free
<1>6. Semaphores'
  BY <1>2, <1>4, <1>5, SemaphoresStill DEF OnlySemaphores
<1> QED
  BY <1>3, <1>6

LEMMA SkipsCall ==
  ASSUME TypeOK, Step, Grows, Handing, NEW p \in Known, Skips(p)
  PROVE  TriggerFits' /\ PassFits' /\ WaitFits' /\ Semaphores'
<1>1. PICK kind \in {"then", "error"} : LinkPassedOver(p, kind) /\ Linking
  BY DEF Skips
<1>2. PICK status : OneMore({}, 1, status)
  BY <1>1, LinkPassedOverDoes
<1>3. UNCHANGED <<call, stack>>
  BY <1>1, LinkPassedOverDoes
<1>4. TriggerFits' /\ PassFits' /\ WaitFits'
  BY <1>1, <1>3, RunningAt, QuietCall DEF Linking
<1>5. Held' = Held /\ Held \subseteq Known
  BY <1>3, HeldSame, HeldKnown
<1>6. \A x \in Known : ~ Free(x)' => ~ Free(x)
  BY <1>2 DEF OneMore, Free
<1>7. \A x \in Known' : x \notin Known => Free(x)'
  BY <1>2 DEF OneMore, Free, NewPromise
<1>8. Semaphores'
  BY <1>5, <1>6, <1>7, SemaphoresStill
<1> QED
  BY <1>4, <1>8

LEMMA LinkReturnsCall ==
  ASSUME TypeOK, Step, Grows, Handing, NEW q \in Known \cup {Nil}, LinkReturns(q)
  PROVE  TriggerFits' /\ PassFits' /\ WaitFits' /\ Semaphores'
<1> DEFINE x == Top.self
<1>1. /\ TakenOff /\ Top.in = "link" /\ Running
      /\ OnlySemaphores({x}, 1) \/ OneMore({x}, 1, "pending")
      /\ UNCHANGED call
  BY LinkReturnsDoes
<1>2. TriggerFits' /\ PassFits' /\ WaitFits'
  BY <1>1, RunningAt, QuietCall
<1>3. Held' \subseteq Held /\ Held \ {x} \subseteq Held' /\ Held \subseteq Known
  BY <1>1, HeldTakenOff, HeldKnown
<1>4. \A y \in Known : ~ Free(y)' => ~ Free(y) /\ y # x
  BY <1>1 DEF OneMore, OnlySemaphores, Free
<1>5. \A y \in Known' : y \notin Known => Free(y)'
  BY <1>1 DEF OneMore, OnlySemaphores, Free, NewPromise
<1>6. Semaphores'
  BY <1>3, <1>4, <1>5, SemaphoresStill
<1> QED
  BY <1>2, <1>6

LEMMA SignalCall ==
  ASSUME TypeOK, Step, Grows, Handing, Signal
  PROVE  TriggerFits' /\ PassFits' /\ WaitFits' /\ Semaphores'
<1> DEFINE x == Top.self
<1>1. /\ TakenOff /\ Top.in = "fulfil"
      /\ OnlySemaphores({x}, 1)
      /\ call' = Resume(Pop)
  BY SignalDoes
<1>2. TriggerFits' /\ PassFits' /\ WaitFits'
  BY <1>1, Resuming, QuietCall DEF TakenOff
<1>3. Held' \subseteq Held /\ Held \ {x} \subseteq Held' /\ Held \subseteq Known
  BY <1>1, HeldTakenOff, HeldKnown
<1>4. \A y \in Known : ~ Free(y)' => ~ Free(y) /\ y # x
  BY <1>1 DEF OnlySemaphores, Free
<1>5. Known' = Known
  BY <1>1 DEF OnlySemaphores
<1>6. Semaphores'
  BY <1>3, <1>4, <1>5, SemaphoresStill
<1> QED
  BY <1>2, <1>6

LEMMA NothingToRunCall ==
  ASSUME TypeOK, Step, Grows, Handing, NothingToRun
  PROVE  TriggerFits' /\ PassFits' /\ WaitFits' /\ Semaphores'
<1>1. call' = Resume(stack) /\ UNCHANGED <<promises, stack>>
  BY DEF NothingToRun
<1>2. TriggerFits' /\ PassFits' /\ WaitFits'
  BY <1>1, Resuming, QuietCall
<1>3. Held' = Held /\ Known' = Known /\ \A x \in Known : Free(x)' <=> Free(x)
  BY <1>1, HeldSame DEF Known, Free
<1>4. Semaphores'
  BY <1>3, HeldKnown, SemaphoresStill
<1> QED
  BY <1>2, <1>4

LEMMA HandlerProcessed ==
  ASSUME TypeOK, Handing, NEW p \in Known, InHandler(p)
  PROVE  promises[p].isProcessed
BY DEF InHandler, Handing, OneFrame

LEMMA PassErrorOnCall ==
  ASSUME TypeOK, TypeOK', Step, Mild, SameResults, Handing, PassErrorOn
  PROVE  TriggerFits' /\ PassFits' /\ WaitFits' /\ Semaphores'
<1>0. PICK p, i, n : p = call.self /\ i = Carried(p) /\ n = links[i].next
  OBVIOUS
<1>1. /\ p = call.self /\ i = Carried(p) /\ n = links[i].next
      /\ call.at = "trigger" /\ p \in Known /\ ~ promises[p].isProcessed
      /\ i # Nil /\ i \in Link
      /\ n # Nil /\ n \in Known
      /\ OnlyProcessed(p)
      /\ call' = [at |-> "pass", self |-> n]
      /\ UNCHANGED <<stack, links>>
  BY <1>0, PassErrorOnDoes
<1>2. Grows
  BY DEF Mild
<1>3. Semaphores'
  <2>1. Held' = Held /\ Known' = Known /\ \A x \in Known : Free(x)' <=> Free(x)
    BY <1>1, HeldSame DEF OnlyProcessed, Free
  <2> QED
    BY <1>2, <2>1, HeldKnown, SemaphoresStill
<1>4. TriggerFits' /\ WaitFits'
  BY <1>1 DEF TriggerFits, WaitFits
<1>5. LinkMade(n)'
  BY <1>1 DEF LinkMade, Link
<1>6. Misfulfil(links[i].on) => Misfulfil(n)
  BY <1>1, MisfulfilNext
<1>7. \/ Misfulfil(n)
      \/ /\ Untouched(n)
         /\ \A x \in Known : Active(x) /\ Carried(x) = i => x = p
  <2>1. CASE HandedOn(p)
    <3>1. Misfulfil(links[i].on)
      BY <1>1, <2>1, LinkOnKnown DEF Handing, TriggerFits
    <3> QED
      BY <1>6, <3>1
  <2>2. CASE ~ HandedOn(p)
    <3>1. Active(p)
      BY <1>1, <2>2 DEF Active, Ready
    <3>2. Misfulfil(n) \/ Untouched(n)
      BY <1>1, <3>1 DEF Handing, NextUntouched
    <3>3. \A x \in Known : Active(x) /\ Carried(x) = i => x = p \/ Misfulfil(links[i].on)
      BY <1>1, <3>1, LinkOnKnown DEF Handing, OneActive
    <3> QED
      BY <1>6, <3>2, <3>3
  <2> QED
    BY <2>1, <2>2
<1>8. ~ Active(p)'
  <2>1. ~ InHandler(p)'
    <3>1. InHandler(p)' => InHandler(p)
      BY <1>1 DEF InHandler
    <3> QED
      BY <1>1, <3>1, HandlerProcessed
  <2> QED
    BY <1>1, <2>1 DEF Active, Ready, OnlyProcessed
<1>9. \/ Misfulfil(n)'
      \/ /\ Untouched(n)'
         /\ \A x \in Known' : \A j \in Link' :
              Active(x)' /\ Carried(x)' = j => links'[j].next # n
  <2>1. CASE Misfulfil(n)
    BY <1>1, <1>2, <2>1, MisfulfilKept
  <2>2. CASE ~ Misfulfil(n)
    <3>1. Untouched(n)'
      <4>1. HandedOn(n)' => HandedOn(n)
        BY <1>1, MildSame DEF OnlyProcessed
      <4> QED
        BY <1>1, <1>7, <2>2, <4>1 DEF Untouched, SameResults
    <3>2. ASSUME NEW x \in Known', NEW j \in Link', Active(x)', Carried(x)' = j, links'[j].next = n
          PROVE  FALSE
      <4>1. x \in Known /\ j \in Link /\ Carried(x) = j /\ Active(x) /\ links[j].next = n
        BY <3>2, MildSame
      <4>2. j = i
        BY <1>1, <4>1 DEF Handing, LinksDistinct
      <4>3. x = p
        BY <1>7, <2>2, <4>1, <4>2
      <4> QED
        BY <1>8, <3>2, <4>3
    <3> QED
      BY <3>1, <3>2
  <2> QED
    BY <2>1, <2>2
<1>10. PassFits'
  BY <1>1, <1>5, <1>9 DEF PassFits
<1> QED
  BY <1>3, <1>4, <1>10

LEMMA StutterCall ==
  ASSUME TypeOK, TypeOK', Mild, SameResults, Handing, UNCHANGED vars
  PROVE  TriggerFits' /\ PassFits' /\ WaitFits' /\ Semaphores'
<1> USE MildSame, MisfulfilKept
<1>1. UNCHANGED <<promises, stack, call>> /\ Known' = Known /\ Grows /\ Held' = Held
  BY HeldSame DEF vars, Known, Mild
<1>2. TriggerFits'
  <2> SUFFICES ASSUME NEW p \in Known', NEW b \in Known', NEW j \in Link',
                      call'.at = "trigger", call'.self = p, ~ promises'[p].isProcessed,
                      Carried(p)' = j, links'[j].on = b, HandedOn(p)'
               PROVE  Misfulfil(b)'
    BY DEF TriggerFits
  <2>1. /\ p \in Known /\ b \in Known /\ j \in Link /\ Carried(p) = j /\ links[j].on = b
        /\ HandedOn(p) /\ call.at = "trigger" /\ call.self = p /\ ~ promises[p].isProcessed
    BY <1>1
  <2>2. Misfulfil(b)
    BY <2>1 DEF Handing, TriggerFits
  <2> QED
    BY <1>1, <2>1, <2>2
<1>3. PassFits'
  <2> SUFFICES ASSUME NEW n \in Known', call'.at = "pass", call'.self = n
               PROVE  /\ LinkMade(n)'
                      /\ \/ Misfulfil(n)'
                         \/ /\ Untouched(n)'
                            /\ \A p \in Known' : \A j \in Link' :
                                 Active(p)' /\ Carried(p)' = j => links'[j].next # n
    BY DEF PassFits
  <2>1. /\ n \in Known /\ LinkMade(n)
        /\ \/ Misfulfil(n)
           \/ /\ Untouched(n)
              /\ \A p \in Known : \A j \in Link :
                   Active(p) /\ Carried(p) = j => links[j].next # n
    BY <1>1 DEF Handing, PassFits
  <2>2. Untouched(n) => Untouched(n)'
    BY <1>1, <2>1 DEF Untouched
  <2> QED
    BY <1>1, <2>1, <2>2
<1>4. WaitFits'
  BY <1>1 DEF Handing, WaitFits
<1>5. Semaphores'
  <2>1. \A x \in Known : Free(x)' <=> Free(x)
    BY <1>1 DEF Free
  <2> QED
    BY <1>1, <2>1, HeldKnown, SemaphoresStill
<1> QED
  BY <1>2, <1>3, <1>4, <1>5

\* No other step disturbs who has which continuation.
LEMMA MildStepKeeps ==
  ASSUME TypeOK, TypeOK', Step, Handing, MildStep
  PROVE  Handing'
<1>1. Mild /\ SameResults /\ Grows
  BY MildSteps DEF Mild
<1>2. /\ LinksDistinct' /\ CarriedOnPath' /\ OneActive' /\ NotRunYet' /\ RunOnce' /\ OneFrame'
      /\ NextUntouched' /\ HandedOnOnce' /\ OwnedPending'
  BY <1>1, MildKeeps, MildResults, OwnedShrinks
<1>3. TriggerFits' /\ PassFits' /\ WaitFits' /\ Semaphores'
  BY <1>1, FulfilsAgainCall, WaitsCall, RunsCall, SkipsCall, LinkReturnsCall, SignalCall,
     NothingToRunCall, PassErrorOnCall, StutterCall DEF MildStep
<1> QED
  BY <1>2, <1>3 DEF Handing

\* A link is written: its promise gets a continuation.
LEMMA LinksKeeps ==
  ASSUME TypeOK, TypeOK', Step, Handing, NEW p \in Known, Links(p)
  PROVE  Handing'
<1>0. PICK j, q : j = Len(links) + 1 /\ q = Len(promises) + 1
  OBVIOUS
<1>1. PICK kind \in {"then", "error"} : LinkPending(p, kind) /\ Linking
  BY DEF Links
<1>2. Grows
  BY StepGrows
<1>3. /\ promises[p].result = "pending"
      /\ q # Nil /\ q \notin Known /\ Known' = Known \cup {q}
      /\ promises'[q] = NewPromise("pending")
      /\ \A x \in Known :
           /\ promises'[x].semaphore = promises[x].semaphore
           /\ promises'[x].result = promises[x].result
           /\ promises'[x].isProcessed = promises[x].isProcessed
           /\ x # p => SameContent(x)
      /\ promises'[p].resultHandler = IF kind = "then" THEN j ELSE Nil
      /\ promises'[p].errorHandler = IF kind = "error" THEN j ELSE Nil
      /\ UNCHANGED <<call, stack, passed>>
  BY <1>0, <1>1, LinkPendingDoes DEF Nil
<1>4. /\ j # Nil /\ j \notin Link /\ Link' = Link \cup {j}
      /\ \A i \in Link : links'[i] = links[i]
      /\ links'[j].on = p /\ links'[j].next = q /\ links'[j].runs = 0
  BY <1>0, <1>1, LinkPendingDoes DEF Added, Nil
<1>5. \A x \in Known : x # p => Carried(x)' = Carried(x)
  BY <1>3, SameCarried
<1>6. Carried(p)' = j /\ Carried(q)' = Nil
  BY <1>1, <1>3, <1>4 DEF Carried, NewPromise
<1>7. \A x \in Known' : \A i \in Link' : Carried(x)' = i =>
        x \in Known /\ IF x = p THEN i = j ELSE i \in Link /\ Carried(x) = i
  BY <1>3, <1>4, <1>5, <1>6, NilIsNone, Carrying
<1>8. /\ \A x \in Known : HandedOn(x)' <=> HandedOn(x)
      /\ ~ HandedOn(q)'
  <2>1. passed \subseteq Known \X (Known \cup {Nil})
    BY DEF TypeOK, References, HistoryRefers
  <2> QED
    BY <1>3, <2>1 DEF HandedOn
<1>9. \A x \in Known : Ready(x)' => Ready(x)
  BY <1>3, <1>8 DEF Ready
<1>10. \A x \in Known : Active(x)' => Active(x)
  BY <1>3, <1>9 DEF Active, InHandler
<1>11. \A x \in Known : Untouched(x) => Untouched(x)'
  BY <1>3, <1>8 DEF Untouched
<1>12. \A x \in Known' : LinkMade(x)' => x = q \/ LinkMade(x)
  BY <1>4 DEF LinkMade
<1>13. \A i \in Link : links[i].on \in Known /\ links[i].next # q
  BY <1>3, LinkOnKnown
<1>14. LinksDistinct'
  BY <1>4, <1>13 DEF Handing, LinksDistinct
<1>15. CarriedOnPath'
  <2> SUFFICES ASSUME NEW x \in Known', NEW b \in Known', NEW i \in Link',
                      Carried(x)' = i, links'[i].on = b
               PROVE  x \in Path(b)'
    BY DEF CarriedOnPath
  <2>1. CASE x = p
    <3>1. b = p /\ b \in Known'
      BY <1>4, <1>7, <2>1
    <3> QED
      BY <2>1, <3>1 DEF Path
  <2>2. CASE x # p
    <3>1. x \in Known /\ i \in Link /\ Carried(x) = i /\ links[i].on = b /\ b \in Known
      BY <1>4, <1>7, <1>13, <2>2
    <3>2. x \in Path(b)
      BY <3>1 DEF Handing, CarriedOnPath
    <3> QED
      BY <1>2, <3>1, <3>2, PathGrows
  <2> QED
    BY <2>1, <2>2
<1>16. OneActive'
  <2> SUFFICES ASSUME NEW x \in Known', NEW y \in Known', NEW b \in Known', NEW i \in Link',
                      Active(x)', Active(y)', Carried(x)' = i, Carried(y)' = i, links'[i].on = b,
                      x # y
               PROVE  Misfulfil(b)'
    BY DEF OneActive
  <2>1. /\ x \in Known /\ y \in Known /\ i \in Link /\ Carried(x) = i /\ Carried(y) = i
        /\ links[i].on = b /\ b \in Known
    BY <1>4, <1>7, <1>13
  <2>2. Misfulfil(b)
    BY <1>10, <2>1 DEF Handing, OneActive
  <2> QED
    BY <1>2, <2>1, <2>2, MisfulfilKept
<1>17. NextUntouched'
  <2> SUFFICES ASSUME NEW x \in Known', NEW n \in Known', NEW i \in Link',
                      Active(x)', Carried(x)' = i, links'[i].next = n
               PROVE  Misfulfil(n)' \/ Untouched(n)'
    BY DEF NextUntouched
  <2>1. CASE x = p
    <3>1. n = q
      BY <1>4, <1>7, <2>1
    <3> QED
      BY <1>3, <1>8, <3>1 DEF Untouched, NewPromise
  <2>2. CASE x # p
    <3>1. x \in Known /\ i \in Link /\ Carried(x) = i /\ links[i].next = n /\ n \in Known
      BY <1>3, <1>4, <1>7, <1>13, <2>2
    <3>2. Misfulfil(n) \/ Untouched(n)
      BY <1>10, <3>1 DEF Handing, NextUntouched
    <3> QED
      BY <1>2, <1>11, <3>1, <3>2, MisfulfilKept
  <2> QED
    BY <2>1, <2>2
<1>18. NotRunYet'
  <2> SUFFICES ASSUME NEW x \in Known', NEW b \in Known', NEW i \in Link',
                      Ready(x)', Carried(x)' = i, links'[i].on = b, i # j
               PROVE  links'[i].runs = 0 \/ Misfulfil(b)'
    BY <1>4 DEF NotRunYet
  <2>1. /\ x \in Known /\ i \in Link /\ Carried(x) = i /\ links[i].on = b /\ b \in Known
        /\ links'[i].runs = links[i].runs
    BY <1>4, <1>7, <1>13
  <2>2. links[i].runs = 0 \/ Misfulfil(b)
    BY <1>9, <2>1 DEF Handing, NotRunYet
  <2> QED
    BY <1>2, <2>1, <2>2, MisfulfilKept
<1>19. RunOnce'
  <2> SUFFICES ASSUME NEW b \in Known', NEW i \in Link, links'[i].on = b
               PROVE  links'[i].runs <= 1 \/ Misfulfil(b)'
    BY <1>4 DEF RunOnce
  <2>1. links[i].on = b /\ b \in Known /\ links'[i].runs = links[i].runs
    BY <1>4, <1>13
  <2>2. links[i].runs <= 1 \/ Misfulfil(b)
    BY <2>1 DEF Handing, RunOnce
  <2> QED
    BY <1>2, <2>1, <2>2, MisfulfilKept
<1>20. HandedOnOnce'
  <2> SUFFICES ASSUME NEW x \in Known', HandedOn(x)'
               PROVE  LinkMade(x)' /\ (IsFulfilled(x)' => Misfulfil(x)')
    BY DEF HandedOnOnce
  <2>1. x \in Known /\ HandedOn(x)
    BY <1>3, <1>8
  <2>2. LinkMade(x) /\ (IsFulfilled(x) => Misfulfil(x))
    BY <2>1 DEF Handing, HandedOnOnce
  <2>3. LinkMade(x)'
    BY <1>4, <2>2 DEF LinkMade
  <2>4. IsFulfilled(x)' => IsFulfilled(x)
    BY <1>3, <2>1 DEF IsFulfilled
  <2> QED
    BY <1>2, <2>1, <2>2, <2>3, <2>4, MisfulfilKept
<1>21. OneFrame'
  <2>1. \A k \in DOMAIN stack : stack[k].self \in Known
    BY DEF TypeOK, References, FrameRefers
  <2> QED
    BY <1>3, <2>1 DEF Handing, OneFrame
<1>22. OwnedPending'
  <2>1. owned \subseteq Known /\ owned' = owned
    BY <1>1 DEF TypeOK, References, HistoryRefers, Linking
  <2>2. \A x \in owned : promises[x].result = "pending" /\ ~ LinkMade(x)
    BY DEF Handing, OwnedPending
  <2>3. \A x \in owned' : promises'[x].result = "pending" /\ ~ LinkMade(x)'
    BY <1>3, <1>12, <2>1, <2>2
  <2> QED
    BY <2>3 DEF OwnedPending
<1>23. TriggerFits' /\ PassFits' /\ WaitFits'
  BY <1>1, <1>3, RunningAt, QuietCall DEF Linking
<1>24. Semaphores'
  <2>1. Held' = Held /\ Held \subseteq Known
    BY <1>3, HeldSame, HeldKnown
  <2>2. \A x \in Known : ~ Free(x)' => ~ Free(x)
    BY <1>3 DEF Free
  <2>3. \A x \in Known' : x \notin Known => Free(x)'
    BY <1>3 DEF Free, NewPromise
  <2> QED
    BY <1>2, <2>1, <2>2, <2>3, SemaphoresStill
<1> QED
  BY <1>14, <1>15, <1>16, <1>17, <1>18, <1>19, <1>20, <1>21, <1>22, <1>23, <1>24 DEF Handing

\* A handler begins: its promise is the one that runs it.
LEMMA RunHandlerKeeps ==
  ASSUME TypeOK, TypeOK', Step, Handing, RunHandler
  PROVE  Handing'
<1>0. PICK p, i : p = call.self /\ i = Carried(p)
  OBVIOUS
<1>1. /\ call.at = "trigger" /\ p \in Known /\ ~ promises[p].isProcessed
      /\ i # Nil /\ i \in Link
      /\ OnlyProcessed(p)
      /\ Pushed([in |-> "handler", self |-> p, link |-> i])
      /\ Link' = Link
      /\ \A k \in Link : LinkStays(k)
      /\ \A k \in Link : links'[k].runs = IF k = i THEN links[k].runs + 1 ELSE links[k].runs
      /\ call' = Idle
      /\ UNCHANGED <<owned, misfulfilled, passed, reused>>
  BY <1>0, RunHandlerDoes
<1>2. Grows
  BY StepGrows
<1>3. /\ Known' = Known
      /\ \A x \in Known : Carried(x)' = Carried(x) /\ promises'[x].result = promises[x].result
      /\ \A x \in Known : promises'[x].isProcessed <=> x = p \/ promises[x].isProcessed
  BY <1>1, SameCarried DEF OnlyProcessed
<1>4. \A x \in Known : HandedOn(x)' <=> HandedOn(x)
  BY <1>1, <1>3 DEF HandedOn
<1>5. \A x \in Known : Ready(x)' => Ready(x) /\ x # p
  BY <1>3, <1>4 DEF Ready
<1>6. \A x \in Known : InHandler(x)' => x = p \/ InHandler(x)
  BY <1>1 DEF InHandler, Pushed
<1>7. \A x \in Known : Active(x)' => x = p \/ Active(x)
  BY <1>5, <1>6 DEF Active
<1>8. \A x \in Known : Untouched(x) => Untouched(x)'
  BY <1>3, <1>4 DEF Untouched
<1>9. \A k \in Link : links[k].on \in Known /\ links[k].next \in Known \cup {Nil}
                      /\ links'[k].on = links[k].on /\ links'[k].next = links[k].next
  BY <1>1, LinkOnKnown DEF LinkStays
<1>10. Misfulfil(links[i].on) \/ Ready(p)
  BY <1>0, <1>1, <1>9 DEF Handing, TriggerFits, Ready
<1>11. \A x \in Known : \A j \in Link :
         Active(x)' /\ Carried(x) = j => Active(x) \/ Misfulfil(links[j].on)
  BY <1>0, <1>7, <1>10 DEF Active
<1>12. LinksDistinct'
  BY <1>1, <1>9 DEF Handing, LinksDistinct
<1>13. CarriedOnPath'
  BY <1>1, <1>2, <1>3, <1>9, PathGrows DEF Handing, CarriedOnPath
<1>14. OneActive'
  <2> SUFFICES ASSUME NEW x \in Known', NEW y \in Known', NEW b \in Known', NEW j \in Link',
                      Active(x)', Active(y)', Carried(x)' = j, Carried(y)' = j, links'[j].on = b,
                      x # y
               PROVE  Misfulfil(b)'
    BY DEF OneActive
  <2>1. /\ x \in Known /\ y \in Known /\ j \in Link /\ Carried(x) = j /\ Carried(y) = j
        /\ links[j].on = b /\ b \in Known
    BY <1>1, <1>3, <1>9
  <2>2. (Active(x) /\ Active(y)) \/ Misfulfil(b)
    BY <1>11, <2>1
  <2>3. Misfulfil(b)
    BY <2>1, <2>2 DEF Handing, OneActive
  <2> QED
    BY <1>2, <2>1, <2>3, MisfulfilKept
<1>15. NextUntouched'
  <2> SUFFICES ASSUME NEW x \in Known', NEW n \in Known', NEW j \in Link',
                      Active(x)', Carried(x)' = j, links'[j].next = n
               PROVE  Misfulfil(n)' \/ Untouched(n)'
    BY DEF NextUntouched
  <2>1. x \in Known /\ j \in Link /\ Carried(x) = j /\ links[j].next = n /\ n \in Known
    BY <1>1, <1>3, <1>9
  <2>2. Misfulfil(links[j].on) => Misfulfil(n)
    BY <2>1, MisfulfilNext, NilIsNone
  <2>3. Misfulfil(n) \/ Untouched(n)
    BY <1>11, <2>1, <2>2 DEF Handing, NextUntouched
  <2> QED
    BY <1>2, <1>8, <2>1, <2>3, MisfulfilKept
<1>16. NotRunYet'
  <2> SUFFICES ASSUME NEW x \in Known', NEW b \in Known', NEW j \in Link',
                      Ready(x)', Carried(x)' = j, links'[j].on = b
               PROVE  links'[j].runs = 0 \/ Misfulfil(b)'
    BY DEF NotRunYet
  <2>1. /\ x \in Known /\ j \in Link /\ Carried(x) = j /\ links[j].on = b /\ b \in Known
        /\ Ready(x) /\ x # p
    BY <1>1, <1>3, <1>5, <1>9
  <2>2. CASE j = i
    <3>1. Ready(p) => Misfulfil(b)
      BY <1>0, <1>1, <2>1, <2>2 DEF Handing, OneActive, Active
    <3> QED
      BY <1>2, <1>10, <2>1, <2>2, <3>1, MisfulfilKept
  <2>3. CASE j # i
    <3>1. links[j].runs = 0 \/ Misfulfil(b)
      BY <2>1 DEF Handing, NotRunYet
    <3> QED
      BY <1>1, <1>2, <2>1, <2>3, <3>1, MisfulfilKept
  <2> QED
    BY <2>2, <2>3
<1>17. RunOnce'
  <2> SUFFICES ASSUME NEW b \in Known', NEW j \in Link', links'[j].on = b
               PROVE  links'[j].runs <= 1 \/ Misfulfil(b)'
    BY DEF RunOnce
  <2>1. j \in Link /\ links[j].on = b /\ b \in Known
    BY <1>1, <1>9
  <2>2. CASE j = i
    <3>1. links[j].runs = 0 \/ Misfulfil(b)
      BY <1>0, <1>1, <1>10, <2>1, <2>2 DEF Handing, NotRunYet
    <3> QED
      BY <1>1, <1>2, <2>1, <2>2, <3>1, MisfulfilKept
  <2>3. CASE j # i
    <3>1. links[j].runs <= 1 \/ Misfulfil(b)
      BY <2>1 DEF Handing, RunOnce
    <3> QED
      BY <1>1, <1>2, <2>1, <2>3, <3>1, MisfulfilKept
  <2> QED
    BY <2>2, <2>3
<1>18. HandedOnOnce'
  <2> SUFFICES ASSUME NEW x \in Known, HandedOn(x)
               PROVE  LinkMade(x)' /\ (IsFulfilled(x)' => Misfulfil(x)')
    BY <1>3, <1>4 DEF HandedOnOnce
  <2>1. LinkMade(x) /\ (IsFulfilled(x) => Misfulfil(x))
    BY DEF Handing, HandedOnOnce
  <2>2. LinkMade(x)' /\ (IsFulfilled(x)' => IsFulfilled(x))
    BY <1>1, <1>3, <1>9, <2>1 DEF LinkMade, IsFulfilled
  <2> QED
    BY <1>2, <2>1, <2>2, MisfulfilKept
<1>19. OneFrame'
  <2>1. \A k \in DOMAIN stack :
          /\ stack[k].self \in Known
          /\ stack[k].in = "handler" => stack[k].self # p
    BY <1>1 DEF TypeOK, References, FrameRefers, Handing, OneFrame
  <2> QED
    BY <1>1, <1>3, <2>1 DEF Handing, OneFrame, Pushed
<1>20. OwnedPending'
  <2>1. owned \subseteq Known
    BY DEF TypeOK, References, HistoryRefers
  <2>2. \A x \in owned : promises[x].result = "pending" /\ ~ LinkMade(x)
    BY DEF Handing, OwnedPending
  <2>3. \A x \in owned' : promises'[x].result = "pending" /\ ~ LinkMade(x)'
    BY <1>1, <1>3, <1>9, <2>1, <2>2 DEF LinkMade
  <2> QED
    BY <2>3 DEF OwnedPending
<1>21. TriggerFits' /\ PassFits' /\ WaitFits'
  BY <1>1, QuietCall DEF Idle
<1>22. Semaphores'
  <2>1. Held' = Held /\ Held \subseteq Known
    BY <1>1, HeldPushed, HeldKnown
  <2>2. \A x \in Known : ~ Free(x)' => ~ Free(x)
    BY <1>1 DEF Free, OnlyProcessed
  <2> QED
    BY <1>2, <1>3, <2>1, <2>2, SemaphoresStill
<1> QED
  BY <1>12, <1>13, <1>14, <1>15, <1>16, <1>17, <1>18, <1>19, <1>20, <1>21, <1>22 DEF Handing
LEMMA OnBehindPassed ==
  TypeOK => \A b \in Known : \A p \in Path(b) : \A q \in Known :
              <<p, q>> \in passed => q \in Path(b)
<1>1. \A b : Path(b) \subseteq Known
  BY DEF Path
<1> QED
  BY <1>1, PathBacked DEF Backed

LEMMA OnBehindPassedNext ==
  ASSUME TypeOK'
  PROVE  \A b \in Known' : \A p \in Path(b)' : \A q \in Known' :
           <<p, q>> \in passed' => q \in Path(b)'
<1>1. (TypeOK => \A b \in Known : \A p \in Path(b) : \A q \in Known :
                   <<p, q>> \in passed => q \in Path(b))'
  BY OnBehindPassed, PTL
<1> QED
  BY <1>1

\* A handler ends, and its continuation is handed on to the promise it returned.
LEMMA HandlerReturnsKeeps ==
  ASSUME TypeOK, TypeOK', Step, Handing, NEW q \in Known \cup {Nil}, HandlerReturns(q)
  PROVE  Handing'
<1>0. PICK x, n : x = Top.self /\ n = promises[x].next
  OBVIOUS
<1>1. /\ Top.in = "handler" /\ x \in Known /\ n \in Known \cup {Nil}
      /\ TakenOff
      /\ Link' = Link
      /\ \A k \in Link : LinkStays(k) /\ links'[k].runs = links[k].runs
      /\ passed' = IF n = Nil THEN passed ELSE passed \cup {<<n, q>>}
      /\ Known' = Known
      /\ \A y \in Known :
           /\ promises'[y].semaphore = promises[y].semaphore
           /\ promises'[y].result = promises[y].result
           /\ promises'[y].isProcessed = promises[y].isProcessed
           /\ y # q => SameContent(y)
      /\ q # Nil =>
           /\ promises'[q].resultHandler = IF n = Nil THEN Nil ELSE promises[n].resultHandler
           /\ promises'[q].errorHandler = IF n = Nil THEN Nil ELSE promises[n].errorHandler
      /\ call' = IF q = Nil THEN Resume(Pop) ELSE GoOn(q)
      /\ UNCHANGED <<owned, misfulfilled>>
  BY <1>0, HandlerReturnsDoes
<1>2. Grows
  BY StepGrows
<1>3. Nil \notin Known /\ Nil \notin Link
  BY NilIsNone
<1>4. \A y \in Known : y # q => Carried(y)' = Carried(y)
  BY <1>1, SameCarried
<1>5. q # Nil => Carried(q)' = IF n = Nil THEN Nil ELSE Carried(n)
  BY <1>1 DEF Carried
<1>6. \A k \in Link : links[k].on \in Known /\ links[k].next \in Known \cup {Nil}
                      /\ links'[k].on = links[k].on /\ links'[k].next = links[k].next
  BY <1>1, LinkOnKnown DEF LinkStays
\* The promise whose handler has returned.
<1>7. InHandler(x) /\ promises[x].isProcessed
  BY <1>0, <1>1 DEF TakenOff, InHandler, Handing, OneFrame
<1>8. \A y \in Known : InHandler(y)' => InHandler(y) /\ y # x
  BY <1>0, <1>1 DEF TakenOff, InHandler, Handing, OneFrame
<1>9. \A y \in Known : HandedOn(y)' <=> HandedOn(y) \/ y = n
  BY <1>1, <1>3 DEF HandedOn
<1>10. \A y \in Known : Ready(y)' => Ready(y) /\ y # n
  BY <1>1, <1>9 DEF Ready
<1>11. \A y \in Known : Active(y)' => Active(y) /\ y # x
  BY <1>7, <1>8, <1>10 DEF Active, Ready
\* The promise its continuation is taken from.
<1>12. n # Nil =>
         /\ Carried(x) \in Link /\ links[Carried(x)].next = n /\ n \in Known
         /\ Misfulfil(n) \/ (Untouched(n) /\ Ready(n))
  <2> SUFFICES ASSUME n # Nil
               PROVE  /\ Carried(x) \in Link /\ links[Carried(x)].next = n /\ n \in Known
                      /\ Misfulfil(n) \/ (Untouched(n) /\ Ready(n))
    OBVIOUS
  <2>1. Carried(x) \in Link /\ links[Carried(x)].next = n /\ n \in Known
    BY <1>0, <1>1, NotCarrying, Carrying
  <2>2. Misfulfil(n) \/ Untouched(n)
    BY <1>1, <1>7, <2>1 DEF Handing, NextUntouched, Active
  <2>3. Untouched(n) => Ready(n)
    BY <2>1, ProcessedSettled DEF Untouched, Ready, IsFulfilled
  <2> QED
    BY <2>1, <2>2, <2>3
\* Where a continuation that somebody carries comes from.
<1>13. \A y \in Known : \A j \in Link : Carried(y)' = j =>
         \E s \in Known :
           /\ Carried(s) = j
           /\ s = IF y = q THEN n ELSE y
           /\ y = q => Misfulfil(links[j].on) \/ (Untouched(n) /\ Ready(n))
  <2> SUFFICES ASSUME NEW y \in Known, NEW j \in Link, Carried(y)' = j
               PROVE  \E s \in Known :
                        /\ Carried(s) = j
                        /\ s = IF y = q THEN n ELSE y
                        /\ y = q => Misfulfil(links[j].on) \/ (Untouched(n) /\ Ready(n))
    OBVIOUS
  <2>1. CASE y # q
    BY <1>4, <2>1
  <2>2. CASE y = q
    <3>1. n # Nil /\ n \in Known /\ Carried(n) = j
      BY <1>1, <1>3, <1>5, <2>2
    <3>2. n \in Path(links[j].on)
      BY <1>6, <3>1 DEF Handing, CarriedOnPath
    <3>3. Misfulfil(n) => Misfulfil(links[j].on)
      BY <1>6, <3>2, MisfulfilUp
    <3> QED
      BY <1>12, <2>2, <3>1, <3>3
  <2> QED
    BY <2>1, <2>2
<1>14. \A y \in Known : \A j \in Link : Carried(y)' = j /\ Active(y)' =>
         \E s \in Known :
           /\ Carried(s) = j
           /\ s = IF y = q THEN n ELSE y
           /\ Misfulfil(links[j].on) \/ (Active(s) /\ s # x)
  <2>1. Ready(n) => Active(n) /\ n # x
    BY <1>7 DEF Active, Ready
  <2> QED
    BY <1>11, <1>13, <2>1
<1>15. \A y \in Known : Untouched(y) /\ y # n => Untouched(y)'
  BY <1>1, <1>9 DEF Untouched
<1>16. LinksDistinct'
  BY <1>1, <1>6 DEF Handing, LinksDistinct
<1>17. CarriedOnPath'
  <2> SUFFICES ASSUME NEW y \in Known', NEW b \in Known', NEW j \in Link',
                      Carried(y)' = j, links'[j].on = b
               PROVE  y \in Path(b)'
    BY DEF CarriedOnPath
  <2>1. y \in Known /\ b \in Known /\ j \in Link /\ links[j].on = b
    BY <1>1, <1>6
  <2>2. PICK s \in Known : Carried(s) = j /\ s = IF y = q THEN n ELSE y
    BY <1>13, <2>1
  <2>3. s \in Path(b)'
    <3>1. s \in Path(b)
      BY <2>1, <2>2 DEF Handing, CarriedOnPath
    <3> QED
      BY <1>2, <2>1, <3>1, PathGrows
  <2>4. CASE y = q
    <3>1. <<n, q>> \in passed' /\ s = n
      BY <1>1, <1>3, <2>2, <2>4
    <3> QED
      BY <2>3, <2>4, <3>1, OnBehindPassedNext
  <2> QED
    BY <2>2, <2>3, <2>4
<1>18. OneActive'
  <2> SUFFICES ASSUME NEW y \in Known', NEW z \in Known', NEW b \in Known', NEW j \in Link',
                      Active(y)', Active(z)', Carried(y)' = j, Carried(z)' = j, links'[j].on = b,
                      y # z, z # q
               PROVE  Misfulfil(b)'
    BY DEF OneActive
  <2>1. y \in Known /\ z \in Known /\ b \in Known /\ j \in Link /\ links[j].on = b
    BY <1>1, <1>6
  <2>2. Carried(z) = j /\ Active(z)
    BY <1>4, <1>11, <2>1
  <2>3. PICK s \in Known :
          /\ Carried(s) = j
          /\ s = IF y = q THEN n ELSE y
          /\ Misfulfil(b) \/ Active(s)
          /\ y = q => Misfulfil(b) \/ Ready(n)
    BY <1>13, <1>14, <2>1
  <2>4. s = z => Misfulfil(b)
    <3>1. z = n /\ Ready(n) => ~ Active(z)'
      BY <1>8, <1>10, <2>1, HandlerProcessed DEF Active, Ready
    <3> QED
      BY <2>3, <3>1
  <2>5. Misfulfil(b)
    BY <2>1, <2>2, <2>3, <2>4 DEF Handing, OneActive
  <2> QED
    BY <1>2, <2>1, <2>5, MisfulfilKept
<1>19. NextUntouched'
  <2> SUFFICES ASSUME NEW y \in Known', NEW m \in Known', NEW j \in Link',
                      Active(y)', Carried(y)' = j, links'[j].next = m
               PROVE  Misfulfil(m)' \/ Untouched(m)'
    BY DEF NextUntouched
  <2>1. y \in Known /\ m \in Known /\ j \in Link /\ links[j].next = m /\ links[j].on \in Known
    BY <1>1, <1>6
  <2>2. PICK s \in Known :
          Carried(s) = j /\ (Misfulfil(links[j].on) \/ (Active(s) /\ s # x))
    BY <1>14, <2>1
  <2>3. Misfulfil(links[j].on) => Misfulfil(m)
    BY <1>3, <2>1, MisfulfilNext
  <2>4. Misfulfil(m) \/ Untouched(m)
    BY <2>1, <2>2, <2>3 DEF Handing, NextUntouched
  <2>5. m = n => Misfulfil(m)
    <3> SUFFICES ASSUME m = n PROVE Misfulfil(m)
      OBVIOUS
    <3>1. Carried(x) = j
      BY <1>3, <1>12, <2>1 DEF Handing, LinksDistinct
    <3>2. Active(x)
      BY <1>7 DEF Active
    <3> QED
      BY <1>1, <2>1, <2>2, <2>3, <3>1, <3>2 DEF Handing, OneActive
  <2> QED
    BY <1>2, <1>15, <2>1, <2>4, <2>5, MisfulfilKept
<1>20. NotRunYet'
  <2> SUFFICES ASSUME NEW y \in Known', NEW b \in Known', NEW j \in Link',
                      Ready(y)', Carried(y)' = j, links'[j].on = b
               PROVE  links'[j].runs = 0 \/ Misfulfil(b)'
    BY DEF NotRunYet
  <2>1. y \in Known /\ b \in Known /\ j \in Link /\ links[j].on = b
    BY <1>1, <1>6
  <2>2. PICK s \in Known : Carried(s) = j /\ (Misfulfil(b) \/ Ready(s))
    BY <1>10, <1>13, <2>1
  <2>3. links[j].runs = 0 \/ Misfulfil(b)
    BY <2>1, <2>2 DEF Handing, NotRunYet
  <2> QED
    BY <1>1, <1>2, <2>1, <2>3, MisfulfilKept
<1>21. RunOnce'
  <2> SUFFICES ASSUME NEW b \in Known', NEW j \in Link', links'[j].on = b
               PROVE  links'[j].runs <= 1 \/ Misfulfil(b)'
    BY DEF RunOnce
  <2>1. b \in Known /\ j \in Link /\ links[j].on = b
    BY <1>1, <1>6
  <2>2. links[j].runs <= 1 \/ Misfulfil(b)
    BY <2>1 DEF Handing, RunOnce
  <2> QED
    BY <1>1, <1>2, <2>1, <2>2, MisfulfilKept
<1>22. HandedOnOnce'
  <2> SUFFICES ASSUME NEW y \in Known, HandedOn(y) \/ y = n
               PROVE  LinkMade(y)' /\ (IsFulfilled(y)' => Misfulfil(y)')
    BY <1>1, <1>9 DEF HandedOnOnce
  <2>1. LinkMade(y) /\ (IsFulfilled(y) => Misfulfil(y))
    <3>1. CASE HandedOn(y)
      BY <3>1 DEF Handing, HandedOnOnce
    <3>2. CASE y = n
      BY <1>3, <1>12, <3>2 DEF LinkMade, Untouched, IsFulfilled
    <3> QED
      BY <3>1, <3>2
  <2>2. LinkMade(y)' /\ (IsFulfilled(y)' => IsFulfilled(y))
    BY <1>1, <1>6, <2>1 DEF LinkMade, IsFulfilled
  <2> QED
    BY <1>2, <2>1, <2>2, MisfulfilKept
<1>23. OneFrame'
  <2>1. \A k \in DOMAIN stack : stack[k].self \in Known
    BY DEF TypeOK, References, FrameRefers
  <2> QED
    BY <1>1, <2>1 DEF Handing, OneFrame, TakenOff
<1>24. OwnedPending'
  <2>1. owned \subseteq Known
    BY DEF TypeOK, References, HistoryRefers
  <2>2. \A y \in owned : promises[y].result = "pending" /\ ~ LinkMade(y)
    BY DEF Handing, OwnedPending
  <2>3. \A y \in owned' : promises'[y].result = "pending" /\ ~ LinkMade(y)'
    BY <1>1, <1>6, <2>1, <2>2 DEF LinkMade
  <2> QED
    BY <2>3 DEF OwnedPending
<1>25. call'.at \notin {"pass", "wait"}
       /\ (call'.at = "trigger" => call'.self = q /\ q # Nil /\ IsFulfilled(q))
  BY <1>1 DEF GoOn, Resume, Idle
<1>26. TriggerFits'
  <2> SUFFICES ASSUME NEW y \in Known', NEW b \in Known', NEW j \in Link',
                      call'.at = "trigger", call'.self = y, Carried(y)' = j, links'[j].on = b,
                      HandedOn(y)'
               PROVE  Misfulfil(b)'
    BY DEF TriggerFits
  <2>1. y = q /\ y \in Known /\ IsFulfilled(y)'
    BY <1>1, <1>25 DEF IsFulfilled
  <2>2. Misfulfil(y)'
    BY <1>22, <2>1 DEF HandedOnOnce
  <2>3. y \in Path(b)'
    BY <1>17 DEF CarriedOnPath
  <2> QED
    BY <2>2, <2>3, UpThePathNext
<1>27. PassFits' /\ WaitFits'
  BY <1>25 DEF PassFits, WaitFits
<1>28. Semaphores'
  <2>1. Held' = Held /\ Held \subseteq Known
    BY <1>1, HeldTakenOff, HeldKnown
  <2>2. \A y \in Known : ~ Free(y)' => ~ Free(y)
    BY <1>1 DEF Free
  <2> QED
    BY <1>1, <1>2, <2>1, <2>2, SemaphoresStill
<1> QED
  BY <1>16, <1>17, <1>18, <1>19, <1>20, <1>21, <1>22, <1>23, <1>24, <1>26, <1>27, <1>28
     DEF Handing

\* No promise has a continuation in the beginning.
LEMMA HandingInit == Init => Handing
<1> SUFFICES ASSUME Init PROVE Handing
  OBVIOUS
<1>1. PICK n \in 0 .. MaxPromises : \E status \in [1 .. n -> Status] :
        /\ promises = [p \in 1 .. n |-> NewPromise(status[p])]
        /\ owned = {p \in 1 .. n : status[p] = "pending"}
  BY DEF Init
<1>2. PICK status \in [1 .. n -> Status] :
        /\ promises = [p \in 1 .. n |-> NewPromise(status[p])]
        /\ owned = {p \in 1 .. n : status[p] = "pending"}
  BY <1>1
<1>3. Known = 1 .. n /\ \A p \in Known : promises[p] = NewPromise(status[p])
  BY <1>2 DEF Known
<1>4. Link = {} /\ DOMAIN stack = {} /\ passed = {} /\ call.at = "application"
  BY DEF Init, Link, Idle
<1>5. /\ LinksDistinct /\ CarriedOnPath /\ OneActive /\ NextUntouched /\ NotRunYet /\ RunOnce
      /\ OneFrame /\ TriggerFits /\ PassFits /\ WaitFits
  BY <1>4 DEF LinksDistinct, CarriedOnPath, OneActive, NextUntouched, NotRunYet, RunOnce,
              OneFrame, TriggerFits, PassFits, WaitFits
<1>6. HandedOnOnce
  BY <1>4 DEF HandedOnOnce, HandedOn
<1>7. OwnedPending
  BY <1>2, <1>3, <1>4 DEF OwnedPending, LinkMade, NewPromise
<1>8. Semaphores
  <2>1. Held = {}
    BY <1>4 DEF Held
  <2>2. \A s : NewPromise(s).semaphore = 1
    BY DEF NewPromise
  <2>3. \A p \in Known : Free(p)
    BY <1>3, <2>2 DEF Free
  <2> QED
    BY <2>1, <2>3 DEF Semaphores
<1> QED
  BY <1>5, <1>6, <1>7, <1>8 DEF Handing

\* Handing is inductive, one case for each kind of step.
LEMMA HandingNext == TypeOK /\ Handing /\ [Next]_vars => Handing'
<1> SUFFICES ASSUME TypeOK, Handing, [Next]_vars PROVE Handing'
  OBVIOUS
<1>1. Step /\ TypeOK'
  BY Steps, TypeNext
<1>2. CASE \E p \in Known : Fulfils(p)
  BY <1>1, <1>2, FulfilsKeeps
<1>3. CASE \E p \in Known : Links(p)
  BY <1>1, <1>3, LinksKeeps
<1>4. CASE RunHandler
  BY <1>1, <1>4, RunHandlerKeeps
<1>5. CASE \E q \in Known \cup {Nil} : HandlerReturns(q)
  BY <1>1, <1>5, HandlerReturnsKeeps
<1>6. CASE MildStep
  BY <1>1, <1>6, MildStepKeeps
<1> QED
  BY <1>1, <1>2, <1>3, <1>4, <1>5, <1>6 DEF Step, MildStep

\* Every continuation is where it should be, but for what was misfulfilled: on the
\* promises on the way to it, at one place to run, its next promise still untouched.
THEOREM HandingCorrect == Spec => []Handing
<1>1. Init => Handing
  BY HandingInit
<1>2. TypeOK /\ Handing /\ [Next]_vars => Handing'
  BY HandingNext
<1> QED
  BY <1>1, <1>2, TypeCorrect, PTL DEF Spec

\* copyHandlersFromPromise: leaves the handlers where it found them, and isProcessed
\* is of the promise; yet a handler runs once, where no promise on the way to its
\* own was fulfilled that a link had made or that was settled.
THEOREM RunsOnce == Spec => []TwiceOnlyByMisfulfil
<1>1. TypeOK /\ Handing => TwiceOnlyByMisfulfil
  <2> SUFFICES ASSUME TypeOK, Handing, NEW j \in Link, links[j].runs > 1
               PROVE  Misfulfil(links[j].on)
    BY DEF TwiceOnlyByMisfulfil, Misfulfil
  <2>1. links[j].on \in Known /\ links[j].runs \in Nat
    BY LinkOnKnown, LinkIsTyped DEF LinkType
  <2>2. links[j].runs <= 1 \/ Misfulfil(links[j].on)
    BY <2>1 DEF Handing, RunOnce
  <2> QED
    BY <2>1, <2>2
<1> QED
  BY <1>1, TypeCorrect, HandingCorrect, PTL

\* A semaphore that a call waits for in vain is one that the call's own callers
\* hold and the application asks for, or that of a promise fulfilled twice: the
\* library never waits, of itself, for a call it is part of.
THEOREM WaitsByMisuse == Spec => []BlockedOnlyByMisuse
<1>1. TypeOK /\ Handing => BlockedOnlyByMisuse
  <2> SUFFICES ASSUME TypeOK, Handing, call.at = "wait"
               PROVE  (call.by = "application" /\ call.self \in Held) \/ Misfulfil(call.self)
    BY DEF BlockedOnlyByMisuse, Misfulfil
  <2>1. call.self \in Known
    BY DEF TypeOK, References, CallRefers
  <2> QED
    BY <2>1 DEF Handing, WaitFits
<1> QED
  BY <1>1, TypeCorrect, HandingCorrect, PTL
-----------------------------------------------------------------------------
(* What became of the handlers                                               *)

FrameKept(k) == k \in DOMAIN stack /\ stack'[k] = stack[k]

\* The links that no handler runs for made no promise; a link that is written now
\* and made none has run its handler, or its promise has settled to the other kind;
\* and only such a link may get another promise returned to it.
LinksAnswer ==
  /\ \A k \in DOMAIN stack' :
       stack'[k].in = "link" => FrameKept(k) \/ links'[stack'[k].link].next = Nil
  /\ \A i \in Link : links[i].next # Nil => links'[i].returned = links[i].returned
  /\ \A i \in Link' : i \notin Link /\ links'[i].runs = 0 =>
       \A b \in Known' : links'[i].on = b =>
         /\ promises'[b].result # "pending"
         /\ ~ Matches(promises'[b].result, links'[i].kind)

\* The library goes on with an error that it passes until it has passed it.
PassGoesOn ==
  call.at \in {"pass", "wait"} =>
    \/ call'.at \in {"pass", "wait"} /\ call'.self = call.self
    \/ promises'[call.self].result # "pending"

\* And with a promise that it triggers until it has served it.
TriggerGoesOn ==
  \A p \in Known : \A j \in Link : \A result \in Settled :
    call.at = "trigger" /\ call.self = p /\ ~ promises[p].isProcessed
    /\ Carried(p) = j /\ promises[p].result = result
    => \/ call'.at = "trigger" /\ call'.self = p /\ ~ promises'[p].isProcessed
       \/ Served(j, result)'

\* A mild step leaves everybody served.
LEMMA MildServes ==
  ASSUME TypeOK, TypeOK', Mild, Serving, LinksAnswer
  PROVE  FramesFit' /\ Returns' /\ LinkedThere' /\ PassedOver'
<1>1. Grows /\ Known \subseteq Known' /\ Link \subseteq Link' /\ reused \subseteq reused'
  BY DEF Mild, Grows
<1>2. Nil \notin Known /\ Nil \notin Link /\ Nil \notin Known' /\ Nil \notin Link'
  BY NilIsNone, UpThePathNext
<1>3. \A i \in Link : /\ links'[i].kind = links[i].kind
                      /\ links'[i].on = links[i].on /\ links'[i].next = links[i].next
  BY <1>1 DEF Grows, LinkStays
<1>4. FramesFit'
  <2> SUFFICES ASSUME NEW k \in DOMAIN stack', NEW x \in Known', NEW b \in Known', NEW i \in Link',
                      stack'[k].in # "fulfil", stack'[k].self = x, stack'[k].link = i,
                      links'[i].on = b
               PROVE  /\ stack'[k].in = "link" => links'[i].next = Nil
                      /\ stack'[k].in = "handler" =>
                           /\ links'[i].next # Nil
                           /\ x \in Path(b)'
                           /\ x \in reused' \/ Carried(x)' = i
    BY DEF FramesFit
  <2>1. CASE FrameKept(k)
    <3>1. k \in DOMAIN stack /\ stack'[k] = stack[k]
      BY <2>1 DEF FrameKept
    <3>2. x \in Known /\ i \in Link /\ b \in Known /\ links[i].on = b
      BY <1>3, <3>1, LinkOnKnown DEF TypeOK, References, FrameRefers
    <3>3. /\ stack[k].in = "link" => links[i].next = Nil
          /\ stack[k].in = "handler" =>
               links[i].next # Nil /\ x \in Path(b) /\ (x \in reused \/ Carried(x) = i)
      BY <3>1, <3>2 DEF Serving, FramesFit
    <3> QED
      BY <1>1, <1>3, <3>1, <3>2, <3>3, PathGrows DEF Mild
  <2>2. CASE ~ FrameKept(k)
    BY <2>2 DEF LinksAnswer, FrameKept, Mild
  <2> QED
    BY <2>1, <2>2
<1>5. Returns'
  <2> SUFFICES ASSUME NEW n \in Known', NEW q \in Known', NEW i \in Link',
                      links'[i].next = n, links'[i].returned = q
               PROVE  \/ Reuse(n)'
                      \/ /\ <<n, q>> \in passed'
                         /\ Carried(n)' = Nil \/ Carried(q)' = Carried(n)'
    BY DEF Returns
  <2>1. i \in Link /\ links[i].next = n /\ links[i].returned = q
    BY <1>2, <1>3 DEF LinksAnswer, Mild
  <2>2. n \in Known /\ q \in Known
    BY <1>2, <2>1 DEF TypeOK, References, LinkRefers
  <2>3. Reuse(n) \/ (<<n, q>> \in passed /\ (Carried(n) = Nil \/ Carried(q) = Carried(n)))
    BY <2>1, <2>2 DEF Serving, Returns
  <2> QED
    BY <1>1, <2>2, <2>3, MisfulfilKept DEF Mild
<1>6. LinkedThere'
  <2> SUFFICES ASSUME NEW b \in Known', NEW i \in Link', links'[i].next # Nil, links'[i].on = b
               PROVE  b \in reused' \/ Carried(b)' = i
    BY DEF LinkedThere
  <2>1. i \in Link /\ links[i].next # Nil /\ links[i].on = b /\ b \in Known
    BY <1>3, LinkOnKnown DEF Mild
  <2>2. b \in reused \/ Carried(b) = i
    BY <2>1 DEF Serving, LinkedThere
  <2> QED
    BY <1>1, <2>1, <2>2 DEF Mild
<1>7. PassedOver'
  <2> SUFFICES ASSUME NEW b \in Known', NEW i \in Link', links'[i].next = Nil, links'[i].runs = 0,
                      links'[i].on = b
               PROVE  promises'[b].result # "pending" /\ ~ Matches(promises'[b].result, links'[i].kind)
    BY DEF PassedOver, IsFulfilled, Matches
  <2>1. CASE i \in Link
    <3>1. links[i].next = Nil /\ links[i].runs = 0 /\ links[i].on = b /\ b \in Known
      BY <1>3, <2>1, LinkOnKnown DEF Mild
    <3>2. IsFulfilled(b) /\ ~ Matches(promises[b].result, links[i].kind)
      BY <2>1, <3>1 DEF Serving, PassedOver
    <3> QED
      BY <1>1, <1>3, <2>1, <3>1, <3>2 DEF Grows, IsFulfilled
  <2>2. CASE i \notin Link
    BY <2>2 DEF LinksAnswer
  <2> QED
    BY <2>1, <2>2
<1> QED
  BY <1>4, <1>5, <1>6, <1>7

\* A promise that was settled stays served, whatever step comes after it.
LEMMA StillServed ==
  ASSUME TypeOK, Grows, NEW j \in Link, NEW result, Served(j, result), links[j].next \in Known,
         links[j].runs > 0 => links'[j].runs > 0, PassGoesOn
  PROVE  Served(j, result)'
<1>1. links'[j].kind = links[j].kind /\ links'[j].next = links[j].next
  BY DEF Grows, LinkStays
<1>2. links[j].runs \in Nat
  BY LinkIsTyped DEF LinkType
<1>3. promises[links[j].next].result # "pending" => promises'[links[j].next].result # "pending"
  BY DEF Grows
<1>4. Matches(result, links[j].kind) => links[j].runs > 0
  BY DEF Served
<1>5. result = "error" /\ links[j].kind = "then" /\ links[j].runs = 0 =>
        \/ promises[links[j].next].result # "pending"
        \/ call.at \in {"pass", "wait"} /\ call.self = links[j].next
  BY DEF Served
<1>6. links'[j].runs = 0 => links[j].runs = 0
  BY <1>2
<1>7. result = "error" /\ links'[j].kind = "then" /\ links'[j].runs = 0 =>
        \/ promises'[links'[j].next].result # "pending"
        \/ call'.at \in {"pass", "wait"} /\ call'.self = links'[j].next
  BY <1>1, <1>3, <1>5, <1>6 DEF PassGoesOn
<1>8. Matches(result, links'[j].kind) => links'[j].runs > 0
  BY <1>1, <1>4
<1> QED
  BY <1>7, <1>8 DEF Served, Matches
LEMMA MildSettles ==
  ASSUME TypeOK, TypeOK', Mild, SameResults, Serving, PassGoesOn, TriggerGoesOn
  PROVE  SettledServed'
<1>1. Grows
  BY DEF Mild
<1> SUFFICES ASSUME NEW p \in Known', NEW j \in Link', NEW result,
                    promises'[p].result = result,
                    result # "pending", p \notin reused', Carried(p)' = j
             PROVE  \/ call'.at = "trigger" /\ call'.self = p /\ ~ promises'[p].isProcessed
                    \/ Served(j, result)'
  BY DEF SettledServed, IsFulfilled
<1>2. p \in Known /\ j \in Link /\ Carried(p) = j
  BY MildSame
<1>3. promises[p].result = result /\ p \notin reused
  BY <1>1, <1>2 DEF SameResults, Grows
<1>4. result \in Settled
  BY <1>2, <1>3, PromiseIsTyped DEF PromiseType, Status
<1>5. \/ call.at = "trigger" /\ call.self = p /\ ~ promises[p].isProcessed
      \/ Served(j, result)
  BY <1>2, <1>3 DEF Serving, SettledServed, IsFulfilled
<1>6. links[j].next \in Known
  BY <1>2, Carrying, NilIsNone
<1>7. links[j].runs > 0 => links'[j].runs > 0
  BY <1>2 DEF Mild
<1>8. Served(j, result) => Served(j, result)'
  BY <1>1, <1>2, <1>6, <1>7, StillServed
<1> QED
  BY <1>2, <1>3, <1>4, <1>5, <1>8 DEF TriggerGoesOn

\* A promise that is settled is now to be processed.
LEMMA FulfilsServes ==
  ASSUME TypeOK, TypeOK', Step, Serving, NEW p \in Known, Fulfils(p)
  PROVE  Serving'
<1>1. PICK result \in Settled : Fulfil(p, result) /\ (ByApplication(p) \/ ByLibrary(p))
  BY DEF Fulfils
<1>2. Mild /\ Grows
  BY FulfilsMild DEF Mild
<1>3. /\ promises[p].result = "pending" /\ promises'[p].result # "pending"
      /\ Known' = Known
      /\ \A x \in Known : x # p => promises'[x].result = promises[x].result
      /\ \A x \in Known : promises'[x].isProcessed = promises[x].isProcessed
      /\ Pushed([in |-> "fulfil", self |-> p])
      /\ call' = IF Continues(p) THEN [at |-> "trigger", self |-> p] ELSE [at |-> "signal"]
      /\ UNCHANGED <<links, reused>>
  BY <1>1, FulfilDoes DEF Settled
<1>4. FramesFit' /\ Returns' /\ LinkedThere' /\ PassedOver'
  <2>1. \A k \in DOMAIN stack' : stack'[k].in = "link" => FrameKept(k)
    BY <1>3 DEF Pushed, FrameKept
  <2>2. Link' = Link /\ \A i \in Link : links'[i].returned = links[i].returned
    BY <1>3 DEF Link
  <2> QED
    BY <1>2, <2>1, <2>2, MildServes DEF LinksAnswer
<1>5. SettledServed'
  <2> SUFFICES ASSUME NEW x \in Known', NEW j \in Link', NEW r,
                      promises'[x].result = r, r # "pending", x \notin reused', Carried(x)' = j
               PROVE  \/ call'.at = "trigger" /\ call'.self = x /\ ~ promises'[x].isProcessed
                      \/ Served(j, r)'
    BY DEF SettledServed, IsFulfilled
  <2>1. x \in Known /\ j \in Link /\ Carried(x) = j /\ x \notin reused
    BY <1>2, <1>3, MildSame
  <2>2. links[j].next \in Known /\ promises[x].next # Nil
    BY <2>1, Carrying, NilIsNone
  <2>3. CASE x = p
    <3>1. call' = [at |-> "trigger", self |-> p]
      BY <1>3, <2>2, <2>3 DEF Continues
    <3>2. ~ promises[p].isProcessed
      BY <1>3, ProcessedSettled
    <3> QED
      BY <1>3, <2>3, <3>1, <3>2
  <2>4. CASE x # p
    <3>1. call.at \in {"application", "pass"}
      BY <1>1 DEF ByApplication, ByLibrary, Running, Idle
    <3>2. promises[x].result = r
      BY <1>3, <2>1, <2>4
    <3>3. Served(j, r)
      BY <2>1, <3>1, <3>2 DEF Serving, SettledServed, IsFulfilled
    <3>4. PassGoesOn
      BY <1>1, <1>3 DEF ByApplication, ByLibrary, Running, Idle, PassGoesOn
    <3>5. links[j].runs > 0 => links'[j].runs > 0
      BY <1>3
    <3> QED
      BY <1>2, <2>1, <2>2, <3>3, <3>4, <3>5, StillServed
  <2> QED
    BY <2>3, <2>4
<1> QED
  BY <1>4, <1>5 DEF Serving

\* The steps that leave the links as they are, or write one that makes no promise.
LEMMA MildStepServes ==
  ASSUME TypeOK, TypeOK', Step, Serving, MildStep
  PROVE  Serving'
<1>1. Mild /\ SameResults
  BY MildSteps
<1>2. Grows /\ \A p \in Known : promises'[p].result = promises[p].result
  BY <1>1 DEF Mild, SameResults
\* The application runs, or the library signals: nothing is passed or triggered.
<1>3. call.at \in {"application", "signal"} => PassGoesOn /\ TriggerGoesOn
  BY DEF PassGoesOn, TriggerGoesOn
<1>4. call.at \in {"pass", "wait"} => TriggerGoesOn
  BY DEF TriggerGoesOn
<1>5. call.at = "trigger" => PassGoesOn
  BY DEF PassGoesOn
<1>6. UNCHANGED <<links, stack>> => LinksAnswer
  BY DEF LinksAnswer, FrameKept, Link
<1>7. ASSUME NEW p \in Known, FulfilsAgain(p)
      PROVE  LinksAnswer /\ PassGoesOn /\ TriggerGoesOn
  <2>1. IsFulfilled(p) /\ UNCHANGED <<links, stack>>
    BY <1>7, FulfilAgainDoes DEF FulfilsAgain
  <2>2. CASE ByApplication(p)
    BY <1>3, <1>6, <2>1, <2>2, RunningAt DEF ByApplication
  <2>3. CASE ByLibrary(p)
    <3>1. PassGoesOn
      BY <1>2, <2>1, <2>3 DEF ByLibrary, PassGoesOn, IsFulfilled
    <3> QED
      BY <1>4, <1>6, <2>1, <2>3, <3>1 DEF ByLibrary
  <2> QED
    BY <1>7, <2>2, <2>3 DEF FulfilsAgain
<1>8. ASSUME NEW p \in Known, Waits(p)
      PROVE  LinksAnswer /\ PassGoesOn /\ TriggerGoesOn
  <2>1. UNCHANGED <<links, stack>> /\ call'.at = "wait" /\ call'.self = p
    BY <1>8 DEF Waits, Blocks
  <2>2. call.at = "application" \/ (call.at = "pass" /\ call.self = p)
    BY <1>8 DEF Waits, ByApplication, ByLibrary, Linking, Running, Idle
  <2>3. call.at = "pass" /\ call.self = p => PassGoesOn
    BY <2>1 DEF PassGoesOn
  <2> QED
    BY <1>3, <1>4, <1>6, <2>1, <2>2, <2>3
<1>9. ASSUME NEW p \in Known, Runs(p)
      PROVE  LinksAnswer /\ PassGoesOn /\ TriggerGoesOn
  <2>1. PICK kind \in {"then", "error"} : LinkRuns(p, kind) /\ Linking
    BY <1>9 DEF Runs
  <2>2. PICK j : j = Len(links) + 1
    OBVIOUS
  <2>3. /\ Pushed([in |-> "link", self |-> p, link |-> j])
        /\ Added(kind, p, Nil, 1)
    BY <2>1, <2>2, LinkRunsDoes
  <2>4. LinksAnswer
    BY <2>2, <2>3 DEF LinksAnswer, Pushed, Added, FrameKept
  <2> QED
    BY <1>3, <2>1, <2>4, RunningAt DEF Linking
<1>10. ASSUME NEW p \in Known, Skips(p)
       PROVE  LinksAnswer /\ PassGoesOn /\ TriggerGoesOn
  <2>1. PICK kind \in {"then", "error"} : LinkPassedOver(p, kind) /\ Linking
    BY <1>10 DEF Skips
  <2>2. /\ promises[p].result # "pending" /\ ~ Matches(promises[p].result, kind)
        /\ Added(kind, p, Nil, 0) /\ UNCHANGED stack
    BY <2>1, LinkPassedOverDoes DEF IsFulfilled
  <2>3. LinksAnswer
    BY <1>2, <2>2 DEF LinksAnswer, Added, FrameKept
  <2> QED
    BY <1>3, <2>1, <2>3, RunningAt DEF Linking
<1>11. ASSUME NEW q \in Known \cup {Nil}, LinkReturns(q)
       PROVE  LinksAnswer /\ PassGoesOn /\ TriggerGoesOn
  <2>1. PICK x, i : x = Top.self /\ i = Top.link
    OBVIOUS
  <2>2. /\ Top.in = "link" /\ x \in Known /\ i \in Link /\ TakenOff /\ Link' = Link
        /\ \A k \in Link : links'[k].returned = IF k = i THEN q ELSE links[k].returned
        /\ Running
    BY <1>11, <2>1, LinkReturnsDoes
  <2>3. links[i].next = Nil
    BY <2>1, <2>2, LinkOnKnown DEF Serving, FramesFit, TakenOff
  <2>4. LinksAnswer
    BY <2>2, <2>3 DEF LinksAnswer, TakenOff, FrameKept
  <2> QED
    BY <1>3, <2>2, <2>4, RunningAt
<1>12. ASSUME Signal PROVE LinksAnswer /\ PassGoesOn /\ TriggerGoesOn
  <2>1. call.at = "signal" /\ TakenOff /\ UNCHANGED links
    BY <1>12, SignalDoes DEF Signal
  <2>2. LinksAnswer
    BY <2>1 DEF LinksAnswer, TakenOff, FrameKept, Link
  <2> QED
    BY <1>3, <2>1, <2>2
<1>13. ASSUME PassErrorOn PROVE LinksAnswer /\ PassGoesOn /\ TriggerGoesOn
  <2>1. PICK p, i : p = call.self /\ i = Carried(p)
    OBVIOUS
  <2>2. /\ call.at = "trigger" /\ promises[p].result = "error" /\ links[i].kind = "then"
        /\ call' = [at |-> "pass", self |-> links[i].next]
        /\ UNCHANGED <<stack, links>>
    BY <1>13, <2>1, PassErrorOnDoes
  <2>3. Served(i, "error")'
    BY <2>2 DEF Served, Matches
  <2>4. TriggerGoesOn
    BY <2>1, <2>2, <2>3 DEF TriggerGoesOn
  <2> QED
    BY <1>5, <1>6, <2>2, <2>4
<1>14. ASSUME NothingToRun PROVE LinksAnswer /\ PassGoesOn /\ TriggerGoesOn
  <2>1. call.at = "trigger" /\ UNCHANGED <<stack, links>>
    BY <1>14 DEF NothingToRun
  <2>2. TriggerGoesOn
    <3> SUFFICES ASSUME NEW p \in Known, NEW j \in Link, call.self = p,
                        ~ promises[p].isProcessed, Carried(p) = j, promises[p].result \in Settled
                 PROVE  \A result \in Settled : promises[p].result = result => Served(j, result)'
      BY DEF TriggerGoesOn
    <3>1. Continues(p) /\ j # Nil
      BY Carrying, NilIsNone DEF Continues
    <3>2. HandlerFor(p) = Nil /\ promises[p].result = "value"
      BY <1>14, <3>1 DEF NothingToRun, Settled
    <3>3. links[j].kind # "then"
      BY <3>1, <3>2, Carrying DEF HandlerFor
    <3>4. links'[j].kind # "then"
      BY <2>1, <3>3
    <3>5. Served(j, "value")'
      BY <3>4 DEF Served, Matches
    <3> QED
      BY <3>2, <3>5
  <2> QED
    BY <1>5, <1>6, <2>1, <2>2
<1>15. ASSUME UNCHANGED vars PROVE LinksAnswer /\ PassGoesOn /\ TriggerGoesOn
  <2>1. UNCHANGED <<promises, call, stack, links>>
    BY <1>15 DEF vars
  <2> QED
    BY <1>6, <2>1 DEF PassGoesOn, TriggerGoesOn
<1>16. LinksAnswer /\ PassGoesOn /\ TriggerGoesOn
  BY <1>7, <1>8, <1>9, <1>10, <1>11, <1>12, <1>13, <1>14, <1>15 DEF MildStep
<1> QED
  BY <1>1, <1>16, MildServes, MildSettles DEF Serving

\* A link that is written on a pending promise is carried by it.
LEMMA LinksServes ==
  ASSUME TypeOK, TypeOK', Step, Handing, Serving, NEW p \in Known, Links(p)
  PROVE  Serving'
<1>0. PICK j, q : j = Len(links) + 1 /\ q = Len(promises) + 1
  OBVIOUS
<1>1. PICK kind \in {"then", "error"} : LinkPending(p, kind) /\ Linking
  BY DEF Links
<1>2. Grows
  BY StepGrows
<1>3. /\ promises[p].result = "pending"
      /\ q # Nil /\ q \notin Known /\ Known' = Known \cup {q}
      /\ promises'[q] = NewPromise("pending")
      /\ \A x \in Known :
           /\ promises'[x].result = promises[x].result
           /\ promises'[x].isProcessed = promises[x].isProcessed
           /\ x # p => SameContent(x)
      /\ promises'[p].resultHandler = IF kind = "then" THEN j ELSE Nil
      /\ promises'[p].errorHandler = IF kind = "error" THEN j ELSE Nil
      /\ reused' = IF Spent(p) THEN reused \cup {p} ELSE reused
      /\ UNCHANGED <<call, stack, passed>>
  BY <1>0, <1>1, LinkPendingDoes DEF Nil
<1>4. /\ j # Nil /\ j \notin Link /\ Link' = Link \cup {j}
      /\ \A i \in Link : links'[i] = links[i]
      /\ links'[j].on = p /\ links'[j].next = q /\ links'[j].returned = Nil
  BY <1>0, <1>1, LinkPendingDoes DEF Added, Nil
<1>5. \A x \in Known : x # p => Carried(x)' = Carried(x)
  BY <1>3, SameCarried
<1>6. Carried(p)' = j /\ Carried(q)' = Nil
  <2>1. NewPromise("pending").resultHandler = Nil /\ NewPromise("pending").errorHandler = Nil
    BY DEF NewPromise
  <2> QED
    BY <1>1, <1>3, <1>4, <2>1 DEF Carried
<1>7. Nil \notin Known /\ Nil \notin Known'
  BY NilIsNone, UpThePathNext
<1>8. \A i \in Link : links[i].on \in Known /\ links[i].next \in Known \cup {Nil}
  BY LinkOnKnown
\* What p had before is lost, or comes too late.
<1>9. Carried(p) # Nil \/ HandedOn(p) => p \in reused'
  <2>1. Carried(p) # Nil => Continues(p)
    BY Carrying, <1>7 DEF Continues
  <2> QED
    BY <1>3, <2>1 DEF Spent
<1>10. ~ InHandler(p)
  BY <1>3, HandlerProcessed, ProcessedSettled
<1>11. FramesFit'
  <2> SUFFICES ASSUME NEW k \in DOMAIN stack, NEW x \in Known', NEW b \in Known', NEW i \in Link',
                      stack[k].in # "fulfil", stack[k].self = x, stack[k].link = i,
                      links'[i].on = b
               PROVE  /\ stack[k].in = "link" => links'[i].next = Nil
                      /\ stack[k].in = "handler" =>
                           /\ links'[i].next # Nil
                           /\ x \in Path(b)'
                           /\ x \in reused' \/ Carried(x)' = i
    BY <1>3 DEF FramesFit
  <2>1. x \in Known /\ i \in Link
    BY DEF TypeOK, References, FrameRefers
  <2>2. links'[i] = links[i] /\ links[i].on = b /\ b \in Known
    BY <1>4, <1>8, <2>1
  <2>3. /\ stack[k].in = "link" => links[i].next = Nil
        /\ stack[k].in = "handler" =>
             links[i].next # Nil /\ x \in Path(b) /\ (x \in reused \/ Carried(x) = i)
    BY <2>1, <2>2 DEF Serving, FramesFit
  <2>4. stack[k].in = "handler" => x # p
    BY <1>10 DEF InHandler
  <2> QED
    BY <1>2, <1>5, <2>1, <2>2, <2>3, <2>4, PathGrows DEF Grows
<1>12. Returns'
  <2> SUFFICES ASSUME NEW n \in Known', NEW r \in Known', NEW i \in Link',
                      links'[i].next = n, links'[i].returned = r
               PROVE  \/ Reuse(n)'
                      \/ /\ <<n, r>> \in passed'
                         /\ Carried(n)' = Nil \/ Carried(r)' = Carried(n)'
    BY DEF Returns
  <2>1. i \in Link /\ links[i].next = n /\ links[i].returned = r
    BY <1>4, <1>7
  <2>2. n \in Known /\ r \in Known
    BY <1>7, <2>1 DEF TypeOK, References, LinkRefers
  <2>3. Reuse(n) \/ (<<n, r>> \in passed /\ (Carried(n) = Nil \/ Carried(r) = Carried(n)))
    BY <2>1, <2>2 DEF Serving, Returns
  <2>4. CASE Reuse(n)
    BY <1>2, <2>2, <2>4, MisfulfilKept
  <2>5. CASE <<n, r>> \in passed /\ (Carried(n) = Nil \/ Carried(r) = Carried(n))
    <3>1. n \in Path(n) /\ r \in Path(n)
      BY <2>2, <2>5, PathReflexive, OnBehindPassed
    <3>2. (n \in reused' => Reuse(n)') /\ (r \in reused' => Reuse(n)')
      BY <1>2, <2>2, <3>1, MisfulfilNow
    <3>3. CASE n = p
      <4>1. HandedOn(p)
        BY <2>2, <2>5, <3>3 DEF HandedOn
      <4> QED
        BY <1>9, <3>2, <3>3, <4>1
    <3>4. CASE n # p /\ r = p
      BY <1>3, <1>5, <1>9, <2>2, <2>5, <3>2, <3>4
    <3>5. CASE n # p /\ r # p
      BY <1>3, <1>5, <2>2, <2>5, <3>5
    <3> QED
      BY <3>3, <3>4, <3>5
  <2> QED
    BY <2>3, <2>4, <2>5
<1>13. LinkedThere'
  <2> SUFFICES ASSUME NEW b \in Known', NEW i \in Link', links'[i].next # Nil, links'[i].on = b
               PROVE  b \in reused' \/ Carried(b)' = i
    BY DEF LinkedThere
  <2>1. CASE i = j
    BY <1>4, <1>6, <2>1
  <2>2. CASE i # j
    <3>1. i \in Link /\ links[i].next # Nil /\ links[i].on = b /\ b \in Known
      BY <1>4, <1>8, <2>2
    <3>2. b \in reused \/ Carried(b) = i
      BY <3>1 DEF Serving, LinkedThere
    <3>3. i # Nil
      BY <3>1, NilIsNone
    <3> QED
      BY <1>2, <1>5, <1>9, <3>1, <3>2, <3>3 DEF Grows
  <2> QED
    BY <2>1, <2>2
<1>14. PassedOver'
  <2> SUFFICES ASSUME NEW b \in Known', NEW i \in Link', links'[i].next = Nil, links'[i].runs = 0,
                      links'[i].on = b
               PROVE  promises'[b].result # "pending" /\ ~ Matches(promises'[b].result, links'[i].kind)
    BY DEF PassedOver, IsFulfilled, Matches
  <2>1. i \in Link /\ links'[i] = links[i] /\ links[i].on = b /\ b \in Known
    BY <1>3, <1>4, <1>8
  <2>2. IsFulfilled(b) /\ ~ Matches(promises[b].result, links[i].kind)
    BY <2>1 DEF Serving, PassedOver
  <2> QED
    BY <1>3, <2>1, <2>2 DEF IsFulfilled
<1>15. SettledServed'
  <2> SUFFICES ASSUME NEW x \in Known', NEW i \in Link', NEW r,
                      promises'[x].result = r, r # "pending", x \notin reused', Carried(x)' = i
               PROVE  Served(i, r)'
    BY DEF SettledServed, IsFulfilled
  <2>1. x \in Known /\ x # p /\ promises[x].result = r /\ Carried(x) = i
    <3>1. NewPromise("pending").result = "pending"
      BY DEF NewPromise
    <3> QED
      BY <1>3, <1>5, <3>1
  <2>2. i \in Link /\ links[i].next \in Known
    BY <1>4, <1>7, <2>1, Carrying, NilIsNone, UpThePathNext
  <2>3. x \notin reused
    BY <1>2 DEF Grows
  <2>4. call.at = "application"
    BY <1>1, RunningAt DEF Linking
  <2>5. Served(i, r)
    BY <2>1, <2>2, <2>3, <2>4 DEF Serving, SettledServed, IsFulfilled
  <2>6. PassGoesOn
    BY <2>4 DEF PassGoesOn
  <2>7. links[i].runs > 0 => links'[i].runs > 0
    BY <1>4, <2>2
  <2> QED
    BY <1>2, <2>2, <2>5, <2>6, <2>7, StillServed
<1> QED
  BY <1>11, <1>12, <1>13, <1>14, <1>15 DEF Serving

\* A handler that runs is served.
LEMMA RunHandlerServes ==
  ASSUME TypeOK, TypeOK', Step, Handing, Serving, RunHandler
  PROVE  Serving'
<1>0. PICK p, i : p = call.self /\ i = Carried(p)
  OBVIOUS
<1>1. /\ call.at = "trigger" /\ p \in Known /\ i # Nil /\ i \in Link
      /\ OnlyProcessed(p)
      /\ Pushed([in |-> "handler", self |-> p, link |-> i])
      /\ Link' = Link
      /\ \A k \in Link : LinkStays(k) /\ links'[k].returned = links[k].returned
      /\ \A k \in Link : links'[k].runs = IF k = i THEN links[k].runs + 1 ELSE links[k].runs
      /\ UNCHANGED <<passed, reused>>
  BY <1>0, RunHandlerDoes
<1>2. Grows
  BY StepGrows
<1>3. /\ Known' = Known
      /\ \A x \in Known : Carried(x)' = Carried(x) /\ promises'[x].result = promises[x].result
  BY <1>1, SameCarried DEF OnlyProcessed
<1>4. \A k \in Link : /\ links[k].on \in Known /\ links[k].runs \in Nat
                      /\ links'[k].kind = links[k].kind
                      /\ links'[k].on = links[k].on /\ links'[k].next = links[k].next
  BY <1>1, LinkOnKnown, LinkIsTyped DEF LinkStays, LinkType
<1>5. FramesFit'
  <2> SUFFICES ASSUME NEW k \in DOMAIN stack', NEW x \in Known, NEW b \in Known, NEW m \in Link,
                      stack'[k].in # "fulfil", stack'[k].self = x, stack'[k].link = m,
                      links[m].on = b
               PROVE  /\ stack'[k].in = "link" => links[m].next = Nil
                      /\ stack'[k].in = "handler" =>
                           /\ links[m].next # Nil
                           /\ x \in Path(b)
                           /\ x \in reused \/ Carried(x) = m
    BY <1>1, <1>2, <1>3, <1>4, PathGrows DEF FramesFit
  <2>1. CASE k \in DOMAIN stack
    BY <1>1, <2>1 DEF Serving, FramesFit, Pushed
  <2>2. CASE k \notin DOMAIN stack
    <3>1. stack'[k].in = "handler" /\ x = p /\ m = i
      BY <1>1, <2>2 DEF Pushed
    <3>2. links[i].next # Nil
      BY <1>0, <1>1, Carrying
    <3>3. p \in Path(b)
      BY <1>0, <1>1, <3>1 DEF Handing, CarriedOnPath
    <3> QED
      BY <1>0, <3>1, <3>2, <3>3
  <2> QED
    BY <2>1, <2>2
<1>6. Returns'
  <2> SUFFICES ASSUME NEW n \in Known, NEW r \in Known, NEW m \in Link,
                      links[m].next = n, links[m].returned = r
               PROVE  \/ Reuse(n)'
                      \/ <<n, r>> \in passed /\ (Carried(n) = Nil \/ Carried(r) = Carried(n))
    BY <1>1, <1>3, <1>4 DEF Returns
  <2>1. Reuse(n) \/ (<<n, r>> \in passed /\ (Carried(n) = Nil \/ Carried(r) = Carried(n)))
    BY DEF Serving, Returns
  <2> QED
    BY <1>2, <2>1, MisfulfilKept
<1>7. LinkedThere'
  BY <1>1, <1>3, <1>4 DEF Serving, LinkedThere
<1>8. PassedOver'
  <2> SUFFICES ASSUME NEW b \in Known, NEW m \in Link, links[m].next = Nil, links'[m].runs = 0,
                      links[m].on = b
               PROVE  promises[b].result # "pending" /\ ~ Matches(promises[b].result, links[m].kind)
    BY <1>1, <1>3, <1>4 DEF PassedOver, IsFulfilled, Matches
  <2>1. links[m].runs = 0
    BY <1>1, <1>4
  <2> QED
    BY <2>1 DEF Serving, PassedOver, IsFulfilled
<1>9. SettledServed'
  <2> SUFFICES ASSUME NEW x \in Known', NEW m \in Link', NEW r,
                      promises'[x].result = r, r # "pending", x \notin reused', Carried(x)' = m
               PROVE  Served(m, r)'
    BY DEF SettledServed, IsFulfilled
  <2>1. /\ x \in Known /\ m \in Link /\ promises[x].result = r /\ Carried(x) = m
        /\ x \notin reused
    BY <1>1, <1>3
  <2>2. CASE x = p
    <3>1. links'[m].runs > 0
      BY <1>0, <1>1, <1>4, <2>1, <2>2
    <3> QED
      BY <3>1 DEF Served, Matches
  <2>3. CASE x # p
    <3>1. Served(m, r)
      BY <1>0, <2>1, <2>3 DEF Serving, SettledServed, IsFulfilled
    <3>2. PassGoesOn
      BY <1>1 DEF PassGoesOn
    <3>3. links[m].runs > 0 => links'[m].runs > 0
      BY <1>1, <1>4, <2>1
    <3>4. links[m].next \in Known
      BY <2>1, Carrying, NilIsNone
    <3> QED
      BY <1>2, <2>1, <3>1, <3>2, <3>3, <3>4, StillServed
  <2> QED
    BY <2>2, <2>3
<1> QED
  BY <1>5, <1>6, <1>7, <1>8, <1>9 DEF Serving

\* The promise a handler returned owes its continuation, unless it was given another.
LEMMA HandlerReturnsServes ==
  ASSUME TypeOK, TypeOK', Step, Handing, Serving, NEW q \in Known \cup {Nil}, HandlerReturns(q)
  PROVE  Serving'
<1>0. PICK x, i, n : x = Top.self /\ i = Top.link /\ n = promises[x].next
  OBVIOUS
<1>1. /\ Top.in = "handler" /\ x \in Known /\ i \in Link /\ n \in Known \cup {Nil}
      /\ TakenOff
      /\ Link' = Link
      /\ \A k \in Link : LinkStays(k) /\ links'[k].runs = links[k].runs
      /\ \A k \in Link : links'[k].returned = IF k = i THEN q ELSE links[k].returned
      /\ passed' = IF n = Nil THEN passed ELSE passed \cup {<<n, q>>}
      /\ Known' = Known
      /\ \A y \in Known :
           /\ promises'[y].result = promises[y].result
           /\ promises'[y].isProcessed = promises[y].isProcessed
           /\ y # q => SameContent(y)
      /\ q # Nil =>
           /\ promises'[q].resultHandler = IF n = Nil THEN Nil ELSE promises[n].resultHandler
           /\ promises'[q].errorHandler = IF n = Nil THEN Nil ELSE promises[n].errorHandler
      /\ reused' = IF q # Nil /\ Spent(q) THEN reused \cup {q} ELSE reused
      /\ call' = IF q = Nil THEN Resume(Pop) ELSE GoOn(q)
      /\ Running
  BY <1>0, HandlerReturnsDoes
<1>2. Grows
  BY StepGrows
<1>3. Nil \notin Known /\ Nil \notin Link
  BY NilIsNone
<1>4. \A y \in Known : y # q => Carried(y)' = Carried(y)
  BY <1>1, SameCarried
<1>5. q # Nil => Carried(q)' = IF n = Nil THEN Nil ELSE Carried(n)
  BY <1>1 DEF Carried
<1>6. \A k \in Link : /\ links[k].on \in Known /\ links[k].next \in Known \cup {Nil}
                      /\ links'[k].kind = links[k].kind
                      /\ links'[k].on = links[k].on /\ links'[k].next = links[k].next
  BY <1>1, LinkOnKnown DEF LinkStays
\* What q had before is lost, or comes too late.
<1>7. q \in Known /\ (Carried(q) # Nil \/ HandedOn(q) \/ promises[q].isProcessed) => q \in reused'
  <2>1. q \in Known /\ Carried(q) # Nil => Continues(q)
    BY <1>3, Carrying DEF Continues
  <2> QED
    BY <1>1, <1>3, <2>1 DEF Spent
<1>8. FramesFit'
  <2> SUFFICES ASSUME NEW k \in DOMAIN stack', NEW y \in Known, NEW b \in Known, NEW m \in Link,
                      stack'[k].in # "fulfil", stack'[k].self = y, stack'[k].link = m,
                      links[m].on = b
               PROVE  /\ stack'[k].in = "link" => links[m].next = Nil
                      /\ stack'[k].in = "handler" =>
                           /\ links[m].next # Nil
                           /\ y \in Path(b)
                           /\ y \in reused' \/ Carried(y)' = m
    BY <1>1, <1>2, <1>6, PathGrows DEF FramesFit
  <2>1. k \in DOMAIN stack /\ stack'[k] = stack[k]
    BY <1>1 DEF TakenOff
  <2>2. /\ stack[k].in = "link" => links[m].next = Nil
        /\ stack[k].in = "handler" =>
             links[m].next # Nil /\ y \in Path(b) /\ (y \in reused \/ Carried(y) = m)
    BY <2>1 DEF Serving, FramesFit
  <2>3. stack[k].in = "handler" => promises[y].isProcessed
    BY <2>1 DEF Handing, OneFrame
  <2> QED
    BY <1>2, <1>4, <1>7, <2>1, <2>2, <2>3 DEF Grows
<1>9. Returns'
  <2> SUFFICES ASSUME NEW m \in Known, NEW r \in Known, NEW k \in Link,
                      links[k].next = m, links'[k].returned = r
               PROVE  \/ Reuse(m)'
                      \/ /\ <<m, r>> \in passed'
                         /\ Carried(m)' = Nil \/ Carried(r)' = Carried(m)'
    BY <1>1, <1>6 DEF Returns
  <2>1. CASE k = i
    <3>1. PICK b \in Known : b = links[i].on
      BY <1>1, <1>6
    <3>2. r = q /\ links[i].next = m
      BY <1>1, <2>1
    <3>3. x \in Path(b) /\ (x \in reused \/ Carried(x) = i)
      BY <1>0, <1>1, <3>1 DEF Serving, FramesFit, TakenOff
    <3>4. CASE x \in reused
      <4>1. Reuse(b)
        BY <3>1, <3>3, <3>4, MisfulfilUp, PathReflexive DEF Reuse
      <4>2. Reuse(m)
        BY <1>1, <1>3, <3>1, <3>2, <4>1, MisfulfilNext
      <4> QED
        BY <1>2, <4>2, MisfulfilKept
    <3>5. CASE Carried(x) = i
      <4>1. n = m
        BY <1>0, <1>1, <1>3, <3>2, <3>5, Carrying
      <4> QED
        BY <1>1, <1>3, <1>4, <1>5, <3>2, <4>1
    <3> QED
      BY <3>3, <3>4, <3>5
  <2>2. CASE k # i
    <3>1. links[k].returned = r
      BY <1>1, <2>2
    <3>2. Reuse(m) \/ (<<m, r>> \in passed /\ (Carried(m) = Nil \/ Carried(r) = Carried(m)))
      BY <3>1 DEF Serving, Returns
    <3>3. CASE Reuse(m)
      BY <1>2, <3>3, MisfulfilKept
    <3>4. CASE <<m, r>> \in passed /\ (Carried(m) = Nil \/ Carried(r) = Carried(m))
      <4>1. m \in Path(m) /\ r \in Path(m)
        BY <3>4, PathReflexive, OnBehindPassed
      <4>2. (m \in reused' => Reuse(m)') /\ (r \in reused' => Reuse(m)')
        BY <1>2, <4>1, MisfulfilNow
      <4>3. <<m, r>> \in passed'
        BY <1>2, <3>4 DEF Grows
      <4>4. CASE m = q
        <5>1. HandedOn(m)
          BY <3>4 DEF HandedOn
        <5> QED
          BY <1>7, <4>2, <4>4, <5>1
      <4>5. CASE m # q /\ r = q
        BY <1>4, <1>7, <3>4, <4>2, <4>3, <4>5
      <4>6. CASE m # q /\ r # q
        BY <1>4, <3>4, <4>3, <4>6
      <4> QED
        BY <4>4, <4>5, <4>6
    <3> QED
      BY <3>2, <3>3, <3>4
  <2> QED
    BY <2>1, <2>2
<1>10. LinkedThere'
  <2> SUFFICES ASSUME NEW b \in Known, NEW k \in Link, links[k].next # Nil, links[k].on = b
               PROVE  b \in reused' \/ Carried(b)' = k
    BY <1>1, <1>6 DEF LinkedThere
  <2>1. b \in reused \/ Carried(b) = k
    BY DEF Serving, LinkedThere
  <2> QED
    BY <1>2, <1>3, <1>4, <1>7, <2>1 DEF Grows
<1>11. PassedOver'
  <2> SUFFICES ASSUME NEW b \in Known, NEW k \in Link, links[k].next = Nil, links[k].runs = 0,
                      links[k].on = b
               PROVE  promises[b].result # "pending" /\ ~ Matches(promises[b].result, links[k].kind)
    BY <1>1, <1>6 DEF PassedOver, IsFulfilled, Matches
  <2> QED
    BY DEF Serving, PassedOver, IsFulfilled
<1>12. SettledServed'
  <2> SUFFICES ASSUME NEW y \in Known', NEW k \in Link', NEW r,
                      promises'[y].result = r, r # "pending", y \notin reused', Carried(y)' = k
               PROVE  \/ call'.at = "trigger" /\ call'.self = y /\ ~ promises'[y].isProcessed
                      \/ Served(k, r)'
    BY DEF SettledServed, IsFulfilled
  <2>1. y \in Known /\ k \in Link /\ promises[y].result = r /\ y \notin reused
    BY <1>1, <1>2 DEF Grows
  <2>2. CASE y = q
    <3>1. call' = [at |-> "trigger", self |-> q]
      BY <1>1, <1>3, <2>1, <2>2 DEF GoOn, IsFulfilled
    <3>2. ~ promises'[q].isProcessed
      BY <1>1, <1>7, <2>1, <2>2
    <3> QED
      BY <2>2, <3>1, <3>2
  <2>3. CASE y # q
    <3>1. Carried(y) = k
      BY <1>4, <2>1, <2>3
    <3>2. call.at = "application"
      BY <1>1, RunningAt
    <3>3. Served(k, r)
      BY <2>1, <3>1, <3>2 DEF Serving, SettledServed, IsFulfilled
    <3>4. PassGoesOn
      BY <3>2 DEF PassGoesOn
    <3>5. links[k].runs > 0 => links'[k].runs > 0
      BY <1>1, <2>1
    <3>6. links[k].next \in Known
      BY <2>1, <3>1, Carrying, NilIsNone
    <3> QED
      BY <1>2, <2>1, <3>3, <3>4, <3>5, <3>6, StillServed
  <2> QED
    BY <2>2, <2>3
<1> QED
  BY <1>8, <1>9, <1>10, <1>11, <1>12 DEF Serving
LEMMA ServingInit == Init => Serving
<1> SUFFICES ASSUME Init PROVE Serving
  OBVIOUS
<1>1. Link = {} /\ DOMAIN stack = {}
  BY DEF Init, Link
<1>2. FramesFit /\ Returns /\ LinkedThere /\ PassedOver /\ SettledServed
  BY <1>1 DEF FramesFit, Returns, LinkedThere, PassedOver, SettledServed
<1> QED
  BY <1>2 DEF Serving

\* Serving is inductive, given Handing.
LEMMA ServingNext == TypeOK /\ Handing /\ Serving /\ [Next]_vars => Serving'
<1> SUFFICES ASSUME TypeOK, Handing, Serving, [Next]_vars PROVE Serving'
  OBVIOUS
<1>1. Step /\ TypeOK'
  BY Steps, TypeNext
<1>2. CASE \E p \in Known : Fulfils(p)
  BY <1>1, <1>2, FulfilsServes
<1>3. CASE \E p \in Known : Links(p)
  BY <1>1, <1>3, LinksServes
<1>4. CASE RunHandler
  BY <1>1, <1>4, RunHandlerServes
<1>5. CASE \E q \in Known \cup {Nil} : HandlerReturns(q)
  BY <1>1, <1>5, HandlerReturnsServes
<1>6. CASE MildStep
  BY <1>1, <1>6, MildStepServes
<1> QED
  BY <1>1, <1>2, <1>3, <1>4, <1>5, <1>6 DEF Step, MildStep

\* The promises that may settle to result, of which nothing is owed any more: the
\* handler of what they carry has run, if it is for result, or it is for the next
\* promise, which has settled too.
Done(result) ==
  {p \in Known :
     /\ promises[p].result \in {"pending", result}
     /\ Reuse(p) \/ \A j \in Link : Carried(p) = j =>
          /\ Matches(result, links[j].kind) => links[j].runs > 0
          /\ result = "error" /\ links[j].kind = "then" /\ links[j].runs = 0 =>
               promises[links[j].next].result # "pending"}

\* When the queue rests, what settles and what is to settle is done with.
LEMMA RestingOwes ==
  ASSUME TypeOK, Handing, Serving, Resting, NEW result \in Settled
  PROVE  OwedClosed(Done(result), result)
<1>1. Nil \notin Known /\ Nil \notin Link /\ call.at = "application"
  BY NilIsNone, RunningAt DEF Resting
<1>2. \A p \in Known : Reuse(p) <=> \E q \in Path(p) : q \in reused
  BY DEF Reuse
<1>3. ASSUME NEW p \in Known, promises[p].result = result
      PROVE  p \in Done(result)
  <2>1. CASE p \in reused
    BY <1>2, <1>3, <2>1, PathReflexive DEF Done
  <2>2. CASE p \notin reused
    <3>1. ASSUME NEW j \in Link, Carried(p) = j
          PROVE  /\ Matches(result, links[j].kind) => links[j].runs > 0
                 /\ result = "error" /\ links[j].kind = "then" /\ links[j].runs = 0 =>
                      promises[links[j].next].result # "pending"
      <4>1. Served(j, result)
        BY <1>1, <1>3, <2>2, <3>1 DEF Serving, SettledServed, IsFulfilled, Settled
      <4> QED
        BY <1>1, <4>1 DEF Served
    <3> QED
      BY <1>3, <3>1 DEF Done
  <2> QED
    BY <2>1, <2>2
<1>4. ASSUME NEW j \in Link, links[j].next # Nil, ~ IsFulfilled(links[j].next)
      PROVE  /\ links[j].runs > 0 /\ links[j].returned \in Done(result) =>
                  links[j].next \in Done(result)
             /\ links[j].runs = 0 /\ links[j].kind = "then" /\ result = "error"
                /\ links[j].on \in Done(result) => links[j].next \in Done(result)
  <2>1. PICK b, n : b = links[j].on /\ n = links[j].next
    OBVIOUS
  <2>2. b \in Known /\ n \in Known /\ promises[n].result = "pending"
    BY <1>1, <1>4, <2>1, LinkOnKnown DEF IsFulfilled
  <2>3. Reuse(n) => n \in Done(result)
    BY <2>2 DEF Done
  <2>4. ASSUME NEW q \in Done(result), links[j].returned = q
        PROVE  n \in Done(result)
    <3>1. q \in Known
      BY <2>4 DEF Done
    <3>2. Reuse(n) \/ (<<n, q>> \in passed /\ (Carried(n) = Nil \/ Carried(q) = Carried(n)))
      BY <2>1, <2>2, <2>4, <3>1 DEF Serving, Returns
    <3>3. CASE <<n, q>> \in passed /\ Reuse(q)
      <4>1. q \in Path(n)
        BY <2>2, <3>1, <3>3, PathReflexive, OnBehindPassed
      <4> QED
        BY <2>2, <2>3, <3>3, <4>1, MisfulfilUp
    <3>4. CASE Carried(n) = Nil
      BY <1>1, <2>2, <3>4 DEF Done
    <3>5. CASE Carried(q) = Carried(n) /\ ~ Reuse(q)
      BY <2>2, <2>4, <3>5 DEF Done
    <3> QED
      BY <2>3, <3>2, <3>3, <3>4, <3>5
  <2>5. ASSUME links[j].runs = 0, links[j].kind = "then", result = "error", b \in Done(result)
        PROVE  n \in Done(result)
    <3>1. b \in reused \/ Carried(b) = j
      BY <1>4, <2>1, <2>2 DEF Serving, LinkedThere
    <3>2. Reuse(b) => Reuse(n)
      BY <1>4, <2>1, MisfulfilNext
    <3>3. b \in reused => Reuse(b)
      BY <1>2, <2>2, PathReflexive
    <3>4. Carried(b) = j => Reuse(b)
      BY <2>1, <2>2, <2>5 DEF Done
    <3> QED
      BY <2>3, <3>1, <3>2, <3>3, <3>4
  <2> QED
    BY <2>1, <2>4, <2>5
<1> QED
  BY <1>3, <1>4 DEF OwedClosed

\* When the queue rests, every handler whose turn has come has run, but where a
\* promise on the way to its own was given a continuation while it had one, or
\* after that: nothing looks at a promise again once it has been processed.
THEOREM NoneLost == Spec => []LostOnlyByReuse
<1>1. TypeOK /\ Handing /\ Serving => LostOnlyByReuse
  <2> SUFFICES ASSUME TypeOK, Handing, Serving, Resting, NEW j \in Link, Due(j)
               PROVE  Reuse(links[j].on)
    BY DEF LostOnlyByReuse, Reuse
  <2>1. PICK result \in Settled : Matches(result, links[j].kind) /\ Owed(links[j].on, result)
    BY DEF Due
  <2>2. PICK b \in Known : b = links[j].on
    BY LinkOnKnown
  <2>3. links[j].runs = 0
    BY DEF Due
  <2>4. b \in Done(result)
    <3>1. Done(result) \in SUBSET Known
      BY DEF Done
    <3> QED
      BY <2>1, <2>2, <3>1, RestingOwes DEF Owed
  <2>5. promises[b].result \in {"pending", result}
    BY <2>4 DEF Done
  <2>6. Carried(b) = j => Reuse(b)
    BY <2>1, <2>3, <2>4 DEF Done
  <2>7. CASE links[j].next = Nil
    BY <2>1, <2>2, <2>3, <2>5, <2>7 DEF Serving, PassedOver, IsFulfilled
  <2>8. CASE links[j].next # Nil
    <3>1. b \in reused \/ Carried(b) = j
      BY <2>2, <2>8 DEF Serving, LinkedThere
    <3>2. b \in reused => Reuse(b)
      BY PathReflexive DEF Reuse
    <3> QED
      BY <2>2, <2>6, <3>1, <3>2
  <2> QED
    BY <2>7, <2>8
<1>2. Init => Serving
  BY ServingInit
<1>3. TypeOK /\ Handing /\ Serving /\ [Next]_vars => Serving'
  BY ServingNext
<1> QED
  BY <1>1, <1>2, <1>3, TypeCorrect, HandingCorrect, PTL DEF Spec
=============================================================================
