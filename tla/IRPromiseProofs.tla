---------------------------- MODULE IRPromiseProofs ----------------------------
(***************************************************************************)
(* IRPromise, for any chain and any number of promises and fulfil calls.   *)
(*                                                                         *)
(* 1. For any set of threads: types, mutual exclusion, the finality of     *)
(* results.  Three groups of facts make the invariant inductive.           *)
(* HeapClosed: every reference leads to an allocated object, so that       *)
(* allocating a new one disturbs none in use.  Locks: the semaphores of    *)
(* the promises a thread is going to signal are taken, each by one call.   *)
(* Finality: what is processed, or being processed, has settled.           *)
(*                                                                         *)
(* 2. For one fulfilling thread, which the thread that writes the chain    *)
(* may race: no handler runs twice, and only a promise the application     *)
(* fulfilled twice is left locked.  The argument is about the promises     *)
(* whose continuation was handed on.                                       *)
(*                                                                         *)
(* 3. For one fulfilling thread: IRPromise implements PromiseChain.  The   *)
(* argument gives every promise a position in the chain.                   *)
(***************************************************************************)
EXTENDS IRPromise, TLAPS

HeapClosed ==
  /\ tail \in heap
  /\ owned \subseteq heap
  /\ \A p \in Promise : next[p] \in heap \cup {NoPromise}
  /\ \A t \in Thread :
       /\ pc[t] \notin {"idle", "return"} => cur[t] \in heap
       /\ pc[t] \in Copying => rp[t] \in heap

Locks ==
  /\ \A t \in Thread : \A i \in 1 .. Len(stack[t]) : sem[stack[t][i]] = 0
  /\ \A t, u \in Thread : \A i \in 1 .. Len(stack[t]), j \in 1 .. Len(stack[u]) :
       stack[t][i] = stack[u][j] => t = u /\ i = j
  /\ \A t \in Thread : pc[t] = "linking" => t = Builder
  /\ pc[Builder] = "linking" =>
       /\ built < N
       /\ sem[tail] = 0
       /\ \A t \in Thread : \A i \in 1 .. Len(stack[t]) : stack[t][i] # tail

Finality ==
  /\ \A p \in Promise : result[p] # "pending" => p \in heap
  /\ \A p \in Promise : processed[p] => result[p] # "pending"
  /\ \A t \in Thread :
       /\ pc[t] \in {"settled", "trigger", "dispatch"} \cup Copying =>
            result[cur[t]] # "pending"
       /\ pc[t] = "wait" => arg[t] \in Settled

Inv == TypeOK /\ HeapClosed /\ Locks /\ Finality

LEMMA FreshIsNew == ASSUME CanAllocate PROVE Fresh \in Promise \ heap
  BY DEF CanAllocate, Fresh

LEMMA BuilderIsThread == Builder \in Thread
  BY DEF Thread

LEMMA InitInv == Init => Inv
<1>. SUFFICES ASSUME Init PROVE Inv
  OBVIOUS
<1>1. TypeOK
  BY ConstantAssumption DEF Init, TypeOK, Status, Settled, PCs, Copying, Nullable, NoLink
<1>2. HeapClosed
  BY ConstantAssumption DEF Init, HeapClosed, Copying
<1>3. Locks
  BY BuilderIsThread DEF Init, Locks
<1>4. Finality
  BY ConstantAssumption DEF Init, Finality, Copying
<1>. QED
  BY <1>1, <1>2, <1>3, <1>4 DEF Inv

-----------------------------------------------------------------------------
\* Every step keeps the types.
LEMMA WorkKeepsTypes ==
  ASSUME Inv, NEW t \in Thread, Work(t) PROVE TypeOK'
<1>. USE ConstantAssumption DEF Inv, TypeOK, Status, Settled, PCs, Copying, Nullable, NoLink,
         Goto, fields, locals, app, hist
<1>1. CASE Fulfil(t)
  <2>1. cur[t] \in Promise /\ arg[t] \in Status
    BY <1>1 DEF Fulfil
  <2>2. stack' \in [Thread -> Seq(Promise)]
    BY <1>1, <2>1 DEF Fulfil
  <2>. QED
    BY <1>1, <2>1, <2>2 DEF Fulfil
<1>2. CASE FulfilAgain(t)
  BY <1>2 DEF FulfilAgain
<1>3. CASE CheckNext(t)
  BY <1>3 DEF CheckNext
<1>4. CASE Signal(t)
  BY <1>4 DEF Signal, Signalled
<1>5. CASE Return(t)
  BY <1>5 DEF Return
<1>6. CASE CheckProcessed(t)
  BY <1>6 DEF CheckProcessed
<1>7. CASE RunHandler(t)
  <2>1. cur[t] \in Promise /\ HandlerFor(cur[t]) \in Link
    BY <1>7 DEF RunHandler, HandlerFor
  <2>2. CASE ReturnsNil(HandlerFor(cur[t])) /\ UNCHANGED <<heap, result, rp, owned>>
                /\ pc' = [pc EXCEPT ![t] = "return"]
    BY <1>7, <2>1, <2>2 DEF RunHandler, ReturnsNil
  <2>3. CASE ReturnsPromise(HandlerFor(cur[t]), Fresh) /\ rp' = [rp EXCEPT ![t] = Fresh]
                /\ pc' = [pc EXCEPT ![t] = "copyNext"]
    <3>1. Fresh \in Promise
      BY <2>3, FreshIsNew DEF ReturnsPromise
    <3>2. PICK s \in Status : /\ heap' = heap \cup {Fresh}
                             /\ result' = [result EXCEPT ![Fresh] = s]
                             /\ owned' \in {owned \cup {Fresh}, owned}
      BY <2>3 DEF ReturnsPromise, Allocate
    <3>3. runs' \in [Link -> Nat] /\ ret' \in [Link -> Promise \cup {NoPromise}]
      BY <2>1, <2>3, <3>1 DEF ReturnsPromise
    <3>. QED
      BY <1>7, <2>1, <2>3, <3>1, <3>2, <3>3 DEF RunHandler
  <2>. QED
    BY <1>7, <2>2, <2>3 DEF RunHandler
<1>8. CASE PassErrorOn(t)
  BY <1>8 DEF PassErrorOn, HasNext, ErrorTarget
<1>9. CASE NothingToRun(t)
  BY <1>9 DEF NothingToRun
<1>10. CASE CopyNext(t)
  BY <1>10 DEF CopyNext, NextOf
<1>11. CASE CopyResultHandler(t)
  BY <1>11 DEF CopyResultHandler, ResultHandlerOf
<1>12. CASE CopyErrorHandler(t)
  BY <1>12 DEF CopyErrorHandler, ErrorHandlerOf
<1>13. CASE CheckReturned(t)
  BY <1>13 DEF CheckReturned
<1>. QED
  BY <1>1, <1>2, <1>3, <1>4, <1>5, <1>6, <1>7, <1>8, <1>9, <1>10, <1>11, <1>12, <1>13
  DEF Work

LEMMA WriteKeepsTypes == ASSUME Inv, Write PROVE TypeOK'
<1>. USE ConstantAssumption, BuilderIsThread
     DEF Inv, TypeOK, Status, Settled, PCs, Copying, Nullable, NoLink, Goto, locals, hist
<1>1. CASE LinkRunsNow
  <2>1. /\ Fresh \in Promise /\ built \in 0 .. N /\ built < N
        /\ built + 1 \in Link
    BY <1>1, FreshIsNew DEF LinkRunsNow, AtLink, Link
  <2>2. /\ UNCHANGED <<sem, processed, next, resultHandler, errorHandler, pc, cur, arg,
                       rp, src, stack, kind, called>>
        /\ tail' = Fresh /\ built' = built + 1
    BY <1>1 DEF LinkRunsNow
  <2>3. heap' = heap \cup {Fresh} /\ owned' \in {owned, owned \cup {Fresh}}
    BY <1>1 DEF LinkRunsNow, ReturnsNil, ReturnsPromise, Allocate
  <2>4. result' \in [Promise -> Status]
    BY <1>1, <2>1 DEF LinkRunsNow, ReturnsNil, ReturnsPromise, Allocate
  <2>5. runs' \in [Link -> Nat] /\ ret' \in [Link -> Nullable]
    <3>1. /\ runs' = [runs EXCEPT ![built + 1] = runs[built + 1] + 1]
          /\ \E q \in Nullable : ret' = [ret EXCEPT ![built + 1] = q]
      BY <1>1, <2>1 DEF LinkRunsNow, ReturnsNil, ReturnsPromise
    <3>. QED
      BY <2>1, <3>1
  <2>6. heap' \subseteq Promise /\ owned' \subseteq Promise
    BY <2>1, <2>3
  <2>7. tail' \in Promise /\ built' \in 0 .. N
    BY <2>1, <2>2
  <2>. QED
    BY <2>2, <2>4, <2>5, <2>6, <2>7
<1>2. CASE LinkPassedOver
  BY <1>2, FreshIsNew DEF LinkPassedOver, AtLink, Allocate
<1>3. CASE LinkStoresHandler
  <2>1. Fresh \in Promise /\ built + 1 \in Link
    BY <1>3, FreshIsNew DEF LinkStoresHandler, AtLink, Link
  <2>. QED
    BY <1>3, <2>1 DEF LinkStoresHandler, Allocate
<1>4. CASE LinkStoresNext
  <2>1. built + 1 \in 0 .. N
    BY <1>4 DEF LinkStoresNext, Locks
  <2>. QED
    BY <1>4, <2>1 DEF LinkStoresNext, Signalled
<1>. QED
  BY <1>1, <1>2, <1>3, <1>4 DEF Write

LEMMA NextKeepsTypes == Inv /\ [Next]_vars => TypeOK'
<1>. SUFFICES ASSUME Inv, [Next]_vars PROVE TypeOK'
  OBVIOUS
<1>1. ASSUME NEW t \in Thread, StartFulfil(t) PROVE TypeOK'
  <2>1. PICK p \in owned, s \in Settled :
          /\ called[p] < Calls
          /\ called' = [called EXCEPT ![p] = @ + 1]
          /\ cur' = [cur EXCEPT ![t] = p]
          /\ arg' = [arg EXCEPT ![t] = s]
    BY <1>1 DEF StartFulfil
  <2>2. p \in Promise /\ called[p] + 1 \in 0 .. Calls
    BY <2>1, ConstantAssumption DEF Inv, TypeOK
  <2>3. called' \in [Promise -> 0 .. Calls]
    BY <2>1, <2>2 DEF Inv, TypeOK
  <2>. QED
    BY <1>1, <2>1, <2>2, <2>3
    DEF StartFulfil, Goto, fields, hist, Inv, TypeOK, Status, PCs, Copying, Nullable
<1>2. CASE UNCHANGED vars
  BY <1>2 DEF vars, fields, locals, app, hist, Inv, TypeOK
<1>. QED
  BY <1>1, <1>2, WorkKeepsTypes, WriteKeepsTypes DEF Next, Terminated

-----------------------------------------------------------------------------
\* Every step keeps references inside the heap, which only grows.
LEMMA WorkKeepsHeap == ASSUME Inv, NEW t \in Thread, Work(t) PROVE HeapClosed'
<1>. USE DEF Inv, TypeOK, HeapClosed, Copying, Goto, fields, locals, app, hist
<1>1. CASE Fulfil(t)
  BY <1>1 DEF Fulfil
<1>2. CASE FulfilAgain(t)
  BY <1>2 DEF FulfilAgain
<1>3. CASE CheckNext(t)
  BY <1>3 DEF CheckNext
<1>4. CASE Signal(t)
  BY <1>4 DEF Signal, Signalled
<1>5. CASE Return(t)
  BY <1>5 DEF Return
<1>6. CASE CheckProcessed(t)
  BY <1>6 DEF CheckProcessed
<1>7. CASE RunHandler(t)
  BY <1>7 DEF RunHandler, ReturnsNil, ReturnsPromise, Allocate
<1>8. CASE PassErrorOn(t)
  BY <1>8 DEF PassErrorOn, HasNext, ErrorTarget
<1>9. CASE NothingToRun(t)
  BY <1>9 DEF NothingToRun
<1>10. CASE CopyNext(t)
  BY <1>10 DEF CopyNext, NextOf, Nullable
<1>11. CASE CopyResultHandler(t)
  BY <1>11 DEF CopyResultHandler
<1>12. CASE CopyErrorHandler(t)
  BY <1>12 DEF CopyErrorHandler
<1>13. CASE CheckReturned(t)
  BY <1>13 DEF CheckReturned
<1>. QED
  BY <1>1, <1>2, <1>3, <1>4, <1>5, <1>6, <1>7, <1>8, <1>9, <1>10, <1>11, <1>12, <1>13
  DEF Work

LEMMA WriteKeepsHeap == ASSUME Inv, Write PROVE HeapClosed'
<1>. USE BuilderIsThread DEF Inv, TypeOK, HeapClosed, Copying, Goto, locals, hist
<1>1. CASE LinkRunsNow
  BY <1>1 DEF LinkRunsNow, ReturnsNil, ReturnsPromise, Allocate
<1>2. CASE LinkPassedOver
  BY <1>2 DEF LinkPassedOver, Allocate
<1>3. CASE LinkStoresHandler
  BY <1>3 DEF LinkStoresHandler, Allocate
<1>4. CASE LinkStoresNext
  BY <1>4 DEF LinkStoresNext
<1>. QED
  BY <1>1, <1>2, <1>3, <1>4 DEF Write

LEMMA NextKeepsHeap == Inv /\ [Next]_vars => HeapClosed'
<1>. SUFFICES ASSUME Inv, [Next]_vars PROVE HeapClosed'
  OBVIOUS
<1>1. ASSUME NEW t \in Thread, StartFulfil(t) PROVE HeapClosed'
  BY <1>1 DEF StartFulfil, Goto, fields, hist, Inv, TypeOK, HeapClosed, Copying
<1>2. CASE UNCHANGED vars
  BY <1>2 DEF vars, fields, locals, app, hist, Inv, HeapClosed
<1>. QED
  BY <1>1, <1>2, WorkKeepsHeap, WriteKeepsHeap DEF Next, Terminated

-----------------------------------------------------------------------------
\* A step that takes no semaphore and gives none back leaves Locks alone,
\* unless it starts or ends the writing of a link.
LEMMA LocksUntouched ==
  ASSUME Inv, UNCHANGED <<sem, stack>>,
         \A t \in Thread : pc'[t] = "linking" => pc[t] = "linking",
         pc[Builder] = "linking" => UNCHANGED <<tail, built>>
  PROVE  Locks'
<1>1. /\ \A t \in Thread : \A i \in 1 .. Len(stack'[t]) : sem'[stack'[t][i]] = 0
      /\ \A t, u \in Thread : \A i \in 1 .. Len(stack'[t]), j \in 1 .. Len(stack'[u]) :
           stack'[t][i] = stack'[u][j] => t = u /\ i = j
  BY DEF Inv, Locks
<1>. QED
  BY <1>1, BuilderIsThread DEF Inv, Locks

\* The semaphore of a promise nobody has taken: its call enters the stack.
LEMMA FulfilKeepsLocks == ASSUME Inv, NEW t \in Thread, Fulfil(t) PROVE Locks'
<1>1. /\ pc' = [pc EXCEPT ![t] = "settled"] /\ UNCHANGED <<tail, built>>
      /\ cur[t] \in Promise /\ sem[cur[t]] = 1
      /\ sem' = [sem EXCEPT ![cur[t]] = 0]
      /\ stack' = [stack EXCEPT ![t] = Append(@, cur[t])]
  BY DEF Fulfil, Free, Goto, app, Inv, TypeOK
<1>2. \A u \in Thread : stack[u] \in Seq(Promise)
  BY DEF Inv, TypeOK
<1>3. /\ Len(stack'[t]) = Len(stack[t]) + 1
      /\ stack'[t][Len(stack[t]) + 1] = cur[t]
      /\ \A i \in 1 .. Len(stack[t]) : stack'[t][i] = stack[t][i]
      /\ \A u \in Thread : u # t => stack'[u] = stack[u]
  BY <1>1, <1>2 DEF Inv, TypeOK
\* cur[t] is in no stack, for its semaphore was free.
<1>4. \A u \in Thread : \A i \in 1 .. Len(stack[u]) :
        stack[u][i] \in Promise /\ sem[stack[u][i]] = 0 /\ stack[u][i] # cur[t]
  BY <1>1, <1>2 DEF Inv, Locks
<1>5. \A u \in Thread : \A i \in 1 .. Len(stack'[u]) :
        \/ u = t /\ i = Len(stack[t]) + 1 /\ stack'[u][i] = cur[t]
        \/ i \in 1 .. Len(stack[u]) /\ stack'[u][i] = stack[u][i]
  BY <1>2, <1>3
<1>6. \A u \in Thread : \A i \in 1 .. Len(stack'[u]) : sem'[stack'[u][i]] = 0
  BY <1>1, <1>4, <1>5 DEF Inv, TypeOK
<1>7. ASSUME NEW u \in Thread, NEW v \in Thread,
             NEW i \in 1 .. Len(stack'[u]), NEW j \in 1 .. Len(stack'[v]),
             stack'[u][i] = stack'[v][j]
      PROVE  u = v /\ i = j
  BY <1>4, <1>5, <1>7 DEF Inv, Locks
<1>8. \A u \in Thread : pc'[u] = "linking" => u = Builder /\ pc[u] = "linking" /\ u # t
  BY <1>1 DEF Inv, Locks, TypeOK
<1>9. ASSUME pc'[Builder] = "linking"
      PROVE  /\ built' < N /\ sem'[tail'] = 0
             /\ \A u \in Thread : \A i \in 1 .. Len(stack'[u]) : stack'[u][i] # tail'
  <2>1. built < N /\ sem[tail] = 0
    BY <1>8, <1>9, BuilderIsThread DEF Inv, Locks
  <2>2. \A u \in Thread : \A i \in 1 .. Len(stack[u]) : stack[u][i] # tail
    BY <1>8, <1>9, BuilderIsThread DEF Inv, Locks
  <2>. QED
    BY <1>1, <1>5, <2>1, <2>2 DEF Inv, TypeOK
<1>. QED
  BY <1>6, <1>7, <1>8, <1>9 DEF Locks

LEMMA FulfilAgainKeepsLocks == ASSUME Inv, NEW t \in Thread, FulfilAgain(t) PROVE Locks'
<1>1. /\ pc' = [pc EXCEPT ![t] = "return"] /\ UNCHANGED <<tail, built, stack>>
      /\ cur[t] \in Promise
      /\ sem' = [sem EXCEPT ![cur[t]] = 0]
  BY DEF FulfilAgain, Goto, app, Inv, TypeOK
<1>2. \A p \in Promise : sem[p] = 0 => sem'[p] = 0
  BY <1>1 DEF Inv, TypeOK
<1>3. \A u \in Thread : \A i \in 1 .. Len(stack[u]) : stack[u][i] \in Promise
  BY DEF Inv, TypeOK
<1>4. \A u \in Thread : pc'[u] = "linking" => pc[u] = "linking"
  BY <1>1 DEF Inv, TypeOK
<1>5. /\ \A u \in Thread : \A i \in 1 .. Len(stack'[u]) : sem'[stack'[u][i]] = 0
      /\ \A u, v \in Thread : \A i \in 1 .. Len(stack'[u]), j \in 1 .. Len(stack'[v]) :
           stack'[u][i] = stack'[v][j] => u = v /\ i = j
  BY <1>1, <1>2, <1>3 DEF Inv, Locks
<1>6. tail \in Promise
  BY DEF Inv, TypeOK
<1>. QED
  BY <1>1, <1>2, <1>4, <1>5, <1>6, BuilderIsThread DEF Inv, Locks

\* Only the innermost promise of the stack becomes free, and it was there once.
LEMMA SignalKeepsLocks == ASSUME Inv, NEW t \in Thread, Signal(t) PROVE Locks'
<1>. DEFINE n == Len(stack[t])
<1>1. /\ UNCHANGED <<pc, tail, built>>
      /\ stack[t] # << >>
      /\ sem' = [sem EXCEPT ![stack[t][n]] = 1]
      /\ stack' = [stack EXCEPT ![t] = SubSeq(@, 1, Len(@) - 1)]
  BY DEF Signal, Signalled, app
<1>2. \A u \in Thread : stack[u] \in Seq(Promise)
  BY DEF Inv, TypeOK
<1>3. n \in Nat /\ n >= 1 /\ stack[t][n] \in Promise
  BY <1>1, <1>2
<1>4. /\ Len(stack'[t]) = n - 1
      /\ \A i \in 1 .. n - 1 : stack'[t][i] = stack[t][i]
      /\ \A u \in Thread : u # t => stack'[u] = stack[u]
  <2>1. stack'[t] = SubSeq(stack[t], 1, n - 1)
    BY <1>1 DEF Inv, TypeOK
  <2>2. Len(SubSeq(stack[t], 1, n - 1)) = n - 1
    BY <1>2, <1>3
  <2>3. \A i \in 1 .. n - 1 : SubSeq(stack[t], 1, n - 1)[i] = stack[t][i]
    BY <1>2, <1>3
  <2>. QED
    BY <1>1, <2>1, <2>2, <2>3 DEF Inv, TypeOK
<1>5. \A u \in Thread : \A i \in 1 .. Len(stack'[u]) :
        /\ i \in 1 .. Len(stack[u]) /\ stack'[u][i] = stack[u][i]
        /\ ~ (u = t /\ i = n)
  <2>1. \A u \in Thread : Len(stack[u]) \in Nat
    BY <1>2
  <2>2. \A i \in 1 .. n - 1 : i \in 1 .. n /\ i # n
    BY <1>3
  <2>. QED
    BY <1>3, <1>4, <2>1, <2>2
<1>6. \A u \in Thread : \A i \in 1 .. Len(stack'[u]) : sem'[stack'[u][i]] = 0
  <2>. SUFFICES ASSUME NEW u \in Thread, NEW i \in 1 .. Len(stack'[u])
                PROVE  sem'[stack'[u][i]] = 0
    OBVIOUS
  <2>1. stack[u][i] # stack[t][n] /\ sem[stack[u][i]] = 0
    BY <1>3, <1>5 DEF Inv, Locks
  <2>2. stack[u][i] \in Promise
    BY <1>2, <1>5
  <2>. QED
    BY <1>1, <1>5, <2>1, <2>2 DEF Inv, TypeOK
<1>7. ASSUME NEW u \in Thread, NEW v \in Thread,
             NEW i \in 1 .. Len(stack'[u]), NEW j \in 1 .. Len(stack'[v]),
             stack'[u][i] = stack'[v][j]
      PROVE  u = v /\ i = j
  BY <1>5, <1>7 DEF Inv, Locks
<1>8. ASSUME pc'[Builder] = "linking"
      PROVE  /\ built' < N /\ sem'[tail'] = 0
             /\ \A u \in Thread : \A i \in 1 .. Len(stack'[u]) : stack'[u][i] # tail'
  <2>1. /\ built < N /\ sem[tail] = 0 /\ stack[t][n] # tail /\ tail \in Promise
        /\ \A u \in Thread : \A i \in 1 .. Len(stack[u]) : stack[u][i] # tail
    BY <1>1, <1>3, <1>8 DEF Inv, Locks, TypeOK
  <2>. QED
    BY <1>1, <1>5, <2>1 DEF Inv, TypeOK
<1>. QED
  BY <1>1, <1>6, <1>7, <1>8 DEF Inv, Locks

LEMMA WorkKeepsLocks == ASSUME Inv, NEW t \in Thread, Work(t) PROVE Locks'
<1>. USE DEF Inv, TypeOK, Goto, fields, app
<1>1. CASE Fulfil(t) \/ FulfilAgain(t) \/ Signal(t)
  BY <1>1, FulfilKeepsLocks, FulfilAgainKeepsLocks, SignalKeepsLocks
<1>2. CASE CheckNext(t) \/ Return(t) \/ CheckProcessed(t) \/ NothingToRun(t)
  BY <1>2, LocksUntouched DEF CheckNext, Return, CheckProcessed, NothingToRun
<1>3. CASE RunHandler(t)
  BY <1>3, LocksUntouched DEF RunHandler
<1>4. CASE PassErrorOn(t)
  BY <1>4, LocksUntouched DEF PassErrorOn
<1>5. CASE CopyNext(t) \/ CopyResultHandler(t) \/ CopyErrorHandler(t)
  BY <1>5, LocksUntouched DEF CopyNext, CopyResultHandler, CopyErrorHandler
<1>6. CASE CheckReturned(t)
  BY <1>6, LocksUntouched DEF CheckReturned
<1>. QED
  BY <1>1, <1>2, <1>3, <1>4, <1>5, <1>6 DEF Work

\* Writing a link takes the semaphore of tail, which nobody has.
LEMMA StoreHandlerKeepsLocks == ASSUME Inv, LinkStoresHandler PROVE Locks'
<1>1. /\ pc' = [pc EXCEPT ![Builder] = "linking"] /\ UNCHANGED <<tail, built, stack>>
      /\ tail \in Promise /\ built < N /\ sem[tail] = 1
      /\ sem' = [sem EXCEPT ![tail] = 0]
  BY DEF LinkStoresHandler, AtLink, Free, Goto, Inv, TypeOK
<1>2. \A u \in Thread : \A i \in 1 .. Len(stack[u]) :
        stack[u][i] \in Promise /\ stack[u][i] # tail /\ sem[stack[u][i]] = 0
  BY <1>1 DEF Inv, Locks, TypeOK
<1>3. \A u \in Thread : pc'[u] = "linking" => u = Builder
  BY <1>1 DEF Inv, Locks, TypeOK
<1>4. /\ \A u \in Thread : \A i \in 1 .. Len(stack'[u]) : sem'[stack'[u][i]] = 0
      /\ \A u, v \in Thread : \A i \in 1 .. Len(stack'[u]), j \in 1 .. Len(stack'[v]) :
           stack'[u][i] = stack'[v][j] => u = v /\ i = j
  BY <1>1, <1>2 DEF Inv, Locks, TypeOK
<1>5. sem'[tail'] = 0 /\ built' < N
  BY <1>1 DEF Inv, TypeOK
<1>. QED
  BY <1>1, <1>2, <1>3, <1>4, <1>5 DEF Locks

LEMMA StoreNextKeepsLocks == ASSUME Inv, LinkStoresNext PROVE Locks'
<1>1. /\ pc[Builder] = "linking" /\ pc' = [pc EXCEPT ![Builder] = "idle"]
      /\ UNCHANGED stack /\ tail \in Promise
      /\ sem' = [sem EXCEPT ![tail] = 1]
  BY DEF LinkStoresNext, Signalled, Goto, Inv, TypeOK
<1>2. \A u \in Thread : \A i \in 1 .. Len(stack[u]) :
        stack[u][i] \in Promise /\ stack[u][i] # tail /\ sem[stack[u][i]] = 0
  BY <1>1 DEF Inv, Locks, TypeOK
<1>3. \A u \in Thread : pc'[u] # "linking"
  BY <1>1 DEF Inv, Locks, TypeOK
<1>4. /\ \A u \in Thread : \A i \in 1 .. Len(stack'[u]) : sem'[stack'[u][i]] = 0
      /\ \A u, v \in Thread : \A i \in 1 .. Len(stack'[u]), j \in 1 .. Len(stack'[v]) :
           stack'[u][i] = stack'[v][j] => u = v /\ i = j
  BY <1>1, <1>2 DEF Inv, Locks, TypeOK
<1>. QED
  BY <1>3, <1>4, BuilderIsThread DEF Locks

LEMMA NextKeepsLocks == Inv /\ [Next]_vars => Locks'
<1>. SUFFICES ASSUME Inv, [Next]_vars PROVE Locks'
  OBVIOUS
<1>1. CASE LinkRunsNow \/ LinkPassedOver
  BY <1>1, LocksUntouched DEF LinkRunsNow, LinkPassedOver, AtLink
<1>2. ASSUME NEW t \in Thread, StartFulfil(t) PROVE Locks'
  BY <1>2, LocksUntouched DEF StartFulfil, Goto, fields, Inv, TypeOK
<1>3. CASE UNCHANGED vars
  BY <1>3, LocksUntouched DEF vars, fields, app
<1>. QED
  BY <1>1, <1>2, <1>3, WorkKeepsLocks, StoreHandlerKeepsLocks, StoreNextKeepsLocks
  DEF Next, Write, Terminated

-----------------------------------------------------------------------------
\* Results are final: only a pending promise of the heap is fulfilled, and only
\* a new object comes into being with a result.
LEMMA NewObjectKeepsFinality ==
  ASSUME Inv, NEW q \in Promise \ heap, NEW s \in Status, Allocate(q, s),
         \A p \in heap : processed'[p] => result[p] # "pending",
         \A p \in Promise \ heap : processed'[p] = processed[p],
         \A t \in Thread :
           /\ pc'[t] \in {"settled", "trigger", "dispatch"} \cup Copying =>
                cur'[t] \in heap /\ result[cur'[t]] # "pending"
           /\ pc'[t] = "wait" => arg'[t] \in Settled
  PROVE  Finality'
<1>1. heap' = heap \cup {q} /\ result' = [result EXCEPT ![q] = s] /\ heap \subseteq Promise
  BY DEF Allocate, Inv, TypeOK
<1>2. \A p \in Promise : p # q => result'[p] = result[p]
  BY <1>1 DEF Inv, TypeOK
<1>3. \A p \in Promise : result'[p] # "pending" => p \in heap'
  BY <1>1, <1>2 DEF Inv, Finality
<1>4. \A p \in Promise : processed'[p] => result'[p] # "pending"
  BY <1>1, <1>2 DEF Inv, Finality
<1>. QED
  BY <1>1, <1>2, <1>3, <1>4 DEF Finality

LEMMA WorkKeepsFinality == ASSUME Inv, NEW t \in Thread, Work(t) PROVE Finality'
<1>. USE DEF Inv, TypeOK, Finality, Copying, Goto, fields, locals, app, hist
<1>1. CASE Fulfil(t)
  <2>1. /\ cur[t] \in heap /\ result[cur[t]] = "pending" /\ arg[t] \in Settled
        /\ result' = [result EXCEPT ![cur[t]] = arg[t]]
        /\ pc' = [pc EXCEPT ![t] = "settled"]
        /\ UNCHANGED <<heap, processed, cur, arg>>
    BY <1>1 DEF Fulfil, IsFulfilled, HeapClosed
  <2>2. \A p \in Promise : p # cur[t] => result'[p] = result[p]
    BY <2>1
  <2>3. result'[cur[t]] # "pending"
    BY <2>1 DEF Settled
  <2>. QED
    BY <2>1, <2>2, <2>3
<1>2. CASE FulfilAgain(t)
  BY <1>2 DEF FulfilAgain
<1>3. CASE CheckNext(t)
  BY <1>3 DEF CheckNext
<1>4. CASE Signal(t)
  BY <1>4 DEF Signal
<1>5. CASE Return(t)
  BY <1>5 DEF Return
<1>6. CASE CheckProcessed(t)
  BY <1>6 DEF CheckProcessed
<1>7. CASE RunHandler(t)
  <2>1. /\ cur[t] \in heap /\ result[cur[t]] # "pending"
        /\ processed' = [processed EXCEPT ![cur[t]] = TRUE]
        /\ UNCHANGED <<cur, arg>>
        /\ pc' \in {[pc EXCEPT ![t] = "return"], [pc EXCEPT ![t] = "copyNext"]}
    BY <1>7 DEF RunHandler, HeapClosed
  <2>2. CASE UNCHANGED <<heap, result>>
    BY <2>1, <2>2
  <2>3. CASE ReturnsPromise(HandlerFor(cur[t]), Fresh)
    <3>1. PICK s \in Status : Allocate(Fresh, s)
      BY <2>3 DEF ReturnsPromise
    <3>2. Fresh \in Promise \ heap
      BY <2>3, FreshIsNew DEF ReturnsPromise
    <3>3. \A u \in Thread :
            /\ pc'[u] \in {"settled", "trigger", "dispatch"} \cup Copying =>
                 cur'[u] \in heap /\ result[cur'[u]] # "pending"
            /\ pc'[u] = "wait" => arg'[u] \in Settled
      BY <2>1 DEF HeapClosed
    <3>4. /\ \A p \in heap : processed'[p] => result[p] # "pending"
          /\ \A p \in Promise \ heap : processed'[p] = processed[p]
      BY <2>1
    <3>. QED
      BY <3>1, <3>2, <3>3, <3>4, NewObjectKeepsFinality
  <2>. QED
    BY <1>7, <2>2, <2>3 DEF RunHandler
<1>8. CASE PassErrorOn(t)
  BY <1>8 DEF PassErrorOn, Settled
<1>9. CASE NothingToRun(t)
  BY <1>9 DEF NothingToRun
<1>10. CASE CopyNext(t) \/ CopyResultHandler(t) \/ CopyErrorHandler(t)
  BY <1>10 DEF CopyNext, CopyResultHandler, CopyErrorHandler
<1>11. CASE CheckReturned(t)
  BY <1>11 DEF CheckReturned, IsFulfilled
<1>. QED
  BY <1>1, <1>2, <1>3, <1>4, <1>5, <1>6, <1>7, <1>8, <1>9, <1>10, <1>11 DEF Work

LEMMA WriteKeepsFinality == ASSUME Inv, Write PROVE Finality'
<1>. USE DEF Inv, Finality, HeapClosed, Copying, Goto
<1>1. \A t \in Thread :
        /\ pc[t] \in {"settled", "trigger", "dispatch"} \cup Copying =>
             cur[t] \in heap /\ result[cur[t]] # "pending"
        /\ pc[t] = "wait" => arg[t] \in Settled
  OBVIOUS
<1>2. ASSUME Write, ~ LinkStoresNext
      PROVE  Fresh \in Promise \ heap /\ \E s \in Status : Allocate(Fresh, s)
  <2>1. AtLink
    BY <1>2 DEF Write, LinkRunsNow, LinkPassedOver, LinkStoresHandler
  <2>2. {"pending", "error"} \subseteq Status
    BY DEF Status, Settled
  <2>3. \E s \in Status : Allocate(Fresh, s)
    BY <1>2, <2>2 DEF Write, LinkRunsNow, LinkPassedOver, LinkStoresHandler, ReturnsPromise
  <2>. QED
    BY <2>1, <2>3, FreshIsNew DEF AtLink
<1>3. CASE LinkRunsNow \/ LinkPassedOver
  <2>1. UNCHANGED <<processed, pc, cur, arg>>
    BY <1>3 DEF LinkRunsNow, LinkPassedOver, locals
  <2>2. ~ LinkStoresNext
    BY <1>3 DEF LinkRunsNow, LinkPassedOver, LinkStoresNext, AtLink
  <2>3. PICK s \in Status : Allocate(Fresh, s)
    BY <1>2, <2>2
  <2>4. /\ \A p \in heap : processed'[p] => result[p] # "pending"
        /\ \A p \in Promise \ heap : processed'[p] = processed[p]
    BY <2>1 DEF TypeOK
  <2>5. \A t \in Thread :
          /\ pc'[t] \in {"settled", "trigger", "dispatch"} \cup Copying =>
               cur'[t] \in heap /\ result[cur'[t]] # "pending"
          /\ pc'[t] = "wait" => arg'[t] \in Settled
    BY <1>1, <2>1
  <2>6. Fresh \in Promise \ heap
    BY <1>2, <2>2
  <2>. QED
    BY <2>3, <2>4, <2>5, <2>6, NewObjectKeepsFinality
<1>4. CASE LinkStoresHandler
  <2>1. /\ UNCHANGED <<processed, arg>>
        /\ cur' = [cur EXCEPT ![Builder] = Fresh]
        /\ pc' = [pc EXCEPT ![Builder] = "linking"]
    BY <1>4 DEF LinkStoresHandler
  <2>2. ~ LinkStoresNext
    BY <1>4 DEF LinkStoresHandler, LinkStoresNext, AtLink
  <2>3. PICK s \in Status : Allocate(Fresh, s)
    BY <1>2, <2>2
  <2>4. \A t \in Thread :
          /\ pc'[t] \in {"settled", "trigger", "dispatch"} \cup Copying =>
               cur'[t] \in heap /\ result[cur'[t]] # "pending"
          /\ pc'[t] = "wait" => arg'[t] \in Settled
    BY <1>1, <2>1 DEF TypeOK
  <2>5. /\ \A p \in heap : processed'[p] => result[p] # "pending"
        /\ \A p \in Promise \ heap : processed'[p] = processed[p]
    BY <2>1 DEF TypeOK
  <2>6. Fresh \in Promise \ heap
    BY <1>2, <2>2
  <2>. QED
    BY <2>3, <2>4, <2>5, <2>6, NewObjectKeepsFinality
<1>5. CASE LinkStoresNext
  BY <1>5 DEF LinkStoresNext, locals, TypeOK
<1>. QED
  BY <1>3, <1>4, <1>5 DEF Write

LEMMA NextKeepsFinality == Inv /\ [Next]_vars => Finality'
<1>. SUFFICES ASSUME Inv, [Next]_vars PROVE Finality'
  OBVIOUS
<1>1. ASSUME NEW t \in Thread, StartFulfil(t) PROVE Finality'
  BY <1>1 DEF StartFulfil, Goto, fields, Inv, TypeOK, Finality, Copying
<1>2. CASE UNCHANGED vars
  BY <1>2 DEF vars, fields, locals, Inv, Finality
<1>. QED
  BY <1>1, <1>2, WorkKeepsFinality, WriteKeepsFinality DEF Next, Terminated

LEMMA Invariant == Spec => []Inv
<1>1. Inv /\ [Next]_vars => Inv'
  BY NextKeepsTypes, NextKeepsHeap, NextKeepsLocks, NextKeepsFinality DEF Inv
<1>. QED
  BY <1>1, InitInv, PTL DEF Spec

-----------------------------------------------------------------------------
\* Every variable keeps its type; in particular no call is ever made on nil.
THEOREM TypeCorrect == Spec => []TypeOK
<1>1. Inv => TypeOK
  BY DEF Inv
<1>. QED
  BY <1>1, Invariant, PTL

LEMMA LocksExclude == ASSUME Inv PROVE MutualExclusion
<1>1. ASSUME NEW t \in Thread, NEW p \in Holds(t)
      PROVE  \/ \E i \in 1 .. Len(stack[t]) : p = stack[t][i]
             \/ t = Builder /\ pc[t] = "linking" /\ p = tail
  BY <1>1 DEF Holds
<1>2. \A t \in Thread : \A p \in Holds(t) : sem[p] = 0
  BY <1>1 DEF Inv, Locks
<1>3. \A t, u \in Thread : t # u => Holds(t) \cap Holds(u) = {}
  <2>. SUFFICES ASSUME NEW t \in Thread, NEW u \in Thread, t # u,
                       NEW p \in Holds(t), p \in Holds(u)
                PROVE  FALSE
    OBVIOUS
  <2>. QED
    BY <1>1 DEF Inv, Locks
<1>. QED
  BY <1>2, <1>3 DEF Inv, Locks, MutualExclusion

\* A promise is inside at most one call that holds its semaphore, whatever the
\* number of threads, and that semaphore is taken for all of the call.
THEOREM CallsExclude == Spec => []MutualExclusion
<1>1. Inv => MutualExclusion
  BY LocksExclude
<1>. QED
  BY <1>1, Invariant, PTL

\* A result, once there, is never replaced, and isProcessed is set on settled
\* promises only and never reset.
THEOREM ResultsAreFinal == Spec => SettledOnce
<1>1. ASSUME Inv, Next, NEW p \in heap
      PROVE  /\ result[p] # "pending" => result'[p] = result[p]
             /\ processed[p] => processed'[p] /\ result[p] # "pending"
  <2>. USE DEF Inv, TypeOK
  <2>1. processed[p] => result[p] # "pending"
    BY <1>1 DEF Finality
  <2>2. processed[p] => processed'[p]
    <3>1. ASSUME NEW t \in Thread, Work(t) PROVE processed[p] => processed'[p]
      BY <1>1, <3>1
      DEF Work, Fulfil, FulfilAgain, CheckNext, Signal, Return, CheckProcessed, RunHandler,
          PassErrorOn, NothingToRun, CopyNext, CopyResultHandler, CopyErrorHandler,
          CheckReturned, fields
    <3>2. ASSUME NEW t \in Thread, StartFulfil(t) PROVE processed' = processed
      BY <3>2 DEF StartFulfil, fields
    <3>3. CASE Write
      BY <3>3 DEF Write, LinkRunsNow, LinkPassedOver, LinkStoresHandler, LinkStoresNext
    <3>. QED
      BY <1>1, <3>1, <3>2, <3>3 DEF Next, Terminated, vars, fields
  \* A new object is not p, and a call that fulfils p found it pending.
  <2>3. ASSUME NEW s \in Status, CanAllocate, Allocate(Fresh, s) PROVE result'[p] = result[p]
    BY <1>1, <2>3, FreshIsNew DEF Allocate
  <2>4. ASSUME result[p] # "pending" PROVE result'[p] = result[p]
    <3>1. ASSUME NEW t \in Thread, Fulfil(t) PROVE result'[p] = result[p]
      BY <2>4, <3>1 DEF Fulfil, IsFulfilled
    <3>2. ASSUME NEW t \in Thread, RunHandler(t) PROVE result'[p] = result[p]
      BY <2>3, <3>2 DEF RunHandler, ReturnsPromise
    <3>3. ASSUME NEW t \in Thread, Work(t) PROVE result'[p] = result[p]
      BY <3>1, <3>2, <3>3
      DEF Work, FulfilAgain, CheckNext, Signal, Return, CheckProcessed, PassErrorOn,
          NothingToRun, CopyNext, CopyResultHandler, CopyErrorHandler, CheckReturned, fields
    <3>4. CASE LinkRunsNow \/ LinkPassedOver \/ LinkStoresHandler
      <4>1. {"pending", "error"} \subseteq Status
        BY DEF Status, Settled
      <4>. QED
        BY <2>3, <3>4, <4>1
        DEF LinkRunsNow, LinkPassedOver, LinkStoresHandler, AtLink, ReturnsPromise
    <3>5. CASE LinkStoresNext
      BY <3>5 DEF LinkStoresNext
    <3>6. ASSUME NEW t \in Thread, StartFulfil(t) PROVE result'[p] = result[p]
      BY <3>6 DEF StartFulfil, fields
    <3>. QED
      BY <1>1, <3>3, <3>4, <3>5, <3>6 DEF Next, Write, Terminated, vars, fields
  <2>. QED
    BY <2>1, <2>2, <2>4
<1>2. Inv /\ [Next]_vars => [ResultsKept]_vars
  BY <1>1 DEF ResultsKept
<1>. QED
  BY <1>2, Invariant, PTL DEF Spec, SettledOnce

-----------------------------------------------------------------------------
(***************************************************************************)
(* Continuations. When a handler returns a promise, the next promise of    *)
(* the one whose handler ran is copied onto it and is never fulfilled      *)
(* afterwards. D is the set of the promises that were copied so: a set the *)
(* code does not keep, which every step below extends by at most one.      *)
(***************************************************************************)

\* Promises whose handler may still run, and whose next may still be used.
Alive(D, p) == p \notin D /\ ~ processed[p]

\* p holds the handler of link j.
Carries(p, j) == resultHandler[p] = j \/ errorHandler[p] = j

\* The builder is between the two stores of a link.
Linking == pc[Builder] = "linking"

\* The handler of link j is no longer only in the hands of the builder.
Written(j) == j <= built \/ (Linking /\ j = built + 1)

\* Nobody fulfils the promises of D any more.
Forsaken(D) == \A d \in D : d \in heap /\ result[d] = "pending" /\ d \notin owned

\* The next promise belongs to the library and to one promise, and settles only
\* through it.
NextPromises(D) ==
  /\ \A p \in Promise : next[p] # NoPromise => next[p] \notin owned
  /\ \A p \in Promise :
       Alive(D, p) /\ next[p] # NoPromise => next[p] \notin D /\ result[next[p]] = "pending"
  /\ \A p, q \in Promise :
       Alive(D, p) /\ Alive(D, q) /\ next[p] # NoPromise /\ next[p] = next[q] => p = q

\* No two live promises carry the same handler, and none carries one that has
\* run.
Handlers(D) ==
  /\ \A p, q \in Promise, j \in Link :
       Alive(D, p) /\ Alive(D, q) /\ Carries(p, j) /\ Carries(q, j) => p = q
  /\ \A p \in Promise, j \in Link : Alive(D, p) /\ Carries(p, j) => runs[j] = 0
  /\ \A p \in Promise, j \in Link : Carries(p, j) => Written(j)
  /\ \A j \in Link : runs[j] <= 1 /\ (runs[j] > 0 => Written(j))

\* An object carries nothing before it is allocated.
Unused ==
  \A p \in Promise \ heap :
    next[p] = NoPromise /\ resultHandler[p] = NoLink /\ errorHandler[p] = NoLink

\* Nobody but the builder knows the promise it is about to store as next.
NewLink(D) ==
  Linking =>
    /\ cur[Builder] \notin D \cup owned
    /\ result[cur[Builder]] = "pending"
    /\ \A p \in Promise : next[p] # cur[Builder]
    /\ result[tail] = "pending"
    /\ \A t \in Thread : pc[t] = "wait" => cur[t] # cur[Builder]

\* Who is inside fulfillWithResult, and on what: the application on a promise it
\* owns, counted before, or the library on a next promise that only this call
\* can reach.
Calling(D) ==
  /\ \A t \in Thread : pc[t] \notin {"idle", "linking"} => t \in Workers
  /\ \A p \in owned : result[p] # "pending" => called[p] >= 1
  /\ \A t \in Thread : pc[t] = "wait" =>
       /\ cur[t] \notin D
       /\ cur[t] \in owned => called[cur[t]] >= 1 /\ (result[cur[t]] # "pending" => called[cur[t]] >= 2)
       /\ cur[t] \notin owned =>
            result[cur[t]] = "pending" /\ \A p \in Promise : Alive(D, p) => next[p] # cur[t]
  /\ \A t \in Thread : pc[t] = "dispatch" => ~ processed[cur[t]]

\* The promise whose next and handlers t copies.
Source(t) == IF pc[t] = "copyNext" THEN next[cur[t]] ELSE src[t]

\* Inside copyHandlersFromPromise.
CopiesHandlers == {"copyNext", "copyResultHandler", "copyErrorHandler"}

\* The promise that is copied is in D; what it carries goes to the returned
\* promise alone.
Handing(D) ==
  \A t \in Thread : pc[t] \in CopiesHandlers /\ Source(t) # NoPromise =>
    /\ Source(t) \in D
    /\ \A j \in Link : Carries(Source(t), j) =>
         /\ runs[j] = 0
         /\ \A q \in Promise : Alive(D, q) /\ Carries(q, j) => q = rp[t]
    /\ pc[t] = "copyNext" /\ next[Source(t)] # NoPromise =>
         /\ next[Source(t)] \notin D
         /\ result[next[Source(t)]] = "pending"
         /\ \A p \in Promise : Alive(D, p) => next[p] # next[Source(t)]

\* The invariant of the continuations.
Continuations(D) ==
  Forsaken(D) /\ NextPromises(D) /\ Handlers(D) /\ NewLink(D) /\ Calling(D) /\ Handing(D)

\* The promises are fulfilled on one thread; the builder may be that thread or
\* another.
OneWorker == \A t, u \in Workers : t = u

\* With one fulfilling thread, at most one call is in progress, besides a link
\* being written.
LEMMA ActiveAlone ==
  ASSUME OneWorker, NEW D, Calling(D), NEW t \in Thread, NEW u \in Thread,
         pc[t] \notin {"idle", "linking"}, pc[u] \notin {"idle", "linking"}
  PROVE  t = u
  BY DEF OneWorker, Calling

\* A step that only moves its own thread, and not into one of the critical
\* places.
LEMMA QuietStep ==
  ASSUME Inv, NEW D \in SUBSET Promise, Unused, Continuations(D), NEW t \in Thread,
         UNCHANGED <<heap, result, processed, next, resultHandler, errorHandler,
                     built, tail, owned, called, runs>>,
         \A u \in Thread : u # t => pc'[u] = pc[u] /\ cur'[u] = cur[u] /\ rp'[u] = rp[u]
                                    /\ src'[u] = src[u],
         pc[t] \notin {"idle", "linking"},
         pc'[t] \notin {"wait", "linking"} \cup CopiesHandlers,
         pc'[t] = "dispatch" => ~ processed[cur'[t]]
  PROVE  Unused' /\ Continuations(D)'
<1>1. Linking' = Linking /\ (Linking => cur'[Builder] = cur[Builder])
  BY BuilderIsThread DEF Linking
<1>2. Forsaken(D)' /\ NextPromises(D)' /\ Unused'
  BY DEF Continuations, Forsaken, NextPromises, Unused, Alive
<1>3. Handlers(D)'
  BY <1>1 DEF Continuations, Handlers, Alive, Carries, Written
<1>4. NewLink(D)'
  BY <1>1 DEF Continuations, NewLink
<1>5. Calling(D)'
  BY DEF Continuations, Calling, Alive
<1>6. Handing(D)'
  BY DEF Continuations, Handing, Source, Alive, Carries
<1>. QED
  BY <1>2, <1>3, <1>4, <1>5, <1>6 DEF Continuations

-----------------------------------------------------------------------------
\* The steps of a fulfil call, and the start of one.
LEMMA QuietWork ==
  ASSUME Inv, NEW D \in SUBSET Promise, Unused, Continuations(D), NEW t \in Thread,
         FulfilAgain(t) \/ CheckNext(t) \/ Signal(t) \/ Return(t) \/ CheckProcessed(t)
           \/ NothingToRun(t) \/ CheckReturned(t)
  PROVE  Unused' /\ Continuations(D)'
<1>. USE DEF Inv, TypeOK, Goto, fields, locals, app, hist, CopiesHandlers
<1>1. CASE FulfilAgain(t) \/ CheckNext(t) \/ Return(t)
  BY <1>1, QuietStep DEF FulfilAgain, CheckNext, Return
<1>2. CASE Signal(t)
  BY <1>2, QuietStep DEF Signal
<1>3. CASE CheckProcessed(t) \/ NothingToRun(t)
  BY <1>3, QuietStep DEF CheckProcessed, NothingToRun
<1>4. CASE CheckReturned(t)
  BY <1>4, QuietStep DEF CheckReturned
<1>. QED
  BY <1>1, <1>2, <1>3, <1>4

LEMMA StartFulfilHands ==
  ASSUME Inv, NEW D \in SUBSET Promise, Unused, Continuations(D), NEW t \in Thread,
         StartFulfil(t)
  PROVE  Unused' /\ Continuations(D)'
<1>1. PICK p \in owned : /\ called' = [called EXCEPT ![p] = @ + 1]
                         /\ cur' = [cur EXCEPT ![t] = p]
  BY DEF StartFulfil
<1>2. /\ UNCHANGED <<heap, result, processed, next, resultHandler, errorHandler,
                     built, tail, owned, runs, rp, src>>
      /\ t \in Workers /\ pc[t] = "idle" /\ pc' = [pc EXCEPT ![t] = "wait"]
  BY DEF StartFulfil, BetweenTurns, Goto, fields, hist
<1>3. /\ \A u \in Thread : u # t => pc'[u] = pc[u] /\ cur'[u] = cur[u]
      /\ pc'[t] = "wait" /\ cur'[t] = p /\ p \in Promise
  BY <1>1, <1>2 DEF Inv, TypeOK
<1>4. Linking' = Linking /\ (Linking => cur'[Builder] = cur[Builder])
  BY <1>2, <1>3, BuilderIsThread DEF Linking
<1>5. /\ \A q \in Promise : called[q] \in Nat /\ called'[q] >= called[q] /\ called'[q] \in Nat
      /\ called'[p] = called[p] + 1
  BY <1>1, <1>3, ConstantAssumption DEF Inv, TypeOK
<1>6. Forsaken(D)' /\ NextPromises(D)' /\ Unused'
  BY <1>2 DEF Continuations, Forsaken, NextPromises, Unused, Alive
<1>7. Handlers(D)'
  BY <1>2, <1>4 DEF Continuations, Handlers, Alive, Carries, Written
<1>8. NewLink(D)'
  BY <1>1, <1>2, <1>3, <1>4 DEF Continuations, NewLink
<1>9. Calling(D)'
  <2>1. \A q \in owned : result[q] # "pending" => called'[q] >= 1
    BY <1>5 DEF Continuations, Calling, Inv, TypeOK
  <2>2. /\ p \notin D
        /\ called'[p] >= 1 /\ (result[p] # "pending" => called'[p] >= 2)
    BY <1>1, <1>3, <1>5 DEF Continuations, Calling, Forsaken
  <2>3. ASSUME NEW u \in Thread, pc'[u] = "wait"
        PROVE  /\ cur'[u] \notin D
               /\ cur'[u] \in owned =>
                    called'[cur'[u]] >= 1 /\ (result[cur'[u]] # "pending" => called'[cur'[u]] >= 2)
               /\ cur'[u] \notin owned =>
                    result[cur'[u]] = "pending" /\ \A q \in Promise : Alive(D, q) => next[q] # cur'[u]
    <3>1. CASE u = t
      BY <1>3, <2>2, <3>1
    <3>2. CASE u # t
      <4>1. pc[u] = "wait" /\ cur'[u] = cur[u] /\ cur[u] \in Promise
        BY <1>3, <2>3, <3>2 DEF Inv, TypeOK
      <4>. QED
        BY <1>5, <4>1 DEF Continuations, Calling
    <3>. QED
      BY <3>1, <3>2
  <2>4. \A u \in Thread : pc'[u] = "dispatch" => ~ processed[cur'[u]]
    BY <1>3 DEF Continuations, Calling
  <2>5. \A u \in Thread : pc'[u] \notin {"idle", "linking"} => u \in Workers
    BY <1>2, <1>3 DEF Continuations, Calling
  <2>. QED
    BY <1>2, <2>1, <2>3, <2>4, <2>5 DEF Calling, Alive
<1>10. Handing(D)'
  BY <1>2, <1>3 DEF Continuations, Handing, Source, Alive, Carries, CopiesHandlers
<1>. QED
  BY <1>6, <1>7, <1>8, <1>9, <1>10 DEF Continuations

LEMMA FulfilHands ==
  ASSUME OneWorker, Inv, NEW D \in SUBSET Promise, Unused, Continuations(D), NEW t \in Thread,
         Fulfil(t)
  PROVE  Unused' /\ Continuations(D)'
<1>. DEFINE c == cur[t]
<1>1. /\ UNCHANGED <<heap, processed, next, resultHandler, errorHandler,
                     cur, built, tail, owned, called, runs, rp, src>>
      /\ pc[t] = "wait" /\ pc' = [pc EXCEPT ![t] = "settled"]
      /\ c \in Promise /\ result[c] = "pending" /\ sem[c] = 1
      /\ result' = [result EXCEPT ![c] = arg[t]]
  BY DEF Fulfil, Free, IsFulfilled, Goto, locals, app, hist, Inv, TypeOK
<1>2. /\ \A u \in Thread : u # t => pc'[u] = pc[u]
      /\ pc'[t] = "settled"
      /\ \A p \in Promise : p # c => result'[p] = result[p]
  BY <1>1 DEF Inv, TypeOK
<1>3. c \notin D /\ \A p \in Promise : Alive(D, p) => next[p] # c
  BY <1>1, ConstantAssumption DEF Continuations, Calling, NextPromises
<1>4. \A u \in Thread : u # t => pc[u] \in {"idle", "linking"}
  BY <1>1, ActiveAlone DEF Continuations
<1>5. Linking' = Linking
  BY <1>1, <1>2, BuilderIsThread DEF Linking
<1>6. Forsaken(D)' /\ Unused'
  BY <1>1, <1>2, <1>3 DEF Continuations, Forsaken, Unused
<1>7. NextPromises(D)'
  <2>1. \A p \in Promise : next[p] \in Promise \cup {NoPromise}
    BY DEF Inv, TypeOK, Nullable
  <2>. QED
    BY <1>1, <1>2, <1>3, <2>1 DEF Continuations, NextPromises, Alive
<1>8. Handlers(D)'
  BY <1>1, <1>5 DEF Continuations, Handlers, Alive, Carries, Written
<1>9. NewLink(D)'
  <2>. SUFFICES ASSUME Linking PROVE NewLink(D)'
    BY <1>5 DEF NewLink
  <2>1. cur[Builder] # c /\ tail # c /\ cur[Builder] \in Promise /\ tail \in Promise
    <3>1. cur[Builder] # c /\ cur[Builder] \in Promise
      BY <1>1, BuilderIsThread DEF Continuations, NewLink, Linking, Inv, TypeOK
    <3>2. sem[tail] = 0 /\ tail \in Promise
      BY DEF Linking, Inv, TypeOK, Locks
    <3>. QED
      BY <1>1, <3>1, <3>2
  <2>. QED
    BY <1>1, <1>2, <2>1 DEF Continuations, NewLink
<1>10. Calling(D)'
  <2>1. ASSUME NEW p \in owned, result'[p] # "pending" PROVE called[p] >= 1
    BY <1>1, <1>2, <2>1 DEF Continuations, Calling, Inv, TypeOK
  <2>2. \A u \in Thread : pc'[u] # "wait" /\ pc'[u] # "dispatch"
    BY <1>2, <1>4
  <2>3. \A u \in Thread : pc'[u] \notin {"idle", "linking"} => u \in Workers
    BY <1>1, <1>2 DEF Continuations, Calling
  <2>. QED
    BY <1>1, <2>1, <2>2, <2>3 DEF Calling
<1>11. Handing(D)'
  BY <1>2, <1>4 DEF Handing, CopiesHandlers
<1>. QED
  BY <1>6, <1>7, <1>8, <1>9, <1>10, <1>11 DEF Continuations

LEMMA PassErrorOnHands ==
  ASSUME OneWorker, Inv, NEW D \in SUBSET Promise, Unused, Continuations(D), NEW t \in Thread,
         PassErrorOn(t)
  PROVE  Unused' /\ Continuations(D)'
<1>. DEFINE p == cur[t]
            n == next[p]
<1>1. /\ UNCHANGED <<heap, result, next, resultHandler, errorHandler,
                     built, tail, owned, called, runs, rp, src>>
      /\ pc[t] = "dispatch" /\ pc' = [pc EXCEPT ![t] = "wait"]
      /\ cur' = [cur EXCEPT ![t] = n]
      /\ processed' = [processed EXCEPT ![p] = TRUE]
      /\ p \in Promise /\ n # NoPromise /\ n \in Promise
  BY DEF PassErrorOn, HasNext, ErrorTarget, Goto, app, hist, Inv, TypeOK, Nullable
<1>2. /\ \A u \in Thread : u # t => pc'[u] = pc[u] /\ cur'[u] = cur[u]
      /\ pc'[t] = "wait" /\ cur'[t] = n
      /\ \A q \in Promise : Alive(D, q)' => Alive(D, q) /\ q # p
  BY <1>1 DEF Inv, TypeOK, Alive
<1>3. Alive(D, p)
  BY <1>1 DEF Continuations, Calling, Forsaken, Alive, Inv, Finality
<1>4. /\ n \notin D /\ n \notin owned /\ result[n] = "pending"
      /\ \A q \in Promise : Alive(D, q)' => next[q] # n
  BY <1>1, <1>2, <1>3 DEF Continuations, NextPromises
<1>5. \A u \in Thread : u # t => pc[u] \in {"idle", "linking"}
  BY <1>1, ActiveAlone DEF Continuations
<1>6. Linking' = Linking /\ (Linking => cur'[Builder] = cur[Builder])
  BY <1>1, <1>2, BuilderIsThread DEF Linking
<1>7. Forsaken(D)' /\ Unused'
  BY <1>1 DEF Continuations, Forsaken, Unused
<1>8. NextPromises(D)'
  BY <1>1, <1>2 DEF Continuations, NextPromises
<1>9. Handlers(D)'
  BY <1>1, <1>2, <1>6 DEF Continuations, Handlers, Carries, Written
<1>10. NewLink(D)'
  BY <1>1, <1>2, <1>6 DEF Continuations, NewLink
<1>11. Calling(D)'
  <2>1. \A u \in Thread : u # t => pc'[u] # "wait" /\ pc'[u] # "dispatch"
    BY <1>2, <1>5
  <2>2. \A u \in Thread : pc'[u] \notin {"idle", "linking"} => u \in Workers
    BY <1>1, <1>2 DEF Continuations, Calling
  <2>. QED
    BY <1>1, <1>2, <1>4, <2>1, <2>2 DEF Continuations, Calling
<1>12. Handing(D)'
  BY <1>2, <1>5 DEF Handing, CopiesHandlers
<1>. QED
  BY <1>7, <1>8, <1>9, <1>10, <1>11, <1>12 DEF Continuations

\* The step that extends D: by the next promise of the one whose handler runs.
LEMMA RunHandlerHands ==
  ASSUME OneWorker, Inv, NEW D \in SUBSET Promise, Unused, Continuations(D), NEW t \in Thread,
         RunHandler(t)
  PROVE  \E E \in SUBSET Promise : Unused' /\ Continuations(E)'
<1>. DEFINE p == cur[t]
            j == HandlerFor(p)
            n == next[p]
<1>1. /\ UNCHANGED <<next, resultHandler, errorHandler, cur, built, tail, called, src>>
      /\ pc[t] = "dispatch"
      /\ processed' = [processed EXCEPT ![p] = TRUE]
      /\ p \in Promise /\ j \in Link /\ Carries(p, j) /\ n \in Promise \cup {NoPromise}
  BY DEF RunHandler, HandlerFor, Carries, Inv, TypeOK, Nullable
<1>2. \A q \in Promise : q # p => processed'[q] = processed[q]
  BY <1>1 DEF Inv, TypeOK
<1>3. Alive(D, p) /\ processed'[p]
  BY <1>1 DEF Continuations, Calling, Forsaken, Alive, Inv, Finality, TypeOK
<1>4. \A u \in Thread : u # t => pc[u] \in {"idle", "linking"}
  BY <1>1, ActiveAlone DEF Continuations
<1>5. /\ runs[j] = 0 /\ Written(j)
      /\ \A q \in Promise : Alive(D, q) /\ Carries(q, j) => q = p
  BY <1>1, <1>3 DEF Continuations, Handlers
<1>6. CASE ReturnsNil(j) /\ pc' = [pc EXCEPT ![t] = "return"] /\ UNCHANGED <<heap, result, rp, owned>>
  <2>1. /\ \A u \in Thread : u # t => pc'[u] = pc[u]
        /\ pc'[t] = "return"
        /\ runs'[j] = 1 /\ \A i \in Link : i # j => runs'[i] = runs[i]
    BY <1>1, <1>5, <1>6 DEF ReturnsNil, Inv, TypeOK
  <2>2. Linking' = Linking
    BY <1>1, <2>1, BuilderIsThread DEF Linking
  <2>3. \A q \in Promise : Alive(D, q)' => Alive(D, q) /\ q # p
    BY <1>2, <1>3 DEF Alive
  <2>4. Forsaken(D)' /\ NextPromises(D)' /\ Unused'
    BY <1>1, <1>6, <2>3 DEF Continuations, Forsaken, NextPromises, Unused
  <2>5. Handlers(D)'
    <3>1. \A q \in Promise, i \in Link : Carries(q, i)' = Carries(q, i)
      BY <1>1 DEF Carries
    <3>2. \A i \in Link : Written(i)' = Written(i)
      BY <1>1, <2>2 DEF Written
    <3>. QED
      BY <1>5, <2>1, <2>3, <3>1, <3>2 DEF Continuations, Handlers
  <2>6. NewLink(D)'
    BY <1>1, <1>6, <2>1, <2>2 DEF Continuations, NewLink
  <2>7. Calling(D)'
    <3>1. \A u \in Thread : pc'[u] # "wait" /\ pc'[u] # "dispatch"
      BY <1>4, <2>1
    <3>2. \A u \in Thread : pc'[u] \notin {"idle", "linking"} => u \in Workers
      BY <1>1, <2>1 DEF Continuations, Calling
    <3>. QED
      BY <1>1, <1>6, <3>1, <3>2 DEF Continuations, Calling
  <2>8. Handing(D)'
    BY <1>4, <2>1 DEF Handing, CopiesHandlers
  <2>. QED
    BY <2>4, <2>5, <2>6, <2>7, <2>8 DEF Continuations
<1>7. CASE /\ ReturnsPromise(j, Fresh) /\ rp' = [rp EXCEPT ![t] = Fresh]
           /\ pc' = [pc EXCEPT ![t] = "copyNext"]
  <2>0. PICK E \in SUBSET Promise : E = D \cup ({n} \ {NoPromise})
    BY <1>1
  <2>1. Fresh \in Promise \ heap
    BY <1>7, FreshIsNew DEF ReturnsPromise
  <2>2. PICK s \in Status : /\ heap' = heap \cup {Fresh}
                            /\ result' = [result EXCEPT ![Fresh] = s]
                            /\ owned' = IF s = "pending" THEN owned \cup {Fresh} ELSE owned
    BY <1>7 DEF ReturnsPromise, Allocate
  <2>3. /\ \A u \in Thread : u # t => pc'[u] = pc[u]
        /\ pc'[t] = "copyNext"
        /\ runs'[j] = 1 /\ \A i \in Link : i # j => runs'[i] = runs[i]
    BY <1>1, <1>5, <1>7 DEF ReturnsPromise, Inv, TypeOK
  <2>4. /\ \A q \in heap : q # Fresh /\ q \in Promise /\ result'[q] = result[q]
        /\ \A q \in heap : q \in owned' <=> q \in owned
        /\ \A q \in owned' : result'[q] # "pending" => q \in owned /\ q \in heap
        /\ \A q \in Promise : next[q] # NoPromise => next[q] \in heap
    BY <2>1, <2>2 DEF Inv, TypeOK, HeapClosed
  <2>5. Linking' = Linking
    BY <1>1, <2>3, BuilderIsThread DEF Linking
  <2>6. \A q \in Promise : Alive(E, q)' => Alive(D, q) /\ q # p /\ q # n
    BY <1>2, <1>3, <2>0, ConstantAssumption DEF Alive
  <2>7. n # NoPromise => /\ n \in heap /\ n \notin D /\ n \notin owned /\ result[n] = "pending"
                         /\ Alive(D, n) /\ n # p
    BY <1>1, <1>3, <2>4 DEF Continuations, NextPromises, Alive, Inv, Finality, Calling
  <2>8. Forsaken(E)'
    BY <2>0, <2>2, <2>4, <2>7 DEF Continuations, Forsaken
  <2>9. NextPromises(E)'
    <3>1. \A q \in Promise : next[q] # NoPromise => next[q] \notin owned'
      BY <2>4 DEF Continuations, NextPromises
    <3>2. ASSUME NEW q \in Promise, Alive(E, q)', next[q] # NoPromise
          PROVE  next[q] \notin E /\ result'[next[q]] = "pending"
      <4>1. next[q] # n
        BY <1>1, <1>3, <2>6, <3>2 DEF Continuations, NextPromises
      <4>. QED
        BY <2>0, <2>4, <2>6, <3>2, <4>1 DEF Continuations, NextPromises
    <3>3. \A q, r \in Promise :
            Alive(E, q)' /\ Alive(E, r)' /\ next[q] # NoPromise /\ next[q] = next[r] => q = r
      BY <2>6 DEF Continuations, NextPromises
    <3>. QED
      BY <1>1, <3>1, <3>2, <3>3 DEF NextPromises
  <2>10. Handlers(E)'
    <3>1. \A q \in Promise, i \in Link : Carries(q, i)' = Carries(q, i)
      BY <1>1 DEF Carries
    <3>2. \A i \in Link : Written(i)' = Written(i)
      BY <1>1, <2>5 DEF Written
    <3>. QED
      BY <1>5, <2>3, <2>6, <3>1, <3>2 DEF Continuations, Handlers
  <2>11. Unused'
    BY <1>1, <2>2 DEF Unused
  <2>12. NewLink(E)'
    <3>. SUFFICES ASSUME Linking PROVE NewLink(E)'
      BY <2>5 DEF NewLink
    <3>1. cur[Builder] \in heap /\ tail \in heap
      BY BuilderIsThread DEF Linking, Inv, HeapClosed
    <3>2. cur[Builder] \notin E \cup owned'
      BY <1>1, <2>0, <2>4, <3>1 DEF Continuations, NewLink
    <3>3. \A u \in Thread : pc'[u] # "wait"
      BY <1>4, <2>3
    <3>. QED
      BY <1>1, <2>4, <3>1, <3>2, <3>3 DEF Continuations, NewLink
  <2>13. Calling(E)'
    <3>1. \A u \in Thread : pc'[u] # "wait" /\ pc'[u] # "dispatch"
      BY <1>4, <2>3
    <3>2. \A u \in Thread : pc'[u] \notin {"idle", "linking"} => u \in Workers
      BY <1>1, <2>3 DEF Continuations, Calling
    <3>3. \A q \in owned' : result'[q] # "pending" => called[q] >= 1
      BY <2>4 DEF Continuations, Calling
    <3>. QED
      BY <1>1, <3>1, <3>2, <3>3 DEF Calling
  \* What the new promise is to be given is the continuation of n, whose only
  \* carrier was n.
  <2>14. Handing(E)'
    <3>. SUFFICES ASSUME n # NoPromise
                  PROVE  /\ n \in E
                         /\ \A i \in Link : Carries(n, i)' =>
                              /\ runs'[i] = 0
                              /\ \A q \in Promise : Alive(E, q)' /\ Carries(q, i)' => q = rp'[t]
                         /\ next[n] # NoPromise =>
                              /\ next[n] \notin E
                              /\ result'[next[n]] = "pending"
                              /\ \A q \in Promise : Alive(E, q)' => next[q] # next[n]
      BY <1>1, <1>4, <2>3 DEF Handing, CopiesHandlers, Source
    <3>1. \A i \in Link : Carries(n, i) => i # j /\ runs[i] = 0
                            /\ \A q \in Promise : Alive(E, q)' => ~ Carries(q, i)
      BY <1>1, <1>5, <2>6, <2>7 DEF Continuations, Handlers
    <3>2. \A i \in Link : Carries(n, i)' =>
                              /\ runs'[i] = 0
                              /\ \A q \in Promise : Alive(E, q)' /\ Carries(q, i)' => q = rp'[t]
      BY <1>1, <2>3, <3>1 DEF Carries
    <3>3. ASSUME next[n] # NoPromise
          PROVE  /\ next[n] \notin E
                 /\ result'[next[n]] = "pending"
                 /\ \A q \in Promise : Alive(E, q)' => next[q] # next[n]
      <4>1. n \in Promise
        BY <1>1
      <4>2. next[n] \notin D /\ result[next[n]] = "pending" /\ next[n] # n
        BY <1>1, <1>3, <2>7, <3>3, <4>1 DEF Continuations, NextPromises
      <4>3. \A q \in Promise : Alive(E, q)' => next[q] # next[n]
        BY <2>6, <2>7, <3>3, <4>1 DEF Continuations, NextPromises
      <4>. QED
        BY <2>0, <2>4, <3>3, <4>1, <4>2, <4>3
    <3>. QED
      BY <2>0, <3>2, <3>3
  <2>. QED
    BY <2>8, <2>9, <2>10, <2>11, <2>12, <2>13, <2>14 DEF Continuations
<1>. QED
  BY <1>6, <1>7 DEF RunHandler, Goto

LEMMA CopyNextHands ==
  ASSUME OneWorker, Inv, NEW D \in SUBSET Promise, Unused, Continuations(D), NEW t \in Thread,
         CopyNext(t)
  PROVE  Unused' /\ Continuations(D)'
<1>. DEFINE s == next[cur[t]]
            q == rp[t]
            n == NextOf(s)
<1>1. /\ UNCHANGED <<heap, result, processed, resultHandler, errorHandler,
                     cur, built, tail, owned, called, runs, rp>>
      /\ pc[t] = "copyNext" /\ pc' = [pc EXCEPT ![t] = "copyResultHandler"]
      /\ src' = [src EXCEPT ![t] = s]
      /\ next' = [next EXCEPT ![q] = n]
      /\ q \in heap /\ q \in Promise /\ cur[t] \in Promise
      /\ s \in Promise \cup {NoPromise} /\ n \in Promise \cup {NoPromise}
  BY DEF CopyNext, NextOf, Goto, app, hist, Inv, TypeOK, HeapClosed, Nullable, Copying
<1>2. /\ \A u \in Thread : u # t => pc'[u] = pc[u]
      /\ pc'[t] = "copyResultHandler" /\ src'[t] = s
      /\ next'[q] = n /\ \A p \in Promise : p # q => next'[p] = next[p]
  BY <1>1 DEF Inv, TypeOK
<1>3. \A u \in Thread : u # t => pc[u] \in {"idle", "linking"}
  BY <1>1, ActiveAlone DEF Continuations
<1>4. Linking' = Linking
  BY <1>1, <1>2, BuilderIsThread DEF Linking
<1>5. n # NoPromise =>
        /\ n \notin D /\ n \notin owned /\ result[n] = "pending"
        /\ \A p \in Promise : Alive(D, p) => next[p] # n
        /\ Linking => n # cur[Builder]
  <2>. SUFFICES ASSUME n # NoPromise
                PROVE  /\ n \notin D /\ n \notin owned /\ result[n] = "pending"
                       /\ \A p \in Promise : Alive(D, p) => next[p] # n
                       /\ Linking => n # cur[Builder]
    OBVIOUS
  <2>1. s \in Promise /\ s # NoPromise /\ n = next[s]
    BY <1>1 DEF NextOf
  <2>2. n \notin D /\ result[n] = "pending" /\ \A p \in Promise : Alive(D, p) => next[p] # n
    BY <1>1, <2>1 DEF Continuations, Handing, Source, CopiesHandlers
  <2>3. n \notin owned /\ (Linking => n # cur[Builder])
    BY <2>1 DEF Continuations, NextPromises, NewLink
  <2>. QED
    BY <2>2, <2>3
<1>6. \A p \in Promise : Alive(D, p)' = Alive(D, p)
  BY <1>1 DEF Alive
<1>7. Forsaken(D)' /\ Unused'
  BY <1>1, <1>2 DEF Continuations, Forsaken, Unused
<1>8. NextPromises(D)'
  BY <1>1, <1>2, <1>5, <1>6 DEF Continuations, NextPromises
<1>9. Handlers(D)'
  BY <1>1, <1>4 DEF Continuations, Handlers, Alive, Carries, Written
<1>10. NewLink(D)'
  <2>. SUFFICES ASSUME Linking PROVE NewLink(D)'
    BY <1>4 DEF NewLink
  <2>1. cur[Builder] # NoPromise
    BY BuilderIsThread, ConstantAssumption DEF Linking, Inv, TypeOK
  <2>2. \A p \in Promise : next'[p] # cur[Builder]
    BY <1>2, <1>5, <2>1 DEF Continuations, NewLink
  <2>3. \A u \in Thread : pc'[u] # "wait"
    BY <1>2, <1>3
  <2>. QED
    BY <1>1, <2>2, <2>3 DEF Continuations, NewLink
<1>11. Calling(D)'
  <2>1. \A u \in Thread : pc'[u] # "wait" /\ pc'[u] # "dispatch"
    BY <1>2, <1>3
  <2>2. \A u \in Thread : pc'[u] \notin {"idle", "linking"} => u \in Workers
    BY <1>1, <1>2 DEF Continuations, Calling
  <2>. QED
    BY <1>1, <2>1, <2>2 DEF Continuations, Calling
<1>12. Handing(D)'
  <2>1. s # NoPromise =>
          /\ s \in D
          /\ \A j \in Link : Carries(s, j) =>
               /\ runs[j] = 0
               /\ \A r \in Promise : Alive(D, r) /\ Carries(r, j) => r = rp[t]
    BY <1>1 DEF Continuations, Handing, Source, CopiesHandlers
  <2>. QED
    BY <1>1, <1>2, <1>3, <2>1 DEF Handing, Source, CopiesHandlers, Carries, Alive
<1>. QED
  BY <1>7, <1>8, <1>9, <1>10, <1>11, <1>12 DEF Continuations

LEMMA CopyHandlerHands ==
  ASSUME OneWorker, Inv, NEW D \in SUBSET Promise, Unused, Continuations(D), NEW t \in Thread,
         CopyResultHandler(t) \/ CopyErrorHandler(t)
  PROVE  Unused' /\ Continuations(D)'
<1>. DEFINE s == src[t]
            q == rp[t]
<1>1. /\ UNCHANGED <<heap, result, processed, next, cur, built, tail, owned, called, runs, rp, src>>
      /\ q \in heap /\ q \in Promise /\ s \in Promise \cup {NoPromise}
      /\ \/ /\ pc[t] = "copyResultHandler" /\ pc' = [pc EXCEPT ![t] = "copyErrorHandler"]
            /\ resultHandler' = [resultHandler EXCEPT ![q] = ResultHandlerOf(s)]
            /\ errorHandler' = errorHandler
         \/ /\ pc[t] = "copyErrorHandler" /\ pc' = [pc EXCEPT ![t] = "checkReturned"]
            /\ errorHandler' = [errorHandler EXCEPT ![q] = ErrorHandlerOf(s)]
            /\ resultHandler' = resultHandler
  BY DEF CopyResultHandler, CopyErrorHandler, Goto, locals, app, hist, Inv, TypeOK, HeapClosed,
         Nullable, Copying
<1>2. /\ \A u \in Thread : u # t => pc'[u] = pc[u]
      /\ pc'[t] \in {"copyErrorHandler", "checkReturned"}
      /\ pc[t] \in {"copyResultHandler", "copyErrorHandler"}
      /\ \A p \in Promise : p # q =>
           resultHandler'[p] = resultHandler[p] /\ errorHandler'[p] = errorHandler[p]
  BY <1>1 DEF Inv, TypeOK
<1>3. \A u \in Thread : u # t => pc[u] \in {"idle", "linking"}
  BY <1>2, ActiveAlone DEF Continuations
<1>4. Linking' = Linking
  BY <1>1, <1>2, BuilderIsThread DEF Linking
<1>5. \A p \in Promise : Alive(D, p)' = Alive(D, p)
  BY <1>1 DEF Alive
\* What the new promise carries it had, or the source has it.
<1>6. \A p \in Promise, j \in Link :
        Carries(p, j)' => Carries(p, j) \/ (p = q /\ s # NoPromise /\ Carries(s, j))
  <2>1. \A j \in Link : Carries(q, j)' => Carries(q, j) \/ (s # NoPromise /\ Carries(s, j))
    BY <1>1 DEF Carries, ResultHandlerOf, ErrorHandlerOf, Link, NoLink, Inv, TypeOK
  <2>. QED
    BY <1>1, <1>2, <2>1 DEF Carries
<1>7. s # NoPromise =>
        /\ s \in D
        /\ \A j \in Link : Carries(s, j) =>
             /\ runs[j] = 0 /\ Written(j)
             /\ \A r \in Promise : Alive(D, r) /\ Carries(r, j) => r = q
  BY <1>1, <1>2 DEF Continuations, Handing, Source, CopiesHandlers, Handlers
<1>8. Forsaken(D)' /\ NextPromises(D)' /\ Unused'
  BY <1>1, <1>2, <1>5 DEF Continuations, Forsaken, NextPromises, Unused
<1>9. Handlers(D)'
  <2>1. \A j \in Link : Written(j)' = Written(j)
    BY <1>1, <1>4 DEF Written
  <2>2. \A p, r \in Promise, j \in Link :
          Alive(D, p) /\ Alive(D, r) /\ Carries(p, j)' /\ Carries(r, j)' => p = r
    BY <1>6, <1>7 DEF Continuations, Handlers
  <2>3. \A p \in Promise, j \in Link :
          Carries(p, j)' => Written(j) /\ (Alive(D, p) => runs[j] = 0)
    BY <1>6, <1>7 DEF Continuations, Handlers
  <2>. QED
    BY <1>1, <1>5, <2>1, <2>2, <2>3 DEF Continuations, Handlers
<1>10. NewLink(D)'
  BY <1>1, <1>2, <1>4 DEF Continuations, NewLink
<1>11. Calling(D)'
  <2>1. \A u \in Thread : pc'[u] # "wait" /\ pc'[u] # "dispatch"
    BY <1>2, <1>3
  <2>2. \A u \in Thread : pc'[u] \notin {"idle", "linking"} => u \in Workers
    BY <1>2 DEF Continuations, Calling
  <2>. QED
    BY <1>1, <2>1, <2>2 DEF Continuations, Calling
<1>12. Handing(D)'
  <2>. SUFFICES ASSUME s # NoPromise
                PROVE  \A j \in Link : Carries(s, j)' =>
                         /\ runs[j] = 0
                         /\ \A r \in Promise : Alive(D, r) /\ Carries(r, j)' => r = q
    BY <1>1, <1>2, <1>3, <1>5, <1>7 DEF Handing, Source, CopiesHandlers
  <2>1. s \in Promise
    BY <1>1
  <2>2. \A j \in Link : Carries(s, j)' => Carries(s, j)
    BY <1>1, <1>6, <2>1 DEF Carries
  <2>. QED
    BY <1>6, <1>7, <2>2
<1>. QED
  BY <1>8, <1>9, <1>10, <1>11, <1>12 DEF Continuations

-----------------------------------------------------------------------------
\* The steps of onThen and onError.
LEMMA NewObjectHands ==
  ASSUME Inv, NEW D \in SUBSET Promise, Unused, Continuations(D), AtLink,
         NEW s \in Status, Allocate(Fresh, s),
         UNCHANGED <<processed, next, resultHandler, errorHandler, pc, locals, called>>,
         owned' = owned \/ (s = "pending" /\ owned' = owned \cup {Fresh}),
         tail' = Fresh, built' = built + 1,
         \A j \in Link : runs'[j] \in {runs[j], IF j = built + 1 THEN runs[j] + 1 ELSE runs[j]}
  PROVE  Unused' /\ Continuations(D)'
<1>1. /\ heap' = heap \cup {Fresh} /\ result' = [result EXCEPT ![Fresh] = s]
      /\ Fresh \in Promise \ heap /\ pc[Builder] = "idle" /\ built \in Nat
      /\ UNCHANGED <<processed, next, resultHandler, errorHandler, pc, called, cur, arg, rp, src>>
      /\ \A j \in Link : j \in Nat /\ runs[j] \in Nat
  BY FreshIsNew DEF Allocate, AtLink, locals, Inv, TypeOK, Link
<1>2. /\ \A p \in heap : p # Fresh /\ p \in Promise /\ result'[p] = result[p]
      /\ \A p \in heap : p \in owned' <=> p \in owned
      /\ \A p \in owned' : result'[p] # "pending" => p \in owned /\ p \in heap
      /\ \A p \in Promise : next[p] # NoPromise => next[p] \in heap
      /\ \A t \in Thread : pc[t] \notin {"idle", "return"} => cur[t] \in heap
      /\ D \subseteq heap
  BY <1>1 DEF Inv, TypeOK, HeapClosed, Continuations, Forsaken
<1>3. ~ Linking /\ ~ Linking'
  BY <1>1 DEF Linking
<1>4. \A j \in Link : Written(j) => Written(j)' /\ j # built + 1
  BY <1>1, <1>3 DEF Written
<1>5. \A j \in Link : (j = built + 1) => Written(j)'
  BY <1>1 DEF Written
<1>6. /\ \A p \in Promise : Alive(D, p)' = Alive(D, p)
      /\ \A p \in Promise, j \in Link : Carries(p, j)' = Carries(p, j)
  BY DEF Alive, Carries
<1>7. Forsaken(D)' /\ Unused'
  BY <1>1, <1>2 DEF Continuations, Forsaken, Unused
<1>8. NextPromises(D)'
  <2>1. \A p \in Promise : next[p] # NoPromise => next[p] \notin owned'
    BY <1>2 DEF Continuations, NextPromises
  <2>2. \A p \in Promise : Alive(D, p) /\ next[p] # NoPromise =>
          next[p] \notin D /\ result'[next[p]] = "pending"
    BY <1>2 DEF Continuations, NextPromises
  <2>. QED
    BY <1>1, <1>6, <2>1, <2>2 DEF Continuations, NextPromises
<1>9. Handlers(D)'
  <2>1. \A j \in Link : ~ Written(j) => runs[j] = 0 /\ \A p \in Promise : ~ Carries(p, j)
    BY <1>1 DEF Continuations, Handlers
  <2>2. \A j \in Link : Written(j) => runs'[j] = runs[j]
    BY <1>4
  <2>3. \A j \in Link : runs'[j] <= 1 /\ (runs'[j] > 0 => Written(j)')
    BY <1>1, <1>4, <1>5, <2>1 DEF Continuations, Handlers
  <2>. QED
    BY <1>4, <1>6, <2>2, <2>3 DEF Continuations, Handlers
<1>10. NewLink(D)'
  BY <1>3 DEF NewLink
<1>11. Calling(D)'
  <2>1. \A p \in owned' : result'[p] # "pending" => called[p] >= 1
    BY <1>2 DEF Continuations, Calling
  <2>2. ASSUME NEW t \in Thread, pc[t] = "wait"
        PROVE  /\ cur[t] \notin D
               /\ cur[t] \in owned' =>
                    called[cur[t]] >= 1 /\ (result'[cur[t]] # "pending" => called[cur[t]] >= 2)
               /\ cur[t] \notin owned' =>
                    result'[cur[t]] = "pending" /\ \A p \in Promise : Alive(D, p) => next[p] # cur[t]
    BY <1>2, <2>2 DEF Continuations, Calling
  <2>3. /\ \A t \in Thread : pc[t] \notin {"idle", "linking"} => t \in Workers
        /\ \A t \in Thread : pc[t] = "dispatch" => ~ processed[cur[t]]
    BY DEF Continuations, Calling
  <2>. QED
    BY <1>1, <1>6, <2>1, <2>2, <2>3 DEF Calling
<1>12. Handing(D)'
  <2>0. \A t \in Thread : Source(t)' = Source(t)
    BY <1>1 DEF Source
  <2>. SUFFICES ASSUME NEW t \in Thread, pc[t] \in CopiesHandlers, Source(t) # NoPromise
                PROVE  /\ Source(t) \in D
                       /\ \A j \in Link : Carries(Source(t), j) =>
                            /\ runs'[j] = 0
                            /\ \A q \in Promise : Alive(D, q) /\ Carries(q, j) => q = rp[t]
                       /\ pc[t] = "copyNext" /\ next[Source(t)] # NoPromise =>
                            /\ next[Source(t)] \notin D
                            /\ result'[next[Source(t)]] = "pending"
                            /\ \A p \in Promise : Alive(D, p) => next[p] # next[Source(t)]
    BY <1>1, <1>6, <2>0 DEF Handing, Carries
  <2>1. Source(t) \in D /\ Source(t) \in Promise
    BY DEF Continuations, Handing
  <2>2. \A j \in Link : Carries(Source(t), j) => runs'[j] = runs[j]
    BY <1>4, <2>1 DEF Continuations, Handlers
  <2>. QED
    BY <1>2, <2>1, <2>2 DEF Continuations, Handing
<1>. QED
  BY <1>7, <1>8, <1>9, <1>10, <1>11, <1>12 DEF Continuations

LEMMA LinkSettledHands ==
  ASSUME Inv, NEW D \in SUBSET Promise, Unused, Continuations(D),
         LinkRunsNow \/ LinkPassedOver
  PROVE  Unused' /\ Continuations(D)'
<1>1. CASE LinkRunsNow
  <2>1. /\ AtLink /\ tail' = Fresh /\ built' = built + 1
        /\ UNCHANGED <<processed, next, resultHandler, errorHandler, pc, locals, called>>
        /\ runs' = [runs EXCEPT ![built + 1] = @ + 1]
    BY <1>1 DEF LinkRunsNow, ReturnsNil, ReturnsPromise
  <2>2. \E s \in Status : Allocate(Fresh, s) /\
          (owned' = owned \/ (s = "pending" /\ owned' = owned \cup {Fresh}))
    BY <1>1 DEF LinkRunsNow, ReturnsNil, ReturnsPromise, Status
  <2>3. \A j \in Link : runs'[j] \in {runs[j], IF j = built + 1 THEN runs[j] + 1 ELSE runs[j]}
    BY <2>1 DEF Inv, TypeOK
  <2>. QED
    BY <2>1, <2>2, <2>3, NewObjectHands
<1>2. CASE LinkPassedOver
  <2>1. /\ AtLink /\ tail' = Fresh /\ built' = built + 1 /\ owned' = owned /\ runs' = runs
        /\ UNCHANGED <<processed, next, resultHandler, errorHandler, pc, locals, called>>
        /\ Allocate(Fresh, "error") \/ Allocate(Fresh, "pending")
    BY <1>2 DEF LinkPassedOver, hist
  <2>2. {"pending", "error"} \subseteq Status
    BY DEF Status, Settled
  <2>. QED
    BY <2>1, <2>2, NewObjectHands
<1>. QED
  BY <1>1, <1>2

LEMMA LinkStoresHandlerHands ==
  ASSUME Inv, NEW D \in SUBSET Promise, Unused, Continuations(D), LinkStoresHandler
  PROVE  Unused' /\ Continuations(D)'
<1>. DEFINE k == built + 1
<1>1. /\ UNCHANGED <<processed, next, rp, src, built, tail, owned, called, runs>>
      /\ resultHandler' = [resultHandler EXCEPT ![tail] = IF kind[k] = "then" THEN k ELSE NoLink]
      /\ errorHandler' = [errorHandler EXCEPT ![tail] = IF kind[k] = "error" THEN k ELSE NoLink]
      /\ heap' = heap \cup {Fresh} /\ result' = [result EXCEPT ![Fresh] = "pending"]
      /\ cur' = [cur EXCEPT ![Builder] = Fresh]
      /\ pc' = [pc EXCEPT ![Builder] = "linking"]
      /\ pc[Builder] = "idle" /\ result[tail] = "pending" /\ k \in Link /\ built \in Nat
      /\ tail \in heap /\ tail \in Promise
      /\ Fresh \in Promise \ heap
  <2>1. /\ AtLink /\ ~ IsFulfilled(tail) /\ Allocate(Fresh, "pending")
        /\ UNCHANGED <<processed, next, rp, src, built, tail, owned, called, runs>>
        /\ resultHandler' = [resultHandler EXCEPT ![tail] = IF kind[k] = "then" THEN k ELSE NoLink]
        /\ errorHandler' = [errorHandler EXCEPT ![tail] = IF kind[k] = "error" THEN k ELSE NoLink]
        /\ cur' = [cur EXCEPT ![Builder] = Fresh]
        /\ pc' = [pc EXCEPT ![Builder] = "linking"]
    BY DEF LinkStoresHandler, Goto, hist
  <2>2. k \in Link /\ built \in Nat /\ tail \in heap /\ tail \in Promise
    BY <2>1, ConstantAssumption DEF AtLink, Inv, TypeOK, HeapClosed, Link
  <2>3. Fresh \in Promise \ heap
    BY <2>1, FreshIsNew DEF AtLink
  <2>. QED
    BY <2>1, <2>2, <2>3 DEF AtLink, IsFulfilled, Allocate
<1>2. /\ \A p \in heap : p # Fresh /\ p \in Promise /\ result'[p] = result[p]
      /\ \A p \in Promise : next[p] # NoPromise => next[p] \in heap
      /\ owned \subseteq heap /\ D \subseteq heap
      /\ result'[Fresh] = "pending" /\ result'[tail] = "pending"
      /\ \A p \in Promise : p # tail =>
           resultHandler'[p] = resultHandler[p] /\ errorHandler'[p] = errorHandler[p]
  BY <1>1 DEF Inv, TypeOK, HeapClosed, Continuations, Forsaken
<1>3. /\ \A t \in Thread : t # Builder => pc'[t] = pc[t] /\ cur'[t] = cur[t]
      /\ pc'[Builder] = "linking" /\ cur'[Builder] = Fresh
      /\ \A t \in Thread : pc[t] \notin {"idle", "return"} => cur[t] \in heap
      /\ ~ Linking /\ Linking'
  BY <1>1, BuilderIsThread DEF Linking, Inv, TypeOK, HeapClosed
<1>4. \A j \in Link : j \in Nat /\ (Written(j)' <=> Written(j) \/ j = k) /\ (Written(j) => j # k)
  BY <1>1, <1>3 DEF Written, Link
<1>5. \A p \in Promise : Alive(D, p)' = Alive(D, p)
  BY <1>1 DEF Alive
<1>6. \A p \in Promise, j \in Link : Carries(p, j)' => Carries(p, j) \/ (p = tail /\ j = k)
  <2>1. \A j \in Link : Carries(tail, j)' => j = k
    BY <1>1 DEF Carries, Link, NoLink, Inv, TypeOK
  <2>. QED
    BY <1>1, <1>2, <2>1 DEF Carries
<1>7. Forsaken(D)' /\ Unused'
  BY <1>1, <1>2 DEF Continuations, Forsaken, Unused
<1>8. NextPromises(D)'
  BY <1>1, <1>2, <1>5 DEF Continuations, NextPromises
<1>9. /\ runs[k] = 0 /\ \A p \in Promise : ~ Carries(p, k)
      /\ \A p \in Promise, j \in Link : Carries(p, j) => Written(j)
  <2>1. runs[k] \in Nat /\ ~ Written(k)
    BY <1>1, <1>4 DEF Inv, TypeOK
  <2>. QED
    BY <1>1, <2>1 DEF Continuations, Handlers
<1>10. Handlers(D)'
  <2>1. \A p, q \in Promise, j \in Link :
          Alive(D, p) /\ Alive(D, q) /\ Carries(p, j)' /\ Carries(q, j)' => p = q
    BY <1>6, <1>9 DEF Continuations, Handlers
  <2>2. \A p \in Promise, j \in Link : Alive(D, p) /\ Carries(p, j)' => runs[j] = 0
    BY <1>6, <1>9 DEF Continuations, Handlers
  <2>3. \A p \in Promise, j \in Link : Carries(p, j)' => Written(j)'
    BY <1>4, <1>6, <1>9
  <2>4. \A j \in Link : runs[j] <= 1 /\ (runs[j] > 0 => Written(j)')
    BY <1>4 DEF Continuations, Handlers
  <2>. QED
    BY <1>1, <1>5, <2>1, <2>2, <2>3, <2>4 DEF Handlers
<1>11. NewLink(D)'
  <2>1. \A p \in Promise : next[p] # Fresh
    BY <1>1, <1>2, ConstantAssumption
  <2>2. \A t \in Thread : pc'[t] = "wait" => cur'[t] # Fresh
    BY <1>2, <1>3
  <2>. QED
    BY <1>1, <1>2, <1>3, <2>1, <2>2 DEF NewLink
<1>12. Calling(D)'
  <2>1. \A t \in Thread : pc'[t] \notin {"idle", "linking"} => t \in Workers
    BY <1>3 DEF Continuations, Calling
  <2>2. \A p \in owned : result'[p] # "pending" => called[p] >= 1
    BY <1>2 DEF Continuations, Calling
  <2>3. ASSUME NEW t \in Thread, pc'[t] = "wait"
        PROVE  /\ cur'[t] \notin D
               /\ cur'[t] \in owned =>
                    called[cur'[t]] >= 1 /\ (result'[cur'[t]] # "pending" => called[cur'[t]] >= 2)
               /\ cur'[t] \notin owned =>
                    result'[cur'[t]] = "pending" /\ \A p \in Promise : Alive(D, p) => next[p] # cur'[t]
    <3>1. pc[t] = "wait" /\ cur'[t] = cur[t] /\ cur[t] \in heap
      BY <1>3, <2>3
    <3>. QED
      BY <1>2, <3>1 DEF Continuations, Calling
  <2>4. \A t \in Thread : pc'[t] = "dispatch" => ~ processed[cur'[t]]
    BY <1>3 DEF Continuations, Calling
  <2>. QED
    BY <1>1, <1>5, <2>1, <2>2, <2>3, <2>4 DEF Calling
<1>13. Handing(D)'
  <2>0. \A t \in Thread : pc'[t] \in CopiesHandlers => pc'[t] = pc[t] /\ Source(t)' = Source(t)
    BY <1>1, <1>3 DEF Source, CopiesHandlers
  <2>. SUFFICES ASSUME NEW t \in Thread, pc[t] \in CopiesHandlers,
                       NEW s, s = Source(t), s # NoPromise
                PROVE  /\ s \in D
                       /\ \A j \in Link : Carries(s, j)' =>
                            /\ runs[j] = 0
                            /\ \A q \in Promise : Alive(D, q) /\ Carries(q, j)' => q = rp[t]
                       /\ pc[t] = "copyNext" /\ next[s] # NoPromise =>
                            /\ next[s] \notin D
                            /\ result'[next[s]] = "pending"
                            /\ \A p \in Promise : Alive(D, p) => next[p] # next[s]
    BY <1>1, <1>5, <2>0 DEF Handing, Carries
  <2>1. s \in D /\ s \in Promise
    BY DEF Continuations, Handing
  <2>2. ASSUME NEW j \in Link, Carries(s, j)'
        PROVE  /\ runs[j] = 0
               /\ \A q \in Promise : Alive(D, q) /\ Carries(q, j)' => q = rp[t]
    <3>1. Carries(s, j) \/ (s = tail /\ j = k)
      BY <1>6, <2>1, <2>2
    <3>2. CASE Carries(s, j)
      <4>1. j # k
        BY <1>9, <2>1, <3>2
      <4>. QED
        BY <1>6, <3>2, <4>1 DEF Continuations, Handing
    <3>3. CASE s = tail /\ j = k
      <4>1. ~ Alive(D, tail)
        BY <2>1, <3>3 DEF Alive
      <4>. QED
        BY <1>6, <1>9, <3>3, <4>1
    <3>. QED
      BY <3>1, <3>2, <3>3
  <2>3. pc[t] = "copyNext" /\ next[s] # NoPromise =>
          /\ next[s] \notin D
          /\ result'[next[s]] = "pending"
          /\ \A p \in Promise : Alive(D, p) => next[p] # next[s]
    BY <1>2, <2>1 DEF Continuations, Handing
  <2>. QED
    BY <2>1, <2>2, <2>3
<1>. QED
  BY <1>7, <1>8, <1>10, <1>11, <1>12, <1>13 DEF Continuations

LEMMA LinkStoresNextHands ==
  ASSUME Inv, NEW D \in SUBSET Promise, Unused, Continuations(D), LinkStoresNext
  PROVE  Unused' /\ Continuations(D)'
<1>. DEFINE n == cur[Builder]
<1>1. /\ UNCHANGED <<heap, result, processed, resultHandler, errorHandler, cur, arg, rp, src,
                     owned, called, runs>>
      /\ pc[Builder] = "linking" /\ pc' = [pc EXCEPT ![Builder] = "idle"]
      /\ next' = [next EXCEPT ![tail] = n]
      /\ built' = built + 1 /\ built \in Nat
      /\ tail \in heap /\ tail \in Promise /\ n \in heap /\ n \in Promise
  <2>1. /\ UNCHANGED <<heap, result, processed, resultHandler, errorHandler, cur, arg, rp, src,
                       owned, called, runs>>
        /\ pc[Builder] = "linking" /\ pc' = [pc EXCEPT ![Builder] = "idle"]
        /\ next' = [next EXCEPT ![tail] = n]
        /\ built' = built + 1
    BY DEF LinkStoresNext, Goto, locals, hist
  <2>2. built \in Nat /\ tail \in heap /\ tail \in Promise /\ n \in heap /\ n \in Promise
    BY <2>1, BuilderIsThread DEF Inv, TypeOK, HeapClosed
  <2>. QED
    BY <2>1, <2>2
<1>2. /\ \A t \in Thread : t # Builder => pc'[t] = pc[t]
      /\ pc'[Builder] = "idle" /\ Linking /\ ~ Linking'
      /\ next'[tail] = n /\ \A p \in Promise : p # tail => next'[p] = next[p]
  BY <1>1, BuilderIsThread DEF Linking, Inv, TypeOK
<1>3. /\ n \notin D /\ n \notin owned /\ result[n] = "pending" /\ result[tail] = "pending"
      /\ \A p \in Promise : next[p] # n
      /\ \A t \in Thread : pc[t] = "wait" => cur[t] # n
  BY <1>2 DEF Continuations, NewLink
<1>4. \A j \in Link : Written(j)' <=> Written(j)
  BY <1>1, <1>2 DEF Written, Link
<1>5. /\ \A p \in Promise : Alive(D, p)' = Alive(D, p)
      /\ \A p \in Promise, j \in Link : Carries(p, j)' = Carries(p, j)
  BY <1>1 DEF Alive, Carries
<1>6. Forsaken(D)' /\ Unused'
  BY <1>1, <1>2 DEF Continuations, Forsaken, Unused
<1>7. NextPromises(D)'
  <2>1. /\ \A p \in Promise : next[p] # NoPromise => next[p] \notin owned
        /\ \A p \in Promise : Alive(D, p) /\ next[p] # NoPromise =>
             next[p] \notin D /\ result[next[p]] = "pending"
        /\ \A p, q \in Promise :
             Alive(D, p) /\ Alive(D, q) /\ next[p] # NoPromise /\ next[p] = next[q] => p = q
    BY DEF Continuations, NextPromises
  <2>2. \A p \in Promise : next'[p] = IF p = tail THEN n ELSE next[p]
    BY <1>2
  <2>3. \A p \in Promise : next'[p] # NoPromise => next'[p] \notin owned
    BY <1>3, <2>1, <2>2
  <2>4. \A p \in Promise : Alive(D, p) /\ next'[p] # NoPromise =>
          next'[p] \notin D /\ result[next'[p]] = "pending"
    BY <1>3, <2>1, <2>2
  <2>5. \A p, q \in Promise :
          Alive(D, p) /\ Alive(D, q) /\ next'[p] # NoPromise /\ next'[p] = next'[q] => p = q
    BY <1>3, <2>1, <2>2
  <2>. QED
    BY <1>1, <1>5, <2>3, <2>4, <2>5 DEF NextPromises
<1>8. Handlers(D)'
  BY <1>1, <1>4, <1>5 DEF Continuations, Handlers
<1>9. NewLink(D)'
  BY <1>2 DEF NewLink
<1>10. Calling(D)'
  <2>1. \A t \in Thread : pc'[t] \notin {"idle", "linking"} => t \in Workers /\ pc'[t] = pc[t]
    BY <1>2 DEF Continuations, Calling
  <2>2. \A t \in Thread : pc'[t] = "wait" => \A p \in Promise : next[p] # cur[t] => next'[p] # cur[t]
    BY <1>2, <1>3, <2>1
  <2>3. /\ \A p \in owned : result[p] # "pending" => called[p] >= 1
        /\ \A t \in Thread : pc[t] = "wait" =>
             /\ cur[t] \notin D
             /\ cur[t] \in owned =>
                  called[cur[t]] >= 1 /\ (result[cur[t]] # "pending" => called[cur[t]] >= 2)
             /\ cur[t] \notin owned =>
                  result[cur[t]] = "pending" /\ \A p \in Promise : Alive(D, p) => next[p] # cur[t]
        /\ \A t \in Thread : pc[t] = "dispatch" => ~ processed[cur[t]]
    BY DEF Continuations, Calling
  <2>. QED
    BY <1>1, <1>5, <2>1, <2>2, <2>3 DEF Calling
<1>11. Handing(D)'
  \* The promise whose handler ran has settled, so that no link is written on it.
  <2>0. \A t \in Thread : pc'[t] \in CopiesHandlers => pc'[t] = pc[t] /\ Source(t)' = Source(t)
    <3>. SUFFICES ASSUME NEW t \in Thread, pc'[t] \in CopiesHandlers
                  PROVE  pc'[t] = pc[t] /\ Source(t)' = Source(t)
      OBVIOUS
    <3>1. pc'[t] = pc[t]
      BY <1>2 DEF CopiesHandlers
    <3>2. cur[t] # tail /\ cur[t] \in Promise
      BY <1>3, <3>1 DEF CopiesHandlers, Copying, Inv, TypeOK, Finality
    <3>. QED
      BY <1>1, <1>2, <3>1, <3>2 DEF Source
  <2>. SUFFICES ASSUME NEW t \in Thread, pc[t] \in CopiesHandlers,
                       NEW s, s = Source(t), s # NoPromise
                PROVE  /\ s \in D
                       /\ \A j \in Link : Carries(s, j) =>
                            /\ runs[j] = 0
                            /\ \A q \in Promise : Alive(D, q) /\ Carries(q, j) => q = rp[t]
                       /\ pc[t] = "copyNext" /\ next'[s] # NoPromise =>
                            /\ next'[s] \notin D
                            /\ result[next'[s]] = "pending"
                            /\ \A p \in Promise : Alive(D, p) => next'[p] # next'[s]
    BY <1>1, <1>5, <2>0 DEF Handing, Carries
  <2>1. /\ s \in D /\ s \in Promise /\ ~ Alive(D, s)
        /\ \A j \in Link : Carries(s, j) =>
             /\ runs[j] = 0
             /\ \A q \in Promise : Alive(D, q) /\ Carries(q, j) => q = rp[t]
        /\ pc[t] = "copyNext" /\ next[s] # NoPromise =>
             /\ next[s] \notin D
             /\ result[next[s]] = "pending"
             /\ \A p \in Promise : Alive(D, p) => next[p] # next[s]
    BY DEF Continuations, Handing, Alive
  <2>2. pc[t] = "copyNext" /\ next'[s] # NoPromise =>
             /\ next'[s] \notin D
             /\ result[next'[s]] = "pending"
             /\ \A p \in Promise : Alive(D, p) => next'[p] # next'[s]
    <3>1. CASE s = tail
      BY <1>2, <1>3, <2>1, <3>1
    <3>2. CASE s # tail
      BY <1>2, <1>3, <2>1, <3>2
    <3>. QED
      BY <3>1, <3>2
  <2>. QED
    BY <2>1, <2>2
<1>. QED
  BY <1>6, <1>7, <1>8, <1>9, <1>10, <1>11 DEF Continuations

LEMMA InitHands == Init => Unused /\ Continuations({})
<1>. SUFFICES ASSUME Init PROVE Unused /\ Continuations({})
  OBVIOUS
<1>1. \A p \in Promise, j \in Link : ~ Carries(p, j)
  BY DEF Init, Carries, Link, NoLink
<1>2. Unused /\ Forsaken({}) /\ NextPromises({})
  BY DEF Init, Unused, Forsaken, NextPromises
<1>3. Handlers({})
  BY <1>1 DEF Init, Handlers
<1>4. NewLink({}) /\ Handing({})
  BY BuilderIsThread DEF Init, NewLink, Linking, Handing, CopiesHandlers
<1>5. Calling({})
  BY ConstantAssumption DEF Init, Calling
<1>. QED
  BY <1>2, <1>3, <1>4, <1>5 DEF Continuations

-----------------------------------------------------------------------------
\* A semaphore stays accounted for: it is free, held by a call, or of a promise
\* fulfilled twice.
LEMMA LeakKept ==
  ASSUME Inv, LeakOnlyByRefulfil,
         \A p \in Promise : called'[p] \in Nat /\ called'[p] >= called[p],
         \A p \in Promise : sem'[p] = 0 =>
           \/ sem[p] = 0 /\ \A t \in Thread : p \in Holds(t) => p \in Holds(t)'
           \/ \E t \in Thread : p \in Holds(t)'
           \/ Refulfilled(p)'
  PROVE  LeakOnlyByRefulfil'
<1>. SUFFICES ASSUME NEW p \in Promise, sem'[p] = 0, \A t \in Thread : p \notin Holds(t)'
              PROVE  Refulfilled(p)'
  BY DEF LeakOnlyByRefulfil, Leaked
<1>1. Refulfilled(p) => Refulfilled(p)'
  BY DEF Refulfilled, Inv, TypeOK
<1>. QED
  BY <1>1 DEF LeakOnlyByRefulfil, Leaked

LEMMA WorkLeaksNothing ==
  ASSUME Inv, LeakOnlyByRefulfil, NEW D \in SUBSET Promise, Continuations(D),
         NEW t \in Thread, Work(t)
  PROVE  LeakOnlyByRefulfil'
<1>1. \A p \in Promise : called'[p] \in Nat /\ called'[p] >= called[p]
  <2>1. called' = called
    BY DEF Work, Fulfil, FulfilAgain, CheckNext, Signal, Return, CheckProcessed, RunHandler,
           PassErrorOn, NothingToRun, CopyNext, CopyResultHandler, CopyErrorHandler,
           CheckReturned, app
  <2>. QED
    BY <2>1, ConstantAssumption DEF Inv, TypeOK
<1>2. \A u \in Thread : stack[u] \in Seq(Promise)
  BY DEF Inv, TypeOK
<1>3. pc[t] # "linking" /\ tail' = tail /\ pc'[t] # "linking"
        /\ \A u \in Thread : u # t => pc'[u] = pc[u]
  BY DEF Work, Fulfil, FulfilAgain, CheckNext, Signal, Return, CheckProcessed, RunHandler,
         PassErrorOn, NothingToRun, CopyNext, CopyResultHandler, CopyErrorHandler,
         CheckReturned, app, Goto, Inv, TypeOK
<1>4. CASE Fulfil(t)
  <2>1. /\ cur[t] \in Promise /\ sem' = [sem EXCEPT ![cur[t]] = 0]
        /\ stack' = [stack EXCEPT ![t] = Append(@, cur[t])]
    BY <1>4 DEF Fulfil, Inv, TypeOK
  <2>2. /\ Len(stack'[t]) = Len(stack[t]) + 1 /\ stack'[t][Len(stack[t]) + 1] = cur[t]
        /\ \A i \in 1 .. Len(stack[t]) : stack'[t][i] = stack[t][i]
        /\ \A u \in Thread : u # t => stack'[u] = stack[u]
        /\ Len(stack[t]) \in Nat
    BY <1>2, <2>1 DEF Inv, TypeOK
  <2>3. Len(stack[t]) + 1 \in 1 .. Len(stack'[t]) /\
          \A i \in 1 .. Len(stack[t]) : i \in 1 .. Len(stack'[t])
    BY <2>2
  <2>4. cur[t] \in Holds(t)'
    BY <2>2, <2>3 DEF Holds
  <2>5. \A u \in Thread : \A p \in Holds(u) : p \in Holds(u)'
    BY <1>3, <2>2, <2>3 DEF Holds
  <2>6. \A p \in Promise : p # cur[t] => sem'[p] = sem[p]
    BY <2>1 DEF Inv, TypeOK
  <2>. QED
    BY <1>1, <2>4, <2>5, <2>6, LeakKept
\* The early return is the one step that loses a semaphore, and only the
\* application calls a promise that has settled.
<1>5. CASE FulfilAgain(t)
  <2>1. /\ cur[t] \in Promise /\ sem' = [sem EXCEPT ![cur[t]] = 0] /\ UNCHANGED <<stack, called>>
        /\ pc[t] = "wait" /\ result[cur[t]] # "pending"
    BY <1>5 DEF FulfilAgain, IsFulfilled, app, Inv, TypeOK
  <2>2. Refulfilled(cur[t])
    BY <2>1, ConstantAssumption DEF Continuations, Calling, Refulfilled, Inv, TypeOK
  <2>3. Refulfilled(cur[t]) => \A p \in Promise : p = cur[t] => Refulfilled(p)'
    BY <2>1 DEF Refulfilled
  <2>4. \A u \in Thread : \A p \in Holds(u) : p \in Holds(u)'
    BY <1>3, <2>1 DEF Holds
  <2>5. \A p \in Promise : p # cur[t] => sem'[p] = sem[p]
    BY <2>1 DEF Inv, TypeOK
  <2>. QED
    BY <1>1, <2>2, <2>3, <2>4, <2>5, LeakKept
<1>6. CASE Signal(t)
  <2>. DEFINE n == Len(stack[t])
  <2>1. /\ stack[t] # << >> /\ sem' = [sem EXCEPT ![stack[t][n]] = 1]
        /\ stack' = [stack EXCEPT ![t] = SubSeq(@, 1, Len(@) - 1)]
    BY <1>6 DEF Signal, Signalled
  <2>2. n \in Nat /\ n >= 1 /\ stack[t][n] \in Promise
    BY <1>2, <2>1
  <2>3. /\ Len(SubSeq(stack[t], 1, n - 1)) = n - 1
        /\ \A i \in 1 .. n - 1 : SubSeq(stack[t], 1, n - 1)[i] = stack[t][i]
    BY <1>2, <2>2
  <2>4. /\ stack'[t] = SubSeq(stack[t], 1, n - 1)
        /\ \A u \in Thread : u # t => stack'[u] = stack[u]
    BY <2>1 DEF Inv, TypeOK
  <2>5. \A p \in Promise : sem'[p] = IF p = stack[t][n] THEN 1 ELSE sem[p]
    BY <2>1 DEF Inv, TypeOK
  <2>6. \A i \in 1 .. n : i = n \/ i \in 1 .. n - 1
    BY <2>2
  <2>7. \A u \in Thread : \A i \in 1 .. Len(stack[u]) : stack[u][i] # stack[t][n] =>
          i \in 1 .. Len(stack'[u]) /\ stack'[u][i] = stack[u][i]
    BY <2>3, <2>4, <2>6
  <2>8. ASSUME NEW u \in Thread, NEW p \in Holds(u), p # stack[t][n] PROVE p \in Holds(u)'
    <3>1. CASE u = Builder /\ pc[u] = "linking" /\ p = tail
      BY <1>3, <3>1 DEF Holds
    <3>2. CASE \E i \in 1 .. Len(stack[u]) : p = stack[u][i]
      BY <2>7, <2>8, <3>2 DEF Holds
    <3>. QED
      BY <2>8, <3>1, <3>2 DEF Holds
  <2>. QED
    BY <1>1, <2>5, <2>8, LeakKept
<1>7. CASE UNCHANGED <<sem, stack>>
  <2>1. \A u \in Thread : \A p \in Holds(u) : p \in Holds(u)'
    BY <1>3, <1>7 DEF Holds
  <2>. QED
    BY <1>1, <1>7, <2>1, LeakKept
<1>. QED
  BY <1>4, <1>5, <1>6, <1>7
  DEF Work, CheckNext, Return, CheckProcessed, RunHandler, PassErrorOn, NothingToRun, CopyNext,
      CopyResultHandler, CopyErrorHandler, CheckReturned, fields

LEMMA OthersLeakNothing ==
  ASSUME Inv, LeakOnlyByRefulfil, Write \/ \E t \in Thread : StartFulfil(t)
  PROVE  LeakOnlyByRefulfil'
<1>1. ASSUME NEW t \in Thread, StartFulfil(t) PROVE LeakOnlyByRefulfil'
  <2>1. /\ UNCHANGED <<sem, stack, tail>> /\ pc[t] = "idle" /\ pc' = [pc EXCEPT ![t] = "wait"]
        /\ \E p \in owned : called' = [called EXCEPT ![p] = @ + 1]
    BY <1>1 DEF StartFulfil, BetweenTurns, Goto, fields
  <2>2. \A p \in Promise : called'[p] \in Nat /\ called'[p] >= called[p]
    BY <2>1, ConstantAssumption DEF Inv, TypeOK
  <2>3. \A u \in Thread : \A p \in Holds(u) : p \in Holds(u)'
    BY <2>1 DEF Holds, Inv, TypeOK
  <2>. QED
    BY <2>1, <2>2, <2>3, LeakKept
<1>2. ASSUME Write PROVE \A p \in Promise : called'[p] \in Nat /\ called'[p] >= called[p]
  <2>1. called' = called
    BY <1>2 DEF Write, LinkRunsNow, LinkPassedOver, LinkStoresHandler, LinkStoresNext
  <2>. QED
    BY <2>1, ConstantAssumption DEF Inv, TypeOK
<1>3. CASE LinkRunsNow \/ LinkPassedOver
  <2>1. UNCHANGED <<sem, stack, pc>> /\ pc[Builder] = "idle"
    BY <1>3 DEF LinkRunsNow, LinkPassedOver, AtLink
  <2>2. \A u \in Thread : \A p \in Holds(u) : p \in Holds(u)'
    BY <2>1 DEF Holds
  <2>. QED
    BY <1>2, <1>3, <2>1, <2>2, LeakKept DEF Write
<1>4. CASE LinkStoresHandler
  <2>1. /\ UNCHANGED <<stack, tail>> /\ pc[Builder] = "idle" /\ tail \in Promise
        /\ pc' = [pc EXCEPT ![Builder] = "linking"] /\ sem' = [sem EXCEPT ![tail] = 0]
    BY <1>4 DEF LinkStoresHandler, AtLink, Goto, Inv, TypeOK
  <2>2. \A u \in Thread : \A p \in Holds(u) : p \in Holds(u)'
    BY <2>1 DEF Holds
  <2>3. tail \in Holds(Builder)'
    BY <2>1, BuilderIsThread DEF Holds, Inv, TypeOK
  <2>4. \A p \in Promise : p # tail => sem'[p] = sem[p]
    BY <2>1 DEF Inv, TypeOK
  <2>. QED
    BY <1>2, <1>4, <2>2, <2>3, <2>4, BuilderIsThread, LeakKept DEF Write
<1>5. CASE LinkStoresNext
  <2>1. /\ UNCHANGED stack /\ tail \in Promise /\ sem' = [sem EXCEPT ![tail] = 1]
    BY <1>5 DEF LinkStoresNext, Signalled, Inv, TypeOK
  <2>2. \A u \in Thread : \A p \in Holds(u) : p # tail => p \in Holds(u)'
    BY <2>1 DEF Holds
  <2>3. \A p \in Promise : sem'[p] = IF p = tail THEN 1 ELSE sem[p]
    BY <2>1 DEF Inv, TypeOK
  <2>. QED
    BY <1>2, <1>5, <2>2, <2>3, LeakKept DEF Write
<1>. QED
  BY <1>1, <1>3, <1>4, <1>5 DEF Write

\* The invariant of the model with one fulfilling thread.
OneQueueInv ==
  /\ Inv
  /\ LeakOnlyByRefulfil
  /\ \E D \in SUBSET Promise : Unused /\ Continuations(D)

LEMMA NextHands ==
  ASSUME OneWorker, Inv, NEW D \in SUBSET Promise, Unused, Continuations(D), [Next]_vars
  PROVE  \E E \in SUBSET Promise : Unused' /\ Continuations(E)'
<1>1. CASE UNCHANGED vars
  <2>1. UNCHANGED <<heap, sem, result, processed, next, resultHandler, errorHandler, pc, cur, arg,
                    rp, src, stack, built, tail, owned, called, runs>>
    BY <1>1 DEF vars, fields, locals, app, hist
  <2>2. Forsaken(D)' /\ NextPromises(D)' /\ Unused'
    BY <2>1 DEF Continuations, Forsaken, NextPromises, Unused, Alive
  <2>3. Handlers(D)' /\ NewLink(D)' /\ Calling(D)' /\ Handing(D)'
    BY <2>1 DEF Continuations, Handlers, Carries, Written, NewLink, Calling, Handing, Source,
                Alive, Linking
  <2>. QED
    BY <2>2, <2>3 DEF Continuations
<1>2. ASSUME NEW t \in Thread, Work(t) PROVE \E E \in SUBSET Promise : Unused' /\ Continuations(E)'
  BY <1>2, QuietWork, FulfilHands, PassErrorOnHands, RunHandlerHands, CopyNextHands,
     CopyHandlerHands DEF Work
<1>3. ASSUME NEW t \in Thread, StartFulfil(t) PROVE Unused' /\ Continuations(D)'
  BY <1>3, StartFulfilHands
<1>4. ASSUME Write PROVE Unused' /\ Continuations(D)'
  BY <1>4, LinkSettledHands, LinkStoresHandlerHands, LinkStoresNextHands DEF Write
<1>. QED
  BY <1>1, <1>2, <1>3, <1>4 DEF Next, Terminated

LEMMA OneQueueInvariant == ASSUME OneWorker PROVE Spec => []OneQueueInv
<1>1. Init => OneQueueInv
  <2>1. Init => LeakOnlyByRefulfil
    BY DEF Init, LeakOnlyByRefulfil, Leaked
  <2>. QED
    BY <2>1, InitInv, InitHands DEF OneQueueInv
<1>2. OneQueueInv /\ [Next]_vars => OneQueueInv'
  <2>. SUFFICES ASSUME OneQueueInv, [Next]_vars PROVE OneQueueInv'
    OBVIOUS
  <2>1. Inv'
    BY NextKeepsTypes, NextKeepsHeap, NextKeepsLocks, NextKeepsFinality DEF OneQueueInv, Inv
  <2>2. PICK D \in SUBSET Promise : Unused /\ Continuations(D)
    BY DEF OneQueueInv
  <2>3. \E E \in SUBSET Promise : Unused' /\ Continuations(E)'
    BY <2>2, NextHands DEF OneQueueInv
  <2>4. LeakOnlyByRefulfil'
    <3>1. CASE UNCHANGED vars
      BY <3>1 DEF OneQueueInv, LeakOnlyByRefulfil, Leaked, Refulfilled, Holds, vars, fields, app
    <3>. QED
      BY <2>2, <3>1, WorkLeaksNothing, OthersLeakNothing DEF OneQueueInv, Next, Terminated
  <2>. QED
    BY <2>1, <2>3, <2>4 DEF OneQueueInv
<1>. QED
  BY <1>1, <1>2, PTL DEF Spec

(***************************************************************************)
(* With one fulfilling thread, a semaphore that is taken while no call is  *)
(* in progress is that of a promise the application fulfilled twice (the   *)
(* early return at line 100): the library itself never calls               *)
(* fulfillWithResult on a settled promise.                                 *)
(***************************************************************************)
THEOREM OnlyRefulfilLeaks == ASSUME OneWorker PROVE Spec => []LeakOnlyByRefulfil
<1>1. OneQueueInv => LeakOnlyByRefulfil
  BY DEF OneQueueInv
<1>. QED
  BY <1>1, OneQueueInvariant, PTL

(***************************************************************************)
(* With one fulfilling thread, no handler runs twice, however often the    *)
(* application calls fulfillWithResult, whatever the handlers return, and  *)
(* while another thread is still writing the chain. With two fulfilling    *)
(* threads it is false: isProcessed is checked and set without a lock      *)
(* (lines 115 and 121).                                                    *)
(***************************************************************************)
THEOREM HandlersRunOnce == ASSUME OneWorker PROVE Spec => []HandlerAtMostOnce
<1>1. OneQueueInv => HandlerAtMostOnce
  BY DEF OneQueueInv, Continuations, Handlers, HandlerAtMostOnce
<1>. QED
  BY <1>1, OneQueueInvariant, PTL

-----------------------------------------------------------------------------
(***************************************************************************)
(* Positions. pos[p] is the place of promise p in the chain: the result of *)
(* p is for the handler of link pos[p] + 1. The root is at 0, what handler *)
(* j returned at j, and the next promise of p one further than p.          *)
(***************************************************************************)

\* An error is on its way at place k: it happened at some place i, and the links
\* between are "then" links, which it skips.
Errs(k) ==
  \E i \in 0 .. k : Outcome[i] = "error" /\ \A l \in i+1 .. k : kind[l] = "then"

\* p is the promise whose result is an outcome of the chain: the root, or what
\* the handler at its place returned.
Own(pos, p) ==
  \/ p = Root
  \/ pos[p] \in Link /\ runs[pos[p]] > 0 /\ ret[pos[p]] = p

\* The promises handlers returned are at their links; the application owns no
\* others.
Origins(pos) ==
  /\ Root \in heap /\ pos[Root] = 0
  /\ \A i \in Link : runs[i] > 0 /\ ret[i] # NoPromise => ret[i] \in heap /\ pos[ret[i]] = i
  /\ \A p \in owned : Own(pos, p)

\* Tail, next and the handlers agree with the positions.
Places(pos) ==
  /\ pos[tail] = built
  /\ Linking => pos[cur[Builder]] = built + 1
  /\ \A p \in Promise : next[p] # NoPromise => pos[next[p]] = pos[p] + 1
  /\ \A p \in Promise, j \in Link :
       /\ resultHandler[p] = j => j = pos[p] + 1 /\ kind[j] = "then"
       /\ errorHandler[p] = j => j = pos[p] + 1 /\ kind[j] = "error"

\* A promise has the value of the outcome at its place, or an error that reaches
\* its place.
Results(pos) ==
  /\ \A p \in Promise : result[p] = "value" => Outcome[pos[p]] = "value"
  /\ \A p \in Promise : result[p] = "error" => Errs(pos[p])
  /\ \A t \in Thread : pc[t] = "wait" => cur[t] \in owned \/ (arg[t] = "error" /\ Errs(pos[cur[t]]))

\* The next of p was copied, its handlers not yet both.
HalfCopied(p) == \E t \in Thread : pc[t] \in {"copyResultHandler", "copyErrorHandler"} /\ rp[t] = p

\* An error that reaches p is for the handler of the link after p.
Needs(pos, p) == next[p] # NoPromise /\ kind[pos[p] + 1] = "error"

\* Then p holds that handler, so that no error is passed on over an onError
\* link.
Catches(pos) ==
  /\ Linking /\ kind[built + 1] = "error" => errorHandler[tail] = built + 1
  /\ \A p \in Promise : Needs(pos, p) /\ ~ HalfCopied(p) => errorHandler[p] = pos[p] + 1
  /\ \A t \in Thread : pc[t] \in CopiesHandlers =>
       /\ rp[t] # tail /\ (Linking => rp[t] # cur[Builder])
       /\ Source(t) # NoPromise => pos[Source(t)] = pos[rp[t]]
       /\ pc[t] # "copyNext" /\ Needs(pos, rp[t]) =>
            Source(t) # NoPromise /\ errorHandler[Source(t)] = pos[rp[t]] + 1

Placed(pos) == Origins(pos) /\ Places(pos) /\ Results(pos) /\ Catches(pos)

Position == [Promise -> 0 .. N]

-----------------------------------------------------------------------------
\* Outcome, at one place.
LEMMA OutcomeAt ==
  ASSUME NEW i \in 0 .. N
  PROVE  Outcome[i] = IF i = 0 THEN result[Root]
                      ELSE IF runs[i] = 0 THEN "idle"
                      ELSE IF ret[i] = NoPromise THEN "nil"
                      ELSE result[ret[i]]
  BY DEF Outcome

\* Only the results of promises a handler returned, and of the root, are outcomes.
LEMMA OutcomeKept ==
  ASSUME Inv, NEW pos \in Position, Origins(pos), UNCHANGED <<runs, ret>>,
         \A p \in heap : result'[p] = result[p]
  PROVE  Outcome' = Outcome
<1>1. ASSUME NEW i \in 0 .. N
      PROVE  (IF i = 0 THEN result[Root]
              ELSE IF runs[i] = 0 THEN "idle"
              ELSE IF ret[i] = NoPromise THEN "nil"
              ELSE result[ret[i]])
             = (IF i = 0 THEN result'[Root]
                ELSE IF runs'[i] = 0 THEN "idle"
                ELSE IF ret'[i] = NoPromise THEN "nil"
                ELSE result'[ret'[i]])
  <2>1. i # 0 => i \in Link
    BY ConstantAssumption DEF Link
  <2>2. i # 0 => runs[i] \in Nat
    BY <2>1 DEF Inv, TypeOK
  <2>. QED
    BY <2>1, <2>2 DEF Origins
<1>. QED
  BY <1>1 DEF Outcome

\* What has settled stays so.
LEMMA ErrsStay ==
  ASSUME kind' = kind, NEW k \in 0 .. N,
         \A i \in 0 .. N : Outcome[i] = "error" => Outcome'[i] = "error", Errs(k)
  PROVE  Errs(k)'
  BY ConstantAssumption DEF Errs

\* A step that only moves its own thread disturbs no position and no outcome.
LEMMA QuietPlaced ==
  ASSUME Inv, NEW pos \in Position, Placed(pos), NEW t \in Thread,
         UNCHANGED <<heap, result, next, resultHandler, errorHandler, kind, built, tail, owned,
                     runs, ret>>,
         \A u \in Thread : u # t => pc'[u] = pc[u] /\ cur'[u] = cur[u] /\ rp'[u] = rp[u]
                                    /\ src'[u] = src[u] /\ arg'[u] = arg[u],
         pc[t] \notin {"linking", "copyResultHandler", "copyErrorHandler"},
         pc'[t] \notin {"linking"} \cup CopiesHandlers,
         pc'[t] = "wait" => cur'[t] \in owned \/ (arg'[t] = "error" /\ Errs(pos[cur'[t]]))
  PROVE  Placed(pos)' /\ Outcome' = Outcome
<1>1. Outcome' = Outcome
  BY OutcomeKept DEF Placed
<1>2. \A k \in 0 .. N : Errs(k)' <=> Errs(k)
  BY <1>1 DEF Errs
<1>3. Linking' = Linking /\ (Linking => cur'[Builder] = cur[Builder])
  BY BuilderIsThread DEF Linking
<1>4. Origins(pos)' /\ Places(pos)'
  BY <1>3 DEF Placed, Origins, Places, Own
<1>5. Results(pos)'
  <2>1. \A p \in Promise : pos[p] \in 0 .. N
    BY DEF Position
  <2>2. ASSUME NEW u \in Thread, pc'[u] = "wait"
        PROVE  cur'[u] \in owned \/ (arg'[u] = "error" /\ Errs(pos[cur'[u]]))
    BY <2>2 DEF Placed, Results
  <2>3. \A k : Errs(k)' <=> Errs(k)
    BY <1>1 DEF Errs
  <2>. QED
    BY <1>1, <2>1, <2>2, <2>3 DEF Placed, Results
<1>6. Catches(pos)'
  <2>1. \A p : HalfCopied(p)' <=> HalfCopied(p)
    BY DEF HalfCopied, CopiesHandlers
  <2>2. \A p : Needs(pos, p)' <=> Needs(pos, p)
    BY DEF Needs
  <2>3. \A u \in Thread : pc'[u] \in CopiesHandlers => u # t /\ pc'[u] = pc[u] /\ Source(u)' = Source(u)
    BY DEF Source
  <2>. QED
    BY <1>3, <2>1, <2>2, <2>3 DEF Placed, Catches
<1>. QED
  BY <1>1, <1>4, <1>5, <1>6 DEF Placed

\* Position k is where the result of p waits for the handler of link k + 1.
LEMMA DueFeeds ==
  ASSUME Inv, NEW pos \in Position, Placed(pos), NEW p \in Promise, NEW j \in Link,
         j = pos[p] + 1, Matches(result[p], kind[j])
  PROVE  \E i \in Chain!Index : Chain!Feeds(i, j)
<1>. USE ConstantAssumption DEF Chain!Index, Chain!Feeds
<1>1. pos[p] \in 0 .. N
  BY DEF Position
<1>2. CASE result[p] = "value" /\ kind[j] = "then"
  <2>1. Outcome[pos[p]] = "value"
    BY <1>2 DEF Placed, Results
  <2>. QED
    BY <1>1, <1>2, <2>1
<1>3. CASE result[p] = "error" /\ kind[j] = "error"
  <2>1. PICK i \in 0 .. pos[p] : Outcome[i] = "error" /\ \A l \in i+1 .. pos[p] : kind[l] = "then"
    BY <1>3 DEF Placed, Results, Errs
  <2>2. i \in 0 .. N /\ i < j /\ j - 1 = pos[p]
    BY <1>1, <2>1
  <2>. QED
    BY <1>3, <2>1, <2>2
<1>. QED
  BY <1>2, <1>3 DEF Matches

\* The handler a promise has for its result is the one the link was written with.
LEMMA HandlerMatches ==
  ASSUME Inv, NEW pos \in Position, Placed(pos), NEW p \in Promise,
         result[p] # "pending", HandlerFor(p) # NoLink
  PROVE  /\ HandlerFor(p) \in Link /\ HandlerFor(p) = pos[p] + 1
         /\ Matches(result[p], kind[HandlerFor(p)])
<1>1. HandlerFor(p) \in Link /\ result[p] \in Settled
  BY DEF HandlerFor, Inv, TypeOK, Status
<1>. QED
  BY <1>1 DEF HandlerFor, Matches, Settled, Placed, Places

-----------------------------------------------------------------------------
\* The steps of a fulfil call, and the start of one.
LEMMA QuietWorkPlaced ==
  ASSUME Inv, NEW pos \in Position, Placed(pos), NEW t \in Thread,
         FulfilAgain(t) \/ CheckNext(t) \/ Signal(t) \/ Return(t) \/ CheckProcessed(t)
           \/ NothingToRun(t) \/ CheckReturned(t) \/ StartFulfil(t)
  PROVE  Placed(pos)' /\ Outcome' = Outcome
<1>. USE DEF Inv, TypeOK, Goto, fields, locals, app, hist, CopiesHandlers
<1>1. CASE FulfilAgain(t) \/ CheckNext(t) \/ Return(t)
  BY <1>1, QuietPlaced DEF FulfilAgain, CheckNext, Return
<1>2. CASE Signal(t)
  BY <1>2, QuietPlaced DEF Signal
<1>3. CASE CheckProcessed(t) \/ NothingToRun(t)
  BY <1>3, QuietPlaced DEF CheckProcessed, NothingToRun
<1>4. CASE CheckReturned(t)
  BY <1>4, QuietPlaced DEF CheckReturned
<1>5. CASE StartFulfil(t)
  BY <1>5, QuietPlaced DEF StartFulfil, BetweenTurns
<1>. QED
  BY <1>1, <1>2, <1>3, <1>4, <1>5

\* An error is passed on where no handler is for it: over a "then".
LEMMA PassErrorOnPlaced ==
  ASSUME OneWorker, Inv, NEW D \in SUBSET Promise, Continuations(D),
         NEW pos \in Position, Placed(pos), NEW t \in Thread, PassErrorOn(t)
  PROVE  Placed(pos)' /\ Outcome' = Outcome
<1>. DEFINE p == cur[t]
            n == next[p]
<1>1. /\ UNCHANGED <<heap, result, next, resultHandler, errorHandler, kind, built, tail, owned,
                     runs, ret, rp, src>>
      /\ pc[t] = "dispatch" /\ pc' = [pc EXCEPT ![t] = "wait"]
      /\ cur' = [cur EXCEPT ![t] = n] /\ arg' = [arg EXCEPT ![t] = "error"]
      /\ p \in Promise /\ n # NoPromise /\ n \in Promise
      /\ result[p] = "error" /\ errorHandler[p] = NoLink
  BY DEF PassErrorOn, HasNext, ErrorTarget, Goto, app, hist, Inv, TypeOK, Nullable
<1>2. /\ \A u \in Thread : u # t => pc'[u] = pc[u] /\ cur'[u] = cur[u] /\ arg'[u] = arg[u]
      /\ pc'[t] = "wait" /\ cur'[t] = n /\ arg'[t] = "error"
  BY <1>1 DEF Inv, TypeOK
<1>3. pos[p] \in 0 .. N /\ pos[n] \in 0 .. N /\ pos[n] = pos[p] + 1
  BY <1>1 DEF Position, Placed, Places
<1>4. ~ HalfCopied(p)
  BY <1>1, ActiveAlone DEF HalfCopied, Continuations
<1>5. kind[pos[n]] = "then"
  <2>1. pos[n] \in Link
    BY <1>3 DEF Link
  <2>2. kind[pos[n]] # "error"
    BY <1>1, <1>3, <1>4 DEF Placed, Catches, Needs, NoLink
  <2>. QED
    BY <2>1, <2>2 DEF Inv, TypeOK
<1>6. Errs(pos[n])
  <2>1. PICK i \in 0 .. pos[p] : Outcome[i] = "error" /\ \A l \in i+1 .. pos[p] : kind[l] = "then"
    BY <1>1 DEF Placed, Results, Errs
  <2>2. i \in 0 .. pos[n] /\ \A l \in i+1 .. pos[n] : l \in i+1 .. pos[p] \/ l = pos[n]
    BY <1>3
  <2>. QED
    BY <1>5, <2>1, <2>2 DEF Errs
<1>. QED
  BY <1>1, <1>2, <1>6, QuietPlaced DEF CopiesHandlers

\* A promise that settles: of the application, an outcome; of the library, none.
LEMMA FulfilPlaced ==
  ASSUME Inv, NEW pos \in Position, Placed(pos), NEW t \in Thread, Fulfil(t)
  PROVE  Placed(pos)' /\ [Chain!Next]_(<<kind, Outcome>>)
<1>. DEFINE c == cur[t]
<1>1. /\ UNCHANGED <<heap, next, resultHandler, errorHandler, kind, built, tail, owned,
                     runs, ret, cur, arg, rp, src>>
      /\ pc[t] = "wait" /\ pc' = [pc EXCEPT ![t] = "settled"]
      /\ c \in Promise /\ result[c] = "pending" /\ arg[t] \in Settled
      /\ result' = [result EXCEPT ![c] = arg[t]]
  BY DEF Fulfil, IsFulfilled, Goto, locals, app, hist, Inv, TypeOK, Finality
<1>2. /\ \A u \in Thread : u # t => pc'[u] = pc[u]
      /\ pc'[t] = "settled"
      /\ \A p \in Promise : p # c => result'[p] = result[p]
      /\ result'[c] = arg[t]
  BY <1>1 DEF Inv, TypeOK
<1>3. /\ pos[c] \in 0 .. N /\ Root \in Promise
      /\ \A i \in 0 .. N : i # 0 => i \in Link
      /\ \A i \in Link : runs[i] \in Nat /\ ret[i] \in Promise \cup {NoPromise} /\ i # 0
  BY <1>1, ConstantAssumption DEF Position, Inv, TypeOK, Nullable, Link
\* The outcome at the position of c, if c is the promise it is the outcome of.
<1>4. ASSUME NEW i \in 0 .. N, i # pos[c] \/ ~ Own(pos, c)
      PROVE  Outcome'[i] = Outcome[i]
  <2>1. CASE i = 0
    <3>1. Root # c
      BY <1>4, <2>1 DEF Own, Placed, Origins
    <3>. QED
      BY <1>2, <1>3, <2>1, <3>1, OutcomeAt DEF Outcome
  <2>2. CASE i # 0 /\ runs[i] > 0 /\ ret[i] # NoPromise
    <3>1. i \in Link /\ ret[i] \in Promise /\ ret[i] # c
      BY <1>3, <1>4, <2>2 DEF Own, Placed, Origins
    <3>. QED
      BY <1>1, <1>2, <2>2, <3>1 DEF Outcome
  <2>3. CASE i # 0 /\ (runs[i] = 0 \/ ret[i] = NoPromise)
    BY <1>1, <2>3 DEF Outcome
  <2>. QED
    BY <1>3, <2>1, <2>2, <2>3
<1>5. ASSUME Own(pos, c)
      PROVE  Outcome[pos[c]] = "pending" /\ Outcome'[pos[c]] = arg[t]
  <2>1. CASE c = Root
    BY <1>1, <1>2, <1>3, <2>1 DEF Outcome, Placed, Origins
  <2>2. CASE pos[c] \in Link /\ runs[pos[c]] > 0 /\ ret[pos[c]] = c
    BY <1>1, <1>2, <1>3, <2>2, ConstantAssumption DEF Outcome
  <2>. QED
    BY <1>5, <2>1, <2>2 DEF Own
<1>6. \A i \in 0 .. N : Outcome[i] \in Settled => Outcome'[i] = Outcome[i]
  BY <1>4, <1>5 DEF Settled
<1>7. [Chain!Next]_(<<kind, Outcome>>)
  <2>1. Outcome = [i \in 0 .. N |-> Outcome[i]] /\ Outcome' = [i \in 0 .. N |-> Outcome'[i]]
    BY DEF Outcome
  <2>2. CASE Own(pos, c)
    <3>1. Outcome' = [Outcome EXCEPT ![pos[c]] = arg[t]]
      BY <1>3, <1>4, <1>5, <2>1, <2>2
    <3>2. Chain!Settle(pos[c])
      BY <1>1, <1>5, <2>2, <3>1 DEF Chain!Settle, Chain!Settled, Settled
    <3>. QED
      BY <1>3, <3>2 DEF Chain!Next, Chain!Index
  <2>3. CASE ~ Own(pos, c)
    BY <1>1, <1>4, <2>1, <2>3
  <2>. QED
    BY <2>2, <2>3
<1>8. Linking' = Linking
  BY <1>1, <1>2, BuilderIsThread DEF Linking
<1>9. Origins(pos)' /\ Places(pos)'
  BY <1>1, <1>8 DEF Placed, Origins, Places, Own
<1>10. Results(pos)'
  <2>1. \A k \in 0 .. N : Errs(k) => Errs(k)'
    BY <1>1, <1>6, ErrsStay DEF Settled
  <2>2. \A p \in Promise : pos[p] \in 0 .. N
    BY DEF Position
  <2>3. c \in owned => Own(pos, c)
    BY DEF Placed, Origins
  <2>4. result'[c] = "value" => Outcome'[pos[c]] = "value"
    BY <1>1, <1>2, <1>5, <2>3 DEF Placed, Results
  <2>5. result'[c] = "error" => \A p \in Promise : p = c => Errs(pos[p])'
    <3>1. CASE c \in owned
      <4>1. arg[t] = "error" => \E i \in 0 .. pos[c] : Outcome'[i] = "error" /\ \A l \in i+1 .. pos[c] : kind'[l] = "then"
        BY <1>3, <1>5, <2>3, <3>1
      <4>2. \A k : Errs(k)' <=> \E i \in 0 .. k : Outcome'[i] = "error" /\ \A l \in i+1 .. k : kind'[l] = "then"
        BY DEF Errs
      <4>3. arg[t] = "error" => \A p \in Promise : p = c => Errs(pos[p])'
        BY <4>1, <4>2
      <4>. QED
        BY <1>1, <1>2, <4>3
    <3>2. CASE c \notin owned
      BY <1>1, <1>3, <2>1, <3>2 DEF Placed, Results
    <3>. QED
      BY <3>1, <3>2
  <2>6. \A p \in Promise : p # c => (result'[p] = "value" => Outcome'[pos[p]] = "value")
    BY <1>2, <1>6, <2>2 DEF Placed, Results, Settled
  <2>7. \A p \in Promise : p # c => (result'[p] = "error" => Errs(pos[p])')
    BY <1>2, <2>1, <2>2 DEF Placed, Results
  <2>8. ASSUME NEW u \in Thread, pc'[u] = "wait"
        PROVE  cur[u] \in owned \/ (arg[u] = "error" /\ \A p \in Promise : p = cur[u] => Errs(pos[p])')
    <3>1. pc[u] = "wait" /\ cur[u] \in Promise
      BY <1>2, <2>8 DEF Inv, TypeOK
    <3>2. pos[cur[u]] \in 0 .. N
      BY <2>2, <3>1
    <3>. QED
      BY <2>1, <3>1, <3>2 DEF Placed, Results
  <2>9. ASSUME NEW u \in Thread, pc'[u] = "wait"
        PROVE  cur'[u] \in Promise /\ cur'[u] = cur[u]
    BY <1>1, <1>2, <2>9 DEF Inv, TypeOK
  <2>10. \A u \in Thread : pc'[u] = "wait" => cur'[u] \in owned' \/ (arg'[u] = "error" /\ Errs(pos[cur[u]])')
    BY <1>1, <2>8, <2>9
  <2>11. \A p \in Promise : result'[p] = "value" => Outcome'[pos[p]] = "value"
    BY <2>4, <2>6
  <2>12. \A p \in Promise : result'[p] = "error" => Errs(pos[p])'
    BY <2>5, <2>7
  <2>. QED
    BY <2>10, <2>11, <2>12 DEF Results
<1>11. Catches(pos)'
  <2>1. \A p : HalfCopied(p)' <=> HalfCopied(p)
    BY <1>1, <1>2 DEF HalfCopied
  <2>2. \A p : Needs(pos, p)' <=> Needs(pos, p)
    BY <1>1 DEF Needs
  <2>3. \A u \in Thread : pc'[u] \in CopiesHandlers => pc'[u] = pc[u] /\ Source(u)' = Source(u)
    BY <1>1, <1>2 DEF Source, CopiesHandlers
  <2>. QED
    BY <1>1, <1>8, <2>1, <2>2, <2>3 DEF Placed, Catches
<1>. QED
  BY <1>7, <1>9, <1>10, <1>11 DEF Placed

\* The new promise takes the place of the one it copies.
LEMMA CopyPlaced ==
  ASSUME OneWorker, Inv, NEW D \in SUBSET Promise, Continuations(D),
         NEW pos \in Position, Placed(pos), NEW t \in Thread,
         CopyNext(t) \/ CopyResultHandler(t) \/ CopyErrorHandler(t)
  PROVE  Placed(pos)' /\ Outcome' = Outcome
<1>. DEFINE s == Source(t)
            q == rp[t]
<1>1. /\ UNCHANGED <<heap, result, cur, arg, rp, kind, built, tail, owned, runs, ret>>
      /\ q \in Promise /\ s \in Promise \cup {NoPromise} /\ src'[t] = s
      /\ \/ /\ pc[t] = "copyNext" /\ pc' = [pc EXCEPT ![t] = "copyResultHandler"]
            /\ next' = [next EXCEPT ![q] = NextOf(s)]
            /\ UNCHANGED <<resultHandler, errorHandler>>
         \/ /\ pc[t] = "copyResultHandler" /\ pc' = [pc EXCEPT ![t] = "copyErrorHandler"]
            /\ resultHandler' = [resultHandler EXCEPT ![q] = ResultHandlerOf(s)]
            /\ UNCHANGED <<next, errorHandler>>
         \/ /\ pc[t] = "copyErrorHandler" /\ pc' = [pc EXCEPT ![t] = "checkReturned"]
            /\ errorHandler' = [errorHandler EXCEPT ![q] = ErrorHandlerOf(s)]
            /\ UNCHANGED <<next, resultHandler>>
  BY DEF CopyNext, CopyResultHandler, CopyErrorHandler, Source, Goto, locals, app, hist, Inv,
         TypeOK, Nullable, Copying
<1>2. /\ \A u \in Thread : u # t => pc'[u] = pc[u]
      /\ pc'[t] \in {"copyResultHandler", "copyErrorHandler", "checkReturned"}
      /\ \A u \in Thread : u # t => pc[u] \in {"idle", "linking"}
      /\ pc[t] \in CopiesHandlers
  BY <1>1, ActiveAlone DEF Continuations, CopiesHandlers, Inv, TypeOK
<1>3. Linking' = Linking
  BY <1>1, <1>2, BuilderIsThread DEF Linking, CopiesHandlers
<1>4. Outcome' = Outcome
  BY <1>1, OutcomeKept DEF Placed
<1>5. /\ q # tail /\ (Linking => q # cur[Builder])
      /\ s # NoPromise => pos[s] = pos[q]
      /\ pc[t] # "copyNext" /\ Needs(pos, q) => s # NoPromise /\ errorHandler[s] = pos[q] + 1
  BY <1>2 DEF Placed, Catches
<1>6. Origins(pos)'
  BY <1>1 DEF Placed, Origins, Own
<1>7. Places(pos)'
  <2>1. ASSUME NEW p \in Promise, next'[p] # NoPromise PROVE pos[next'[p]] = pos[p] + 1
    BY <1>1, <1>5, <2>1 DEF Placed, Places, NextOf, Inv, TypeOK
  <2>2. ASSUME NEW p \in Promise, NEW j \in Link, resultHandler'[p] = j
        PROVE  j = pos[p] + 1 /\ kind[j] = "then"
    BY <1>1, <1>5, <2>2 DEF Placed, Places, ResultHandlerOf, Inv, TypeOK, Link, NoLink
  <2>3. ASSUME NEW p \in Promise, NEW j \in Link, errorHandler'[p] = j
        PROVE  j = pos[p] + 1 /\ kind[j] = "error"
    BY <1>1, <1>5, <2>3 DEF Placed, Places, ErrorHandlerOf, Inv, TypeOK, Link, NoLink
  <2>. QED
    BY <1>1, <1>3, <2>1, <2>2, <2>3 DEF Placed, Places
<1>8. Results(pos)'
  <2>1. \A u \in Thread : pc'[u] # "wait"
    BY <1>2
  <2>2. \A k : Errs(k)' <=> Errs(k)
    BY <1>1, <1>4 DEF Errs
  <2>. QED
    BY <1>1, <1>4, <2>1, <2>2 DEF Placed, Results
<1>9. Catches(pos)'
  <2>1. \A p \in Promise : HalfCopied(p) <=> pc[t] # "copyNext" /\ p = q
    BY <1>2 DEF HalfCopied, CopiesHandlers
  <2>2. \A p \in Promise : HalfCopied(p)' <=> pc'[t] # "checkReturned" /\ p = q
    BY <1>1, <1>2 DEF HalfCopied
  <2>3. \A p \in Promise : p # q => (Needs(pos, p)' <=> Needs(pos, p)) /\ errorHandler'[p] = errorHandler[p]
    BY <1>1 DEF Needs, Inv, TypeOK
  \* What a promise still to be copied is to catch, the one it copies catches.
  <2>4. Needs(pos, q)' => s # NoPromise /\ errorHandler[s] = pos[q] + 1
    <3>1. CASE pc[t] = "copyNext"
      <4>1. next'[q] = NextOf(s)
        BY <1>1, <3>1 DEF Inv, TypeOK
      <4>2. next'[q] # NoPromise => s \in Promise /\ s # NoPromise /\ next'[q] = next[s]
        BY <1>1, <4>1 DEF NextOf
      <4>. QED
        BY <1>1, <1>5, <2>1, <3>1, <4>2 DEF Placed, Catches, Needs
    <3>2. CASE pc[t] # "copyNext"
      BY <1>1, <1>5, <3>2 DEF Needs
    <3>. QED
      BY <3>1, <3>2
  <2>5. s # NoPromise /\ pc'[t] # "checkReturned" => errorHandler'[s] = errorHandler[s]
    BY <1>1, <1>2 DEF Inv, TypeOK
  <2>6. pc'[t] = "checkReturned" => errorHandler'[q] = ErrorHandlerOf(s)
    BY <1>1, <1>2 DEF Inv, TypeOK
  <2>7. \A p \in Promise : Needs(pos, p)' /\ ~ HalfCopied(p)' => errorHandler'[p] = pos[p] + 1
    BY <1>1, <2>1, <2>2, <2>3, <2>4, <2>6 DEF Placed, Catches, ErrorHandlerOf
  <2>8. pc'[t] \in CopiesHandlers => Source(t)' = s
    BY <1>1, <1>2 DEF Source
  <2>9. \A u \in Thread : pc'[u] \in CopiesHandlers => u = t
    BY <1>2 DEF CopiesHandlers
  <2>10. pc'[t] \in CopiesHandlers =>
       /\ rp'[t] # tail' /\ (Linking' => rp'[t] # cur'[Builder])
       /\ s # NoPromise => pos[s] = pos[rp'[t]]
       /\ pc'[t] # "copyNext" /\ Needs(pos, q)' =>
            s # NoPromise /\ errorHandler'[s] = pos[q] + 1
    BY <1>1, <1>2, <1>3, <1>5, <2>4, <2>5 DEF CopiesHandlers
  <2>11. Linking' /\ kind[built + 1] = "error" => errorHandler'[tail] = built + 1
    BY <1>1, <1>3, <1>5 DEF Placed, Catches, Inv, TypeOK
  <2>. QED
    BY <1>1, <2>7, <2>8, <2>9, <2>10, <2>11 DEF Catches
<1>. QED
  BY <1>4, <1>6, <1>7, <1>8, <1>9 DEF Placed

\* Nothing refers to an object before it is allocated: it can be placed anywhere.
LEMMA FreshPlaced ==
  ASSUME Inv, Unused, NEW D \in SUBSET Promise, Continuations(D),
         NEW pos \in Position, Placed(pos), CanAllocate, NEW k \in 0 .. N
  PROVE  \E at \in Position : Placed(at) /\ at[Fresh] = k /\ \A p \in heap : at[p] = pos[p]
<1>. DEFINE at == [pos EXCEPT ![Fresh] = k]
<1>1. Fresh \in Promise \ heap /\ at \in Position /\ at[Fresh] = k
  BY FreshIsNew DEF Position
<1>2. \A p \in Promise : p # Fresh => at[p] = pos[p]
  BY DEF Position
<1>3. \A p \in heap : at[p] = pos[p] /\ p \in Promise
  BY <1>1, <1>2 DEF Inv, TypeOK
<1>4. /\ next[Fresh] = NoPromise /\ resultHandler[Fresh] = NoLink /\ errorHandler[Fresh] = NoLink
      /\ result[Fresh] = "pending"
  BY <1>1 DEF Unused, Inv, Finality, TypeOK, Status, Settled
<1>5. Origins(at)
  BY <1>3 DEF Placed, Origins, Own, Inv, HeapClosed
<1>6. Places(at)
  <2>1. \A p \in Promise : next[p] # NoPromise => p # Fresh /\ next[p] \in heap
    BY <1>4 DEF Inv, HeapClosed
  <2>2. \A p \in Promise, j \in Link : resultHandler[p] = j \/ errorHandler[p] = j => p # Fresh
    BY <1>4 DEF Link, NoLink
  <2>3. tail \in heap /\ (Linking => cur[Builder] \in heap)
    BY BuilderIsThread DEF Linking, Inv, HeapClosed
  <2>. QED
    BY <1>2, <1>3, <2>1, <2>2, <2>3 DEF Placed, Places
<1>7. Results(at)
  <2>1. \A p \in Promise : result[p] # "pending" => at[p] = pos[p]
    BY <1>2, <1>4
  <2>2. \A t \in Thread : pc[t] = "wait" => at[cur[t]] = pos[cur[t]]
    BY <1>3 DEF Inv, HeapClosed
  <2>. QED
    BY <2>1, <2>2 DEF Placed, Results
<1>8. Catches(at)
  <2>1. \A p \in Promise : (Needs(at, p) <=> Needs(pos, p)) /\ (Needs(pos, p) => at[p] = pos[p])
    BY <1>2, <1>4 DEF Needs
  <2>2. \A t \in Thread : pc[t] \in CopiesHandlers => rp[t] \in heap /\ rp[t] \in Promise
    BY DEF CopiesHandlers, Copying, Inv, TypeOK, HeapClosed
  <2>3. \A t \in Thread : pc[t] \in CopiesHandlers /\ Source(t) # NoPromise => Source(t) \in heap
    BY DEF Continuations, Handing, Forsaken
  <2>. QED
    BY <1>3, <2>1, <2>2, <2>3 DEF Placed, Catches
<1>. QED
  BY <1>1, <1>3, <1>5, <1>6, <1>7, <1>8 DEF Placed

\* A handler that is due runs: the chain invokes it.
LEMMA AnswerOutcome ==
  ASSUME Inv, NEW pos \in Position, Origins(pos), NEW j \in Link, runs[j] = 0,
         \E i \in Chain!Index : Chain!Feeds(i, j),
         NEW q \in Nullable, q # NoPromise => result'[q] \in Status,
         runs' = [runs EXCEPT ![j] = @ + 1], ret' = [ret EXCEPT ![j] = q], kind' = kind,
         \A p \in heap : result'[p] = result[p]
  PROVE  /\ Chain!Next
         /\ Outcome' = [Outcome EXCEPT ![j] = IF q = NoPromise THEN "nil" ELSE result'[q]]
         /\ j \in 0 .. N /\ Outcome[j] = "idle"
<1>1. /\ j \in 0 .. N /\ j # 0
      /\ \A i \in 0 .. N : i # 0 => i \in Link
      /\ runs'[j] = 1 /\ ret'[j] = q
      /\ \A i \in Link : i # j => runs'[i] = runs[i] /\ ret'[i] = ret[i]
      /\ \A i \in Link : runs[i] \in Nat
  BY ConstantAssumption DEF Link, Inv, TypeOK
<1>2. Outcome'[j] = IF q = NoPromise THEN "nil" ELSE result'[q]
  BY <1>1 DEF Outcome
<1>3. Outcome[j] = "idle"
  BY <1>1 DEF Outcome
<1>4. ASSUME NEW i \in 0 .. N, i # j PROVE Outcome'[i] = Outcome[i]
  <2>1. CASE i = 0
    BY <1>4, <2>1 DEF Outcome, Origins
  <2>2. CASE i # 0 /\ runs[i] = 0
    BY <1>1, <1>4, <2>2 DEF Outcome
  <2>3. CASE i # 0 /\ runs[i] # 0 /\ ret[i] = NoPromise
    BY <1>1, <1>4, <2>3 DEF Outcome
  <2>4. CASE i # 0 /\ runs[i] # 0 /\ ret[i] # NoPromise
    <3>1. ret[i] \in heap
      BY <1>1, <1>4, <2>4 DEF Origins
    <3>. QED
      BY <1>1, <1>4, <2>4, <3>1 DEF Outcome
  <2>. QED
    BY <2>1, <2>2, <2>3, <2>4
<1>5. Outcome' = [Outcome EXCEPT ![j] = IF q = NoPromise THEN "nil" ELSE result'[q]]
  <2>1. Outcome = [i \in 0 .. N |-> Outcome[i]] /\ Outcome' = [i \in 0 .. N |-> Outcome'[i]]
    BY DEF Outcome
  <2>. QED
    BY <1>1, <1>2, <1>4, <2>1
<1>6. Chain!Invoke(j)
  <2>1. (IF q = NoPromise THEN "nil" ELSE result'[q]) \in Chain!Status \cup {"nil"}
    BY DEF Chain!Status, Chain!Settled, Status, Settled
  <2>. QED
    BY <1>3, <1>5, <2>1 DEF Chain!Invoke
<1>. QED
  BY <1>1, <1>3, <1>5, <1>6 DEF Chain!Next, Chain!Link, Link

\* What the handler of link j returned takes place j.
LEMMA AnswerPlaced ==
  ASSUME Inv, NEW pos \in Position, Placed(pos), NEW j \in Link, runs[j] = 0,
         \E i \in Chain!Index : Chain!Feeds(i, j),
         NEW q \in Nullable, q # NoPromise => q \notin heap /\ q \in heap' /\ pos[q] = j,
         runs' = [runs EXCEPT ![j] = @ + 1], ret' = [ret EXCEPT ![j] = q], kind' = kind,
         heap \subseteq heap', result' \in [Promise -> Status],
         \A p \in Promise : p # q => result'[p] = result[p],
         owned \subseteq owned', \A p \in owned' : p \in owned \/ (p = q /\ q # NoPromise),
         \A t \in Thread : pc'[t] = "wait" =>
           pc[t] = "wait" /\ cur'[t] = cur[t] /\ arg'[t] = arg[t]
  PROVE  Origins(pos)' /\ Results(pos)' /\ Chain!Next
<1>1. /\ \A p \in heap : p \in Promise /\ p # q /\ result'[p] = result[p]
      /\ q # NoPromise => q \in Promise /\ result'[q] \in Status
  BY ConstantAssumption DEF Nullable, Inv, TypeOK
<1>2. /\ Chain!Next
      /\ Outcome' = [Outcome EXCEPT ![j] = IF q = NoPromise THEN "nil" ELSE result'[q]]
      /\ j \in 0 .. N /\ Outcome[j] = "idle"
  BY <1>1, AnswerOutcome DEF Placed
<1>3. /\ runs'[j] = 1 /\ ret'[j] = q
      /\ \A i \in Link : i # j => runs'[i] = runs[i] /\ ret'[i] = ret[i]
  BY DEF Inv, TypeOK
<1>4. /\ Outcome'[j] = IF q = NoPromise THEN "nil" ELSE result'[q]
      /\ \A i \in 0 .. N : i # j => Outcome'[i] = Outcome[i]
      /\ \A i \in 0 .. N : Outcome[i] \in Settled => Outcome'[i] = Outcome[i]
  <2>1. Outcome = [i \in 0 .. N |-> Outcome[i]]
    BY DEF Outcome
  <2>. QED
    BY <1>2, <2>1 DEF Settled
<1>5. Origins(pos)'
  <2>1. ASSUME NEW i \in Link, runs'[i] > 0, ret'[i] # NoPromise
        PROVE  ret'[i] \in heap' /\ pos[ret'[i]] = i
    BY <1>3, <2>1 DEF Placed, Origins
  <2>2. ASSUME NEW p \in owned' PROVE Own(pos, p)'
    <3>1. CASE p = q /\ q # NoPromise
      BY <1>3, <3>1 DEF Own
    <3>2. CASE p \in owned
      BY <1>3, <3>2 DEF Placed, Origins, Own
    <3>. QED
      BY <2>2, <3>1, <3>2
  <2>. QED
    BY <2>1, <2>2 DEF Placed, Origins
<1>6. \A k \in 0 .. N : Errs(k) => Errs(k)'
  BY <1>4, ErrsStay DEF Settled
<1>7. \A p \in Promise : pos[p] \in 0 .. N
  BY DEF Position
<1>8. Results(pos)'
  <2>1. ASSUME NEW p \in Promise, result'[p] = "value" PROVE Outcome'[pos[p]] = "value"
    <3>1. CASE p = q
      BY <1>1, <1>4, <2>1, <3>1, ConstantAssumption
    <3>2. CASE p # q
      BY <1>4, <1>7, <2>1, <3>2 DEF Placed, Results, Settled
    <3>. QED
      BY <3>1, <3>2
  <2>2. ASSUME NEW p \in Promise, result'[p] = "error" PROVE Errs(pos[p])'
    <3>1. CASE p = q
      <4>1. j \in 0 .. j /\ Outcome'[j] = "error" /\ \A l \in j+1 .. j : kind'[l] = "then"
        BY <1>2, <1>4, <2>2, <3>1, ConstantAssumption
      <4>2. Errs(j)'
        BY <4>1 DEF Errs
      <4>. QED
        BY <3>1, <4>2, ConstantAssumption
    <3>2. CASE p # q
      BY <1>6, <1>7, <2>2, <3>2 DEF Placed, Results
    <3>. QED
      BY <3>1, <3>2
  <2>3. ASSUME NEW t \in Thread, pc'[t] = "wait"
        PROVE  cur'[t] \in owned' \/ (arg'[t] = "error" /\ \A p \in Promise : p = cur'[t] => Errs(pos[p])')
    <3>1. pc[t] = "wait" /\ cur'[t] = cur[t] /\ arg'[t] = arg[t] /\ cur[t] \in Promise
      BY <2>3 DEF Inv, TypeOK
    <3>. QED
      BY <1>6, <1>7, <3>1 DEF Placed, Results
  <2>4. \A t \in Thread : pc'[t] = "wait" => cur'[t] \in Promise
    BY DEF Inv, TypeOK
  <2>5. \A t \in Thread : pc'[t] = "wait" => cur'[t] \in owned' \/ (arg'[t] = "error" /\ Errs(pos[cur[t]])')
    BY <2>3, <2>4
  <2>. QED
    BY <2>1, <2>2, <2>5 DEF Results
<1>. QED
  BY <1>2, <1>5, <1>8

\* The handler at dispatch is due, and what it returns takes its place.
LEMMA RunHandlerPlaced ==
  ASSUME OneWorker, Inv, Unused, NEW D \in SUBSET Promise, Continuations(D),
         NEW pos \in Position, Placed(pos), NEW t \in Thread, RunHandler(t)
  PROVE  (\E at \in Position : Placed(at)') /\ Chain!Next
<1>. DEFINE p == cur[t]
            j == HandlerFor(p)
<1>1. /\ UNCHANGED <<next, resultHandler, errorHandler, cur, arg, kind, built, tail, src>>
      /\ pc[t] = "dispatch" /\ p \in Promise /\ p \in heap /\ result[p] # "pending" /\ j # NoLink
  BY DEF RunHandler, Inv, TypeOK, HeapClosed, Finality
<1>2. /\ j \in Link /\ j = pos[p] + 1 /\ Matches(result[p], kind[j])
      /\ \E i \in Chain!Index : Chain!Feeds(i, j)
  BY <1>1, HandlerMatches, DueFeeds
<1>3. runs[j] = 0
  <2>1. Alive(D, p) /\ Carries(p, j)
    BY <1>1 DEF Continuations, Calling, Forsaken, Alive, Carries, HandlerFor
  <2>. QED
    BY <1>1, <1>2, <2>1 DEF Continuations, Handlers
<1>4. \A u \in Thread : u # t => pc[u] \in {"idle", "linking"}
  BY <1>1, ActiveAlone DEF Continuations
<1>5. CASE ReturnsNil(j) /\ pc' = [pc EXCEPT ![t] = "return"] /\ UNCHANGED <<heap, result, rp, owned>>
  <2>1. /\ \A u \in Thread : u # t => pc'[u] = pc[u]
        /\ pc'[t] = "return"
    BY <1>5 DEF Inv, TypeOK
  <2>2. Linking' = Linking
    BY <1>1, <2>1, BuilderIsThread DEF Linking
  <2>3. \A u \in Thread : pc'[u] # "wait" /\ pc'[u] \notin CopiesHandlers /\ ~ (pc[u] \in CopiesHandlers)
    BY <1>1, <1>4, <2>1 DEF CopiesHandlers
  <2>4. Origins(pos)' /\ Results(pos)' /\ Chain!Next
    <3>1. NoPromise \in Nullable /\ result' \in [Promise -> Status]
      BY <1>5 DEF Nullable, Inv, TypeOK
    <3>2. \A q \in owned' : q \in owned \/ (q = NoPromise /\ NoPromise # NoPromise)
      BY <1>5
    <3>. QED
      BY <1>1, <1>2, <1>3, <1>5, <2>3, <3>1, <3>2, AnswerPlaced DEF ReturnsNil
  <2>5. Places(pos)'
    BY <1>1, <2>2 DEF Placed, Places
  <2>6. Catches(pos)'
    BY <1>1, <2>2, <2>3 DEF Placed, Catches, Needs, HalfCopied, CopiesHandlers
  <2>. QED
    BY <2>4, <2>5, <2>6 DEF Placed
<1>6. CASE /\ ReturnsPromise(j, Fresh) /\ rp' = [rp EXCEPT ![t] = Fresh]
           /\ pc' = [pc EXCEPT ![t] = "copyNext"]
  <2>1. PICK at \in Position : Placed(at) /\ at[Fresh] = j /\ \A q \in heap : at[q] = pos[q]
    <3>1. j \in 0 .. N
      BY <1>2, ConstantAssumption DEF Link
    <3>. QED
      BY <1>6, <3>1, FreshPlaced DEF ReturnsPromise
  <2>2. Fresh \in Promise \ heap
    BY <1>6, FreshIsNew DEF ReturnsPromise
  <2>3. PICK s \in Status : /\ heap' = heap \cup {Fresh}
                            /\ result' = [result EXCEPT ![Fresh] = s]
                            /\ owned' = IF s = "pending" THEN owned \cup {Fresh} ELSE owned
    BY <1>6 DEF ReturnsPromise, Allocate
  <2>4. /\ \A u \in Thread : u # t => pc'[u] = pc[u]
        /\ pc'[t] = "copyNext" /\ rp'[t] = Fresh
    BY <1>6 DEF Inv, TypeOK
  <2>5. Linking' = Linking
    BY <1>1, <2>4, BuilderIsThread DEF Linking
  <2>6. \A u \in Thread : pc'[u] # "wait" /\ (pc'[u] \in CopiesHandlers => u = t)
    BY <1>4, <2>4 DEF CopiesHandlers
  <2>7. Origins(at)' /\ Results(at)' /\ Chain!Next
    <3>1. /\ result' \in [Promise -> Status] /\ Fresh \in Nullable
          /\ \A q \in Promise : q # Fresh => result'[q] = result[q]
      BY <2>2, <2>3 DEF Nullable, Inv, TypeOK
    <3>2. \A q \in owned' : q \in owned \/ (q = Fresh /\ Fresh # NoPromise)
      BY <2>2, <2>3, ConstantAssumption
    <3>. QED
      BY <1>1, <1>2, <1>3, <1>6, <2>1, <2>2, <2>3, <2>6, <3>1, <3>2, AnswerPlaced DEF ReturnsPromise
  <2>8. Places(at)'
    BY <1>1, <2>1, <2>5 DEF Placed, Places
  <2>9. Catches(at)'
    <3>1. /\ \A q \in Promise : ~ HalfCopied(q)' /\ ~ HalfCopied(q)
          /\ \A q \in Promise : Needs(at, q)' <=> Needs(at, q)
      BY <1>1, <1>4, <2>4 DEF HalfCopied, Needs
    <3>2. Source(t)' = next[p]
      BY <1>1, <2>4 DEF Source
    <3>3. next[p] # NoPromise => at[next[p]] = at[Fresh]
      BY <1>1, <1>2, <2>1 DEF Placed, Places
    <3>4. Fresh # tail /\ (Linking => Fresh # cur[Builder])
      BY <2>2, BuilderIsThread DEF Linking, Inv, HeapClosed
    <3>. QED
      BY <1>1, <2>1, <2>4, <2>5, <2>6, <3>1, <3>2, <3>3, <3>4 DEF Placed, Catches
  <2>. QED
    BY <2>7, <2>8, <2>9 DEF Placed
<1>. QED
  BY <1>5, <1>6 DEF RunHandler, Goto

\* On a settled promise a link goes, with a new object, to the next place.
LEMMA LinkMoves ==
  ASSUME Inv, Unused, NEW D \in SUBSET Promise, Continuations(D),
         NEW at \in Position, Placed(at), AtLink, at[Fresh] = built + 1,
         UNCHANGED <<next, resultHandler, errorHandler, pc, locals, kind>>,
         tail' = Fresh, built' = built + 1
  PROVE  Places(at)' /\ Catches(at)'
<1>1. /\ UNCHANGED <<pc, cur, rp, src>> /\ pc[Builder] = "idle"
      /\ Fresh \in Promise \ heap
  BY FreshIsNew DEF AtLink, locals
<1>2. ~ Linking /\ ~ Linking'
  BY <1>1 DEF Linking
<1>3. Places(at)'
  BY <1>2 DEF Placed, Places
<1>4. Catches(at)'
  <2>1. /\ \A p \in Promise : Needs(at, p)' <=> Needs(at, p)
        /\ \A p \in Promise : HalfCopied(p)' <=> HalfCopied(p)
        /\ \A t \in Thread : Source(t)' = Source(t)
    BY <1>1 DEF Needs, HalfCopied, Source
  <2>2. \A t \in Thread : pc[t] \in CopiesHandlers => rp[t] # Fresh /\ rp[t] \in Promise
    BY <1>1 DEF CopiesHandlers, Copying, Inv, HeapClosed, TypeOK
  <2>. QED
    BY <1>1, <1>2, <2>1, <2>2 DEF Placed, Catches
<1>. QED
  BY <1>3, <1>4

\* A handler run by onThen or onError is due: the promise it is written on is at
\* the place before.
LEMMA LinkRunsNowPlaced ==
  ASSUME Inv, Unused, NEW D \in SUBSET Promise, Continuations(D),
         NEW pos \in Position, Placed(pos), LinkRunsNow
  PROVE  (\E at \in Position : Placed(at)') /\ Chain!Next
<1>. DEFINE j == built + 1
<1>1. /\ AtLink /\ tail' = Fresh /\ built' = j
      /\ UNCHANGED <<next, resultHandler, errorHandler, pc, locals, cur, arg, kind>>
      /\ Matches(result[tail], kind[j])
      /\ Fresh \in Promise \ heap /\ tail \in Promise /\ j \in Link /\ pc[Builder] = "idle"
  <2>1. /\ AtLink /\ tail' = Fresh /\ built' = j
        /\ UNCHANGED <<next, resultHandler, errorHandler, pc, locals, cur, arg, kind>>
        /\ Matches(result[tail], kind[j])
    BY DEF LinkRunsNow, locals
  <2>2. Fresh \in Promise \ heap /\ pc[Builder] = "idle"
    BY <2>1, FreshIsNew DEF AtLink
  <2>3. tail \in Promise /\ j \in Link
    BY <2>1, ConstantAssumption DEF AtLink, Link, Inv, TypeOK
  <2>. QED
    BY <2>1, <2>2, <2>3
<1>2. PICK at \in Position : Placed(at) /\ at[Fresh] = j
  <2>1. j \in 0 .. N /\ CanAllocate
    BY <1>1, ConstantAssumption DEF Link, AtLink
  <2>. QED
    BY <2>1, FreshPlaced
<1>3. \E i \in Chain!Index : Chain!Feeds(i, j)
  <2>1. j = at[tail] + 1
    BY <1>2 DEF Placed, Places
  <2>. QED
    BY <1>1, <1>2, <2>1, DueFeeds
<1>4. runs[j] = 0
  <2>1. ~ Written(j) /\ runs[j] \in Nat
    BY <1>1 DEF Written, Linking, Inv, TypeOK
  <2>. QED
    BY <1>1, <2>1 DEF Continuations, Handlers
<1>5. Places(at)' /\ Catches(at)'
  BY <1>1, <1>2, LinkMoves
<1>6. CASE ReturnsNil(j) /\ Allocate(Fresh, "pending") /\ UNCHANGED owned
  <2>1. /\ heap' = heap \cup {Fresh} /\ result' = [result EXCEPT ![Fresh] = "pending"]
        /\ result[Fresh] = "pending"
    BY <1>1, <1>6 DEF Allocate, Inv, Finality, TypeOK, Status, Settled
  <2>2. result' = result
    BY <1>1, <2>1 DEF Inv, TypeOK
  <2>3. NoPromise \in Nullable /\ result' \in [Promise -> Status]
    BY <2>2 DEF Nullable, Inv, TypeOK
  <2>4. \A q \in owned' : q \in owned \/ (q = NoPromise /\ NoPromise # NoPromise)
    BY <1>6
  <2>5. Origins(at)' /\ Results(at)' /\ Chain!Next
    BY <1>1, <1>2, <1>3, <1>4, <1>6, <2>1, <2>2, <2>3, <2>4, AnswerPlaced DEF ReturnsNil
  <2>. QED
    BY <1>5, <2>5 DEF Placed
<1>7. CASE ReturnsPromise(j, Fresh)
  <2>1. PICK s \in Status : /\ heap' = heap \cup {Fresh}
                            /\ result' = [result EXCEPT ![Fresh] = s]
                            /\ owned' = IF s = "pending" THEN owned \cup {Fresh} ELSE owned
    BY <1>7 DEF ReturnsPromise, Allocate
  <2>2. /\ result' \in [Promise -> Status] /\ Fresh \in Nullable
        /\ \A q \in Promise : q # Fresh => result'[q] = result[q]
    BY <1>1, <2>1 DEF Nullable, Inv, TypeOK
  <2>3. \A q \in owned' : q \in owned \/ (q = Fresh /\ Fresh # NoPromise)
    BY <1>1, <2>1, ConstantAssumption
  <2>4. Origins(at)' /\ Results(at)' /\ Chain!Next
    BY <1>1, <1>2, <1>3, <1>4, <1>7, <2>1, <2>2, <2>3, AnswerPlaced DEF ReturnsPromise
  <2>. QED
    BY <1>5, <2>4 DEF Placed
<1>. QED
  BY <1>6, <1>7 DEF LinkRunsNow

\* What a link allocates without running its handler is nobody's answer.
LEMMA NewObjectPlaced ==
  ASSUME Inv, NEW at \in Position, Placed(at), Fresh \in Promise \ heap,
         NEW s \in {"pending", "error"}, s = "error" => Errs(at[Fresh]),
         Allocate(Fresh, s), UNCHANGED <<kind, owned, runs, ret>>,
         \A t \in Thread : pc'[t] = "wait" =>
           pc[t] = "wait" /\ cur'[t] = cur[t] /\ arg'[t] = arg[t]
  PROVE  Origins(at)' /\ Results(at)' /\ Outcome' = Outcome
<1>1. /\ heap' = heap \cup {Fresh} /\ result'[Fresh] = s
      /\ \A p \in Promise : p # Fresh => result'[p] = result[p]
      /\ \A p \in heap : result'[p] = result[p]
  BY DEF Allocate, Inv, TypeOK
<1>2. Outcome' = Outcome
  BY <1>1, OutcomeKept DEF Placed
<1>3. Origins(at)'
  BY <1>1 DEF Placed, Origins, Own
<1>4. \A k : Errs(k)' <=> Errs(k)
  BY <1>2 DEF Errs
<1>5. Results(at)'
  <2>1. \A p \in Promise : result'[p] = "value" => Outcome[at[p]] = "value"
    BY <1>1 DEF Placed, Results
  <2>2. \A p \in Promise : result'[p] = "error" => Errs(at[p])
    BY <1>1 DEF Placed, Results
  <2>3. \A t \in Thread : pc'[t] = "wait" => cur'[t] \in owned \/ (arg'[t] = "error" /\ Errs(at[cur'[t]]))
    BY DEF Placed, Results
  <2>. QED
    BY <1>2, <1>4, <2>1, <2>2, <2>3 DEF Results
<1>. QED
  BY <1>2, <1>3, <1>5

LEMMA LinkPassedOverPlaced ==
  ASSUME Inv, Unused, NEW D \in SUBSET Promise, Continuations(D),
         NEW pos \in Position, Placed(pos), LinkPassedOver
  PROVE  (\E at \in Position : Placed(at)') /\ Outcome' = Outcome
<1>. DEFINE j == built + 1
            s == IF kind[j] = "then" THEN "error" ELSE "pending"
<1>1. /\ AtLink /\ tail' = Fresh /\ built' = j
      /\ UNCHANGED <<next, resultHandler, errorHandler, pc, locals, cur, arg, kind, owned, runs, ret>>
      /\ ~ Matches(result[tail], kind[j]) /\ Allocate(Fresh, s) /\ result[tail] # "pending"
      /\ CanAllocate /\ built < N
  BY DEF LinkPassedOver, AtLink, IsFulfilled, locals, hist
<1>2. Fresh \in Promise \ heap /\ tail \in Promise /\ j \in Link /\ built \in 0 .. N /\ j \in 0 .. N
  BY <1>1, FreshIsNew, ConstantAssumption DEF Link, Inv, TypeOK
<1>3. PICK at \in Position : Placed(at) /\ at[Fresh] = j
  BY <1>1, <1>2, FreshPlaced
<1>4. s = "error" => Errs(j)
  <2>. SUFFICES ASSUME kind[j] = "then" PROVE Errs(j)
    OBVIOUS
  <2>1. result[tail] = "error"
    BY <1>1, <1>2 DEF Matches, Inv, TypeOK, Status, Settled
  <2>2. PICK i \in 0 .. built : Outcome[i] = "error" /\ \A l \in i+1 .. built : kind[l] = "then"
    BY <1>2, <1>3, <2>1 DEF Placed, Places, Results, Errs
  <2>3. i \in 0 .. j /\ \A l \in i+1 .. j : l \in i+1 .. built \/ l = j
    BY <1>2
  <2>. QED
    BY <2>2, <2>3 DEF Errs
<1>5. Origins(at)' /\ Results(at)' /\ Outcome' = Outcome
  <2>1. s \in {"pending", "error"} /\ (s = "error" => Errs(at[Fresh]))
    BY <1>3, <1>4
  <2>. QED
    BY <1>1, <1>2, <1>3, <2>1, NewObjectPlaced
<1>6. Places(at)' /\ Catches(at)'
  BY <1>1, <1>3, LinkMoves
<1>. QED
  BY <1>5, <1>6 DEF Placed

\* The new object takes the place after tail, whose handler is stored ...
LEMMA LinkStoresHandlerPlaced ==
  ASSUME Inv, Unused, NEW D \in SUBSET Promise, Continuations(D),
         NEW pos \in Position, Placed(pos), LinkStoresHandler
  PROVE  (\E at \in Position : Placed(at)') /\ Outcome' = Outcome
<1>. DEFINE j == built + 1
<1>1. /\ UNCHANGED <<next, arg, rp, src, kind, built, tail, owned, runs, ret>>
      /\ resultHandler' = [resultHandler EXCEPT ![tail] = IF kind[j] = "then" THEN j ELSE NoLink]
      /\ errorHandler' = [errorHandler EXCEPT ![tail] = IF kind[j] = "error" THEN j ELSE NoLink]
      /\ Allocate(Fresh, "pending")
      /\ cur' = [cur EXCEPT ![Builder] = Fresh]
      /\ pc' = [pc EXCEPT ![Builder] = "linking"] /\ pc[Builder] = "idle"
      /\ CanAllocate /\ built < N
  BY DEF LinkStoresHandler, AtLink, Goto, hist
<1>2. /\ Fresh \in Promise \ heap /\ tail \in Promise /\ tail \in heap
      /\ j \in Link /\ built \in 0 .. N /\ j \in 0 .. N
  BY <1>1, FreshIsNew, ConstantAssumption DEF Link, Inv, TypeOK, HeapClosed
<1>3. PICK at \in Position : Placed(at) /\ at[Fresh] = j
  BY <1>1, <1>2, FreshPlaced
<1>4. /\ \A t \in Thread : t # Builder => pc'[t] = pc[t] /\ cur'[t] = cur[t]
      /\ pc'[Builder] = "linking" /\ cur'[Builder] = Fresh /\ Linking' /\ ~ Linking
  BY <1>1, BuilderIsThread DEF Linking, Inv, TypeOK
<1>5. Origins(at)' /\ Results(at)' /\ Outcome' = Outcome
  <2>1. \A t \in Thread : pc'[t] = "wait" =>
          pc[t] = "wait" /\ cur'[t] = cur[t] /\ arg'[t] = arg[t]
    BY <1>1, <1>4
  <2>. QED
    BY <1>1, <1>2, <1>3, <2>1, NewObjectPlaced
<1>6. at[tail] = built
  BY <1>3 DEF Placed, Places
<1>7. Places(at)'
  <2>1. ASSUME NEW p \in Promise, NEW i \in Link, resultHandler'[p] = i
        PROVE  i = at[p] + 1 /\ kind[i] = "then"
    BY <1>1, <1>2, <1>3, <1>6, <2>1 DEF Placed, Places, Link, NoLink, Inv, TypeOK
  <2>2. ASSUME NEW p \in Promise, NEW i \in Link, errorHandler'[p] = i
        PROVE  i = at[p] + 1 /\ kind[i] = "error"
    BY <1>1, <1>2, <1>3, <1>6, <2>2 DEF Placed, Places, Link, NoLink, Inv, TypeOK
  <2>. QED
    BY <1>1, <1>3, <1>4, <2>1, <2>2 DEF Placed, Places
<1>8. Catches(at)'
  <2>1. /\ \A p \in Promise : p # tail => errorHandler'[p] = errorHandler[p]
        /\ kind[j] = "error" => errorHandler'[tail] = j
    BY <1>1, <1>2 DEF Inv, TypeOK
  <2>2. \A p \in Promise : (HalfCopied(p)' <=> HalfCopied(p)) /\ (Needs(at, p)' <=> Needs(at, p))
    BY <1>1, <1>4 DEF HalfCopied, Needs
  <2>3. ASSUME NEW p \in Promise, Needs(at, p), ~ HalfCopied(p) PROVE errorHandler'[p] = at[p] + 1
    <3>1. CASE p = tail
      BY <1>6, <2>1, <2>3, <3>1 DEF Needs
    <3>2. CASE p # tail
      BY <1>3, <2>1, <2>3, <3>2 DEF Placed, Catches
    <3>. QED
      BY <3>1, <3>2
  <2>4. ASSUME NEW t \in Thread, pc'[t] \in CopiesHandlers
        PROVE  /\ pc'[t] = pc[t] /\ Source(t)' = Source(t) /\ rp[t] \in heap /\ rp[t] \in Promise
    BY <1>1, <1>4, <2>4 DEF CopiesHandlers, Source, Copying, Inv, HeapClosed, TypeOK
  <2>5. ASSUME NEW t \in Thread, pc[t] \in CopiesHandlers, pc[t] # "copyNext", Needs(at, rp[t])
        PROVE  Source(t) # NoPromise /\ errorHandler'[Source(t)] = at[rp[t]] + 1
    <3>1. /\ Source(t) # NoPromise /\ at[Source(t)] = at[rp[t]]
          /\ errorHandler[Source(t)] = at[rp[t]] + 1
      BY <1>3, <2>5 DEF Placed, Catches
    <3>2. Source(t) \in Promise
      BY <2>5, <3>1 DEF Continuations, Handing
    <3>3. CASE Source(t) = tail
      BY <1>6, <2>1, <2>5, <3>1, <3>3 DEF Needs
    <3>4. CASE Source(t) # tail
      BY <2>1, <3>1, <3>2, <3>4
    <3>. QED
      BY <3>1, <3>3, <3>4
  <2>. QED
    BY <1>1, <1>2, <1>3, <1>4, <2>1, <2>2, <2>3, <2>4, <2>5 DEF Placed, Catches
<1>. QED
  BY <1>5, <1>7, <1>8 DEF Placed

\* ... before it becomes the next of tail.
LEMMA LinkStoresNextPlaced ==
  ASSUME Inv, NEW D \in SUBSET Promise, Continuations(D),
         NEW pos \in Position, Placed(pos), LinkStoresNext
  PROVE  Placed(pos)' /\ Outcome' = Outcome
<1>. DEFINE n == cur[Builder]
<1>1. /\ UNCHANGED <<heap, result, resultHandler, errorHandler, cur, arg, rp, src, kind, owned,
                     runs, ret>>
      /\ next' = [next EXCEPT ![tail] = n] /\ tail' = n /\ built' = built + 1
      /\ pc' = [pc EXCEPT ![Builder] = "idle"] /\ Linking
  BY DEF LinkStoresNext, Goto, locals, hist, Linking
<1>2. /\ \A t \in Thread : t # Builder => pc'[t] = pc[t]
      /\ pc'[Builder] = "idle" /\ ~ Linking'
      /\ tail \in Promise /\ n \in Promise /\ result[tail] = "pending"
      /\ next'[tail] = n /\ \A p \in Promise : p # tail => next'[p] = next[p]
  <2>1. n \in Promise /\ result[tail] = "pending"
    BY <1>1, BuilderIsThread DEF Linking, Continuations, NewLink, Inv, TypeOK
  <2>. QED
    BY <1>1, <2>1, BuilderIsThread DEF Linking, Inv, TypeOK
<1>3. pos[tail] = built /\ pos[n] = built + 1
  BY <1>1 DEF Placed, Places
<1>4. Outcome' = Outcome
  BY <1>1, OutcomeKept DEF Placed
<1>5. Origins(pos)'
  BY <1>1 DEF Placed, Origins, Own
<1>6. Places(pos)'
  <2>1. \A p \in Promise : next'[p] # NoPromise => pos[next'[p]] = pos[p] + 1
    BY <1>2, <1>3 DEF Placed, Places
  <2>. QED
    BY <1>1, <1>2, <1>3, <2>1 DEF Placed, Places
<1>7. Results(pos)'
  <2>1. \A k : Errs(k)' <=> Errs(k)
    BY <1>1, <1>4 DEF Errs
  <2>2. \A t \in Thread : pc'[t] = "wait" => cur[t] \in owned \/ (arg[t] = "error" /\ Errs(pos[cur[t]]))
    BY <1>2 DEF Placed, Results
  <2>. QED
    BY <1>1, <1>4, <2>1, <2>2 DEF Placed, Results
<1>8. Catches(pos)'
  <2>1. \A p \in Promise : HalfCopied(p)' <=> HalfCopied(p)
    BY <1>1, <1>2 DEF HalfCopied, Linking
  <2>2. \A p \in Promise : p # tail => (Needs(pos, p)' <=> Needs(pos, p))
    BY <1>1, <1>2 DEF Needs
  <2>3. kind[pos[tail] + 1] = "error" => errorHandler[tail] = pos[tail] + 1
    BY <1>1, <1>3 DEF Placed, Catches
  <2>4. \A p \in Promise : Needs(pos, p)' /\ ~ HalfCopied(p)' => errorHandler[p] = pos[p] + 1
    BY <1>1, <2>1, <2>2, <2>3 DEF Placed, Catches, Needs
  <2>5. ASSUME NEW t \in Thread, pc'[t] \in CopiesHandlers
        PROVE  /\ pc'[t] = pc[t] /\ Source(t)' = Source(t) /\ rp[t] \in Promise
               /\ rp[t] # tail /\ rp[t] # n
               /\ (Needs(pos, rp[t])' <=> Needs(pos, rp[t]))
    <3>1. pc'[t] = pc[t] /\ pc[t] \in CopiesHandlers
      BY <1>2, <2>5 DEF CopiesHandlers
    <3>2. rp[t] \in Promise /\ rp[t] # tail /\ rp[t] # n
      BY <1>1, <3>1 DEF CopiesHandlers, Copying, Placed, Catches, Inv, TypeOK
    <3>3. cur[t] # tail /\ cur[t] \in Promise
      BY <1>2, <3>1 DEF CopiesHandlers, Copying, Inv, TypeOK, Finality
    <3>4. Source(t)' = Source(t)
      BY <1>1, <1>2, <3>1, <3>3 DEF Source
    <3>5. Needs(pos, rp[t])' <=> Needs(pos, rp[t])
      BY <1>1, <1>2, <3>2 DEF Needs
    <3>. QED
      BY <3>1, <3>2, <3>4, <3>5
  <2>. QED
    BY <1>1, <1>2, <2>4, <2>5 DEF Placed, Catches
<1>. QED
  BY <1>4, <1>5, <1>6, <1>7, <1>8 DEF Placed

LEMMA InitPlaced == Init => Chain!Init /\ \E pos \in Position : Placed(pos)
<1>. SUFFICES ASSUME Init PROVE Chain!Init /\ \E pos \in Position : Placed(pos)
  OBVIOUS
<1>. DEFINE pos == [p \in Promise |-> 0]
<1>1. 0 \in 0 .. N /\ \A i \in 0 .. N : i # 0 => i \in Link
  BY ConstantAssumption DEF Link
<1>2. PICK s \in Status : /\ result = [p \in Promise |-> IF p = Root THEN s ELSE "pending"]
                          /\ owned = IF s = "pending" THEN {Root} ELSE {}
  BY DEF Init
<1>3. result[Root] = s /\ Root \in Promise /\ NoPromise \notin Promise
  BY <1>2, ConstantAssumption
<1>4. Outcome = [i \in 0 .. N |-> IF i = 0 THEN s ELSE "idle"]
  BY <1>1, <1>3 DEF Init, Outcome
<1>5. Chain!Init
  BY <1>4 DEF Init, Chain!Init, Chain!Link, Link, Chain!Kinds, Chain!Index, Chain!Status,
              Chain!Settled, Status, Settled
<1>6. pos \in Position
  BY <1>1 DEF Position
<1>7. Origins(pos)
  BY <1>2, <1>3 DEF Init, Origins, Own
<1>8. Places(pos)
  BY <1>3, BuilderIsThread DEF Init, Places, Linking, Link, NoLink
<1>9. Results(pos)
  <2>1. s = "error" => Errs(0)
    BY <1>1, <1>4 DEF Errs
  <2>. QED
    BY <1>1, <1>2, <1>4, <2>1 DEF Init, Results
<1>10. Catches(pos)
  BY BuilderIsThread DEF Init, Catches, Linking, Needs, CopiesHandlers
<1>. QED
  BY <1>5, <1>6, <1>7, <1>8, <1>9, <1>10 DEF Placed

-----------------------------------------------------------------------------
\* The invariant under which every step implements one of the chain.
RefinementInv ==
  /\ Inv
  /\ \E D \in SUBSET Promise : Unused /\ Continuations(D)
  /\ \E pos \in Position : Placed(pos)

LEMMA NextPlaced ==
  ASSUME OneWorker, Inv, Unused, NEW D \in SUBSET Promise, Continuations(D),
         NEW pos \in Position, Placed(pos), [Next]_vars
  PROVE  (\E at \in Position : Placed(at)') /\ [Chain!Next]_(<<kind, Outcome>>)
<1>1. CASE UNCHANGED vars
  <2>1. UNCHANGED <<heap, result, next, resultHandler, errorHandler, pc, cur, arg, rp, src, kind,
                    built, tail, owned, runs, ret>>
    BY <1>1 DEF vars, fields, locals, app, hist
  <2>2. Outcome' = Outcome
    BY <2>1, OutcomeKept DEF Placed
  <2>3. /\ \A k : Errs(k)' <=> Errs(k)
        /\ \A p : HalfCopied(p)' <=> HalfCopied(p)
        /\ \A p : Needs(pos, p)' <=> Needs(pos, p)
        /\ \A t : Source(t)' = Source(t)
        /\ Linking' = Linking
    BY <2>1, <2>2 DEF Errs, HalfCopied, Needs, Source, Linking
  <2>4. Origins(pos)' /\ Places(pos)'
    BY <2>1, <2>3 DEF Placed, Origins, Own, Places
  <2>5. Results(pos)'
    BY <2>1, <2>2, <2>3 DEF Placed, Results
  <2>6. Catches(pos)'
    BY <2>1, <2>3 DEF Placed, Catches
  <2>. QED
    BY <2>1, <2>2, <2>4, <2>5, <2>6 DEF Placed
<1>2. ASSUME NEW t \in Thread, StartFulfil(t) \/ Work(t)
      PROVE  (\E at \in Position : Placed(at)') /\ [Chain!Next]_(<<kind, Outcome>>)
  <2>1. StartFulfil(t) \/ Work(t) => kind' = kind
    BY DEF StartFulfil, Work, Fulfil, FulfilAgain, CheckNext, Signal, Return, CheckProcessed,
           RunHandler, PassErrorOn, NothingToRun, CopyNext, CopyResultHandler, CopyErrorHandler,
           CheckReturned, app
  <2>2. CASE Fulfil(t)
    BY <2>2, FulfilPlaced
  <2>3. CASE PassErrorOn(t)
    BY <1>2, <2>1, <2>3, PassErrorOnPlaced
  <2>4. CASE RunHandler(t)
    BY <2>4, RunHandlerPlaced
  <2>5. CASE CopyNext(t) \/ CopyResultHandler(t) \/ CopyErrorHandler(t)
    BY <1>2, <2>1, <2>5, CopyPlaced
  <2>6. CASE FulfilAgain(t) \/ CheckNext(t) \/ Signal(t) \/ Return(t) \/ CheckProcessed(t)
               \/ NothingToRun(t) \/ CheckReturned(t) \/ StartFulfil(t)
    BY <1>2, <2>1, <2>6, QuietWorkPlaced
  <2>. QED
    BY <1>2, <2>2, <2>3, <2>4, <2>5, <2>6 DEF Work
<1>3. ASSUME Write
      PROVE  (\E at \in Position : Placed(at)') /\ [Chain!Next]_(<<kind, Outcome>>)
  <2>1. kind' = kind
    BY <1>3 DEF Write, LinkRunsNow, LinkPassedOver, LinkStoresHandler, LinkStoresNext
  <2>2. CASE LinkRunsNow
    BY <2>2, LinkRunsNowPlaced
  <2>3. CASE LinkPassedOver
    BY <2>1, <2>3, LinkPassedOverPlaced
  <2>4. CASE LinkStoresHandler
    BY <2>1, <2>4, LinkStoresHandlerPlaced
  <2>5. CASE LinkStoresNext
    BY <2>1, <2>5, LinkStoresNextPlaced
  <2>. QED
    BY <1>3, <2>2, <2>3, <2>4, <2>5 DEF Write
<1>. QED
  BY <1>1, <1>2, <1>3 DEF Next, Terminated

(***************************************************************************)
(* With one fulfilling thread, IRPromise implements PromiseChain: handlers *)
(* run in the order, and for the results, that the chain promises, each    *)
(* once, for any number of links, whatever the handlers return and however *)
(* often the application fulfils a promise, and while another thread is    *)
(* still writing the chain.                                                *)
(***************************************************************************)
THEOREM ChainRefined == ASSUME OneWorker PROVE Spec => ImplementsChain
<1>1. Init => Chain!Init /\ RefinementInv
  BY InitInv, InitHands, InitPlaced DEF RefinementInv
<1>2. RefinementInv /\ [Next]_vars => RefinementInv' /\ [Chain!Next]_(<<kind, Outcome>>)
  <2>. SUFFICES ASSUME RefinementInv, [Next]_vars
                PROVE  RefinementInv' /\ [Chain!Next]_(<<kind, Outcome>>)
    OBVIOUS
  <2>1. Inv'
    BY NextKeepsTypes, NextKeepsHeap, NextKeepsLocks, NextKeepsFinality DEF RefinementInv, Inv
  <2>2. PICK D \in SUBSET Promise : Unused /\ Continuations(D)
    BY DEF RefinementInv
  <2>3. PICK pos \in Position : Placed(pos)
    BY DEF RefinementInv
  <2>4. \E E \in SUBSET Promise : Unused' /\ Continuations(E)'
    BY <2>2, NextHands DEF RefinementInv
  <2>5. (\E at \in Position : Placed(at)') /\ [Chain!Next]_(<<kind, Outcome>>)
    BY <2>2, <2>3, NextPlaced DEF RefinementInv
  <2>6. (\E at \in Position : Placed(at))'
    BY <2>5 DEF Position
  <2>. QED
    BY <2>1, <2>4, <2>5, <2>6 DEF RefinementInv
<1>. QED
  BY <1>1, <1>2, PTL DEF Spec, ImplementsChain, Chain!Spec, Chain!cvars
=============================================================================
