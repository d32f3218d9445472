-------------------------- MODULE PromiseChainProofs --------------------------
(***************************************************************************)
(* The promise chain, for every number of links and every way of writing   *)
(* them: the handlers that have run form one path, and at most one promise *)
(* is outstanding.                                                         *)
(*                                                                         *)
(* OnePath is inductive on top of the types.  The reason is LEMMA          *)
(* FeedsOneLink: a settled link feeds at most one later link, so a handler *)
(* that becomes due can neither fork the path nor fall inside it.          *)
(***************************************************************************)
EXTENDS PromiseChain, TLAPS

\* Whatever a link settled to, at most one later link is due for it.
LEMMA FeedsOneLink ==
  ASSUME NEW i \in Index, NEW j \in Link, NEW k \in Link,
         Feeds(i, j), Feeds(i, k)
  PROVE  j = k
<1>1. CASE outcome[i] = "value"
  BY <1>1 DEF Feeds
<1>2. CASE outcome[i] = "error"
  <2>1. kind[j] = "error" /\ kind[k] = "error" /\ i < j /\ i < k
    BY <1>2 DEF Feeds
  <2>2. \A l \in i+1 .. j-1 : kind[l] = "then"
    BY <1>2 DEF Feeds
  <2>3. \A l \in i+1 .. k-1 : kind[l] = "then"
    BY <1>2 DEF Feeds
  <2>4. ~ (j < k) /\ ~ (k < j)
    BY <2>1, <2>2, <2>3, NAssumption DEF Index, Link
  <2>. QED
    BY <2>4, NAssumption DEF Link
<1>. QED
  BY <1>1, <1>2 DEF Feeds

LEMMA TypeInvariant == Spec => []TypeOK
<1>1. Init => TypeOK
  BY DEF Init, TypeOK, Outcomes, Status, Settled, Kinds
<1>2. TypeOK /\ [Next]_cvars => TypeOK'
  <2>. SUFFICES ASSUME TypeOK, [Next]_cvars PROVE TypeOK'
    OBVIOUS
  <2>1. ASSUME NEW i \in Index, Settle(i) PROVE TypeOK'
    BY <2>1 DEF Settle, TypeOK, Outcomes, Status, Settled
  <2>2. ASSUME NEW j \in Link, Invoke(j) PROVE TypeOK'
    BY <2>2 DEF Invoke, TypeOK, Outcomes, Status, Settled
  <2>3. CASE UNCHANGED cvars
    BY <2>3 DEF cvars, TypeOK
  <2>. QED
    BY <2>1, <2>2, <2>3 DEF Next
<1>. QED
  BY <1>1, <1>2, PTL DEF Spec

-----------------------------------------------------------------------------
\* What the application settles stays where it was on the path.
LEMMA SettleKeepsPath ==
  ASSUME TypeOK, OnePath, NEW s \in Index, Settle(s)
  PROVE  OnePath'
<1>. SUFFICES ASSUME NEW i \in Index, NEW k \in Link,
                     Invoked(i)', Invoked(k)', i < k
              PROVE  \E j \in i+1 .. k : Invoked(j)' /\ Feeds(i, j)'
  BY DEF OnePath
<1>1. /\ kind' = kind
      /\ outcome[s] = "pending" /\ outcome'[s] \in {"value", "error"}
      /\ \A l \in Index : l # s => outcome'[l] = outcome[l]
  BY DEF Settle, TypeOK, Settled
<1>2. \A l \in Index : Invoked(l)' <=> Invoked(l)
  BY <1>1 DEF Invoked
<1>3. k \in Index
  BY NAssumption DEF Index, Link
<1>4. PICK j \in i+1 .. k : Invoked(j) /\ Feeds(i, j)
  BY <1>2, <1>3 DEF OnePath
<1>5. j \in Index
  BY <1>4, NAssumption DEF Index, Link
<1>6. i # s
  BY <1>1, <1>4 DEF Feeds
<1>7. Feeds(i, j)'
  BY <1>1, <1>4, <1>6 DEF Feeds
<1>. QED
  BY <1>2, <1>4, <1>5, <1>7

\* The handler that runs is the next one on the path.
LEMMA InvokeKeepsPath ==
  ASSUME TypeOK, OnePath, NEW n \in Link, Invoke(n)
  PROVE  OnePath'
<1>. SUFFICES ASSUME NEW i \in Index, NEW k \in Link,
                     Invoked(i)', Invoked(k)', i < k
              PROVE  \E j \in i+1 .. k : Invoked(j)' /\ Feeds(i, j)'
  BY DEF OnePath
<1>. n \in Index /\ k \in Index
  BY NAssumption DEF Index, Link
<1>1. /\ kind' = kind
      /\ outcome[n] = "idle" /\ outcome'[n] # "idle"
      /\ \A l \in Index : l # n => outcome'[l] = outcome[l]
  BY DEF Invoke, TypeOK, Status, Settled
<1>2. \A l \in Index : Invoked(l)' <=> (Invoked(l) \/ l = n)
  BY <1>1 DEF Invoked
<1>3. PICK f \in Index : Feeds(f, n)
  BY DEF Invoke
<1>4. Invoked(f) /\ f < n
  BY <1>3 DEF Feeds, Invoked
\* What fed a link that had run before still feeds it.
<1>5. ASSUME NEW a \in Index, NEW b \in Link, Feeds(a, b)
      PROVE  Feeds(a, b)'
  <2>1. outcome[a] # "idle"
    BY <1>5 DEF Feeds
  <2>. QED
    BY <1>1, <1>5, <2>1 DEF Feeds
<1>6. CASE i # n /\ k # n
  <2>1. Invoked(i) /\ Invoked(k)
    BY <1>2, <1>6
  <2>2. PICK j \in i+1 .. k : Invoked(j) /\ Feeds(i, j)
    BY <2>1 DEF OnePath
  <2>3. j \in Link /\ j \in Index
    BY <2>2, NAssumption DEF Index, Link
  <2>. QED
    BY <1>2, <1>5, <2>2, <2>3
<1>7. CASE k = n
  <2>1. i # n /\ Invoked(i)
    BY <1>2, <1>7, NAssumption DEF Index, Link
  <2>2. CASE i = f
    <3>1. n \in i+1 .. k
      BY <1>4, <1>7, <2>2, NAssumption DEF Index, Link
    <3>. QED
      BY <1>2, <1>3, <1>5, <2>2, <3>1
  <2>3. CASE i < f
    <3>1. f \in Link
      BY <2>3, NAssumption DEF Index, Link
    <3>2. PICK j \in i+1 .. f : Invoked(j) /\ Feeds(i, j)
      BY <1>4, <2>1, <2>3, <3>1 DEF OnePath
    <3>3. j \in Link /\ j \in Index /\ j \in i+1 .. k
      BY <1>4, <1>7, <3>2, NAssumption DEF Index, Link
    <3>. QED
      BY <1>2, <1>5, <3>2, <3>3
  \* A handler that ran between f and n would be the one f feeds.
  <2>4. CASE f < i
    <3>1. i \in Link
      BY <2>4, NAssumption DEF Index, Link
    <3>2. PICK j \in f+1 .. i : Invoked(j) /\ Feeds(f, j)
      BY <1>4, <2>1, <2>4, <3>1 DEF OnePath
    <3>3. j \in Link
      BY <3>2, NAssumption DEF Index, Link
    <3>4. j = n
      BY <1>3, <3>2, <3>3, FeedsOneLink
    <3>. QED
      BY <1>1, <3>2, <3>4 DEF Invoked
  <2>. QED
    BY <2>2, <2>3, <2>4, NAssumption DEF Index, Link
\* No handler after n has run: f would have fed it, or one before it.
<1>8. CASE i = n
  <2>1. k # n /\ Invoked(k) /\ f < k
    BY <1>2, <1>4, <1>8, NAssumption DEF Index, Link
  <2>2. PICK j \in f+1 .. k : Invoked(j) /\ Feeds(f, j)
    BY <1>4, <2>1 DEF OnePath
  <2>3. j \in Link
    BY <2>2, NAssumption DEF Index, Link
  <2>4. j = n
    BY <1>3, <2>2, <2>3, FeedsOneLink
  <2>. QED
    BY <1>1, <2>2, <2>4 DEF Invoked
<1>. QED
  BY <1>6, <1>7, <1>8

\* The handlers that have run form one path from the root.
THEOREM PathIsOne == Spec => []OnePath
<1>1. Init => OnePath
  <2>. SUFFICES ASSUME Init, NEW k \in Link PROVE ~ Invoked(k)
    BY DEF OnePath
  <2>. QED
    BY NAssumption DEF Init, Invoked, Link, Index
<1>2. TypeOK /\ OnePath /\ [Next]_cvars => OnePath'
  <2>. SUFFICES ASSUME TypeOK, OnePath, [Next]_cvars PROVE OnePath'
    OBVIOUS
  <2>1. ASSUME NEW i \in Index, Settle(i) PROVE OnePath'
    BY <2>1, SettleKeepsPath
  <2>2. ASSUME NEW j \in Link, Invoke(j) PROVE OnePath'
    BY <2>2, InvokeKeepsPath
  <2>3. CASE UNCHANGED cvars
    BY <2>3 DEF cvars, OnePath, Invoked, Feeds
  <2>. QED
    BY <2>1, <2>2, <2>3 DEF Next
<1>. QED
  BY <1>1, <1>2, TypeInvariant, PTL DEF Spec

\* A link with a later one on the path is settled, hence not outstanding.
LEMMA PathHasOneEnd == TypeOK /\ OnePath => OneInFlight
<1>. SUFFICES ASSUME OnePath, NEW i \in Index, NEW k \in Index,
                     outcome[i] = "pending", outcome[k] = "pending", i < k
              PROVE  FALSE
  BY NAssumption DEF OneInFlight, Index
<1>1. k \in Link
  BY NAssumption DEF Index, Link
<1>2. PICK j \in i+1 .. k : Feeds(i, j)
  BY <1>1 DEF OnePath, Invoked
<1>. QED
  BY <1>2 DEF Feeds

\* At most one promise of a chain is outstanding.
THEOREM OneOutstanding == Spec => []OneInFlight
  BY TypeInvariant, PathIsOne, PathHasOneEnd, PTL

\* A handler that is skipped never runs afterwards.
THEOREM SkippedForGood == Spec => NoSkippedHandlerRuns
<1>1. TypeOK /\ OnePath /\ OnePath' /\ [Next]_cvars =>
        [\A j \in Link : outcome[j] = "idle" /\ outcome'[j] # "idle" =>
           \A k \in j+1 .. N : outcome[k] = "idle"]_cvars
  <2>. SUFFICES ASSUME TypeOK, OnePath, Next,
                       NEW j \in Link, outcome[j] = "idle", outcome'[j] # "idle",
                       NEW k \in j+1 .. N, Invoked(k)
                PROVE  FALSE
    BY DEF Invoked
  <2>1. j \in Index /\ k \in Link /\ j < k
    BY NAssumption DEF Index, Link
  <2>2. Invoke(j)
    BY <2>1 DEF Next, Settle, Invoke, TypeOK
  <2>3. PICK f \in Index : Feeds(f, j)
    BY <2>2 DEF Invoke
  <2>4. Invoked(f) /\ f < k
    BY <2>1, <2>3 DEF Feeds, Invoked, Index, Link
  <2>5. PICK l \in f+1 .. k : Invoked(l) /\ Feeds(f, l)
    BY <2>1, <2>4 DEF OnePath
  <2>6. l \in Link
    BY <2>1, <2>5, NAssumption DEF Index, Link
  <2>7. l = j
    BY <2>3, <2>5, <2>6, FeedsOneLink
  <2>. QED
    BY <2>5, <2>7 DEF Invoked
<1>. QED
  BY <1>1, TypeInvariant, PathIsOne, PTL DEF Spec, NoSkippedHandlerRuns
=============================================================================
