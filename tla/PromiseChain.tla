----------------------------- MODULE PromiseChain -----------------------------
(***************************************************************************)
(* What a chain of promises owes the application that wrote it.            *)
(*                                                                         *)
(*   root.onThen(h1).onError(h2).onThen(h3) ...                            *)
(*                                                                         *)
(* The chain has N links, numbered from the root; each carries one         *)
(* handler, registered with onThen or with onError.  A handler returns a   *)
(* promise (or nil), and what that promise settles to decides which later  *)
(* handler runs next: a value goes to the very next link if that link is a *)
(* "then", an error skips "then" links up to the first "error" link.       *)
(*                                                                         *)
(* Nothing is said here of locks, threads or of the objects that carry the *)
(* handlers: IRPromise.tla is the implementation, and refines this module. *)
(***************************************************************************)
EXTENDS Integers, FiniteSets

CONSTANT N          \* the number of links of the chain

ASSUME NAssumption == N \in Nat

Link  == 1 .. N
Index == 0 .. N     \* 0 is the root of the chain

Kinds    == {"then", "error"}
Settled  == {"value", "error"}
Status   == {"pending"} \cup Settled         \* what a promise can be
Outcomes == Status \cup {"idle", "nil"}      \* "idle": the handler has not run

VARIABLES
  kind,      \* kind[j]: how the handler of link j was registered
  outcome    \* outcome[j]: what the promise returned by handler j is; 0: the root

cvars == <<kind, outcome>>

Invoked(j) == outcome[j] # "idle"

MutantFeedsBeyond(i, j) ==      \* an error also reaches the handlers after
  /\ i < j                      \* the one that catches it
  /\ \/ outcome[i] = "value" /\ j = i + 1 /\ kind[j] = "then"
     \/ outcome[i] = "error" /\ kind[j] = "error"

MutantFeedsEarly(i, j) ==       \* a handler runs before its result is there
  /\ j = i + 1
  /\ outcome[i] \in {"pending", "value"}
  /\ kind[j] = "then"

\* What link i settled to is what link j must handle.  (The two definitions
\* above are slips in this one; no specification uses them.)
Feeds(i, j) ==
  /\ i < j
  /\ \/ /\ outcome[i] = "value"
        /\ j = i + 1
        /\ kind[j] = "then"
     \/ /\ outcome[i] = "error"
        /\ kind[j] = "error"
        /\ \A k \in i+1 .. j-1 : kind[k] = "then"

Init ==
  /\ kind \in [Link -> Kinds]
  /\ \E s \in Status : outcome = [j \in Index |-> IF j = 0 THEN s ELSE "idle"]

\* The application fulfils a promise it still owes.
Settle(i) ==
  /\ outcome[i] = "pending"
  /\ \E s \in Settled : outcome' = [outcome EXCEPT ![i] = s]
  /\ UNCHANGED kind

\* Handler j runs, once, and returns nil or a promise in any state.
Invoke(j) ==
  /\ outcome[j] = "idle"
  /\ \E i \in Index : Feeds(i, j)
  /\ \E s \in Status \cup {"nil"} : outcome' = [outcome EXCEPT ![j] = s]
  /\ UNCHANGED kind

Next == (\E i \in Index : Settle(i)) \/ (\E j \in Link : Invoke(j))

\* A settled promise has its due handler run, because the library calls it.
\* Nothing makes the application settle what it owes.
Fairness == \A j \in Link : WF_cvars(Invoke(j))

Spec == Init /\ [][Next]_cvars

FairSpec == Spec /\ Fairness

-----------------------------------------------------------------------------
TypeOK ==
  /\ kind \in [Link -> Kinds]
  /\ outcome \in [Index -> Outcomes]

(***************************************************************************)
(* The handlers that have run form one path from the root: whenever a      *)
(* later handler has run, an earlier one is settled and the very link it   *)
(* feeds has run too.                                                      *)
(***************************************************************************)
OnePath ==
  \A i \in Index, k \in Link :
    Invoked(i) /\ Invoked(k) /\ i < k =>
      \E j \in i+1 .. k : Invoked(j) /\ Feeds(i, j)

(***************************************************************************)
(* However many links the chain has, at most one promise of it is          *)
(* outstanding: a chain never has two branches in flight, which is what    *)
(* lets an application treat it as a sequential program.                   *)
(***************************************************************************)
OneInFlight ==
  \A i, k \in Index : outcome[i] = "pending" /\ outcome[k] = "pending" => i = k

(***************************************************************************)
(* A handler does not run after a later one has run: an error that jumped  *)
(* over "then" links never lets them run afterwards.                       *)
(***************************************************************************)
NoSkippedHandlerRuns ==
  [][\A j \in Link : outcome[j] = "idle" /\ outcome'[j] # "idle" =>
       \A k \in j+1 .. N : outcome[k] = "idle"]_cvars

\* A settled promise eventually has the handler it feeds run.
FedHandlerRuns ==
  \A i \in Index, j \in Link : Feeds(i, j) ~> Invoked(j)
=============================================================================
