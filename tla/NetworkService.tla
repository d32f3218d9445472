----------------------------- MODULE NetworkService -----------------------------
(***************************************************************************)
(* IRNetworkService.m: the calls an application makes to a peer.  Four of  *)
(* its methods answer with a promise, two call a block for every event of  *)
(* a stream.  Whatever gRPC delivers it delivers on the serial response    *)
(* queue, one event at a time, so that a delivery and all of its handler   *)
(* is one step.                                                            *)
(*                                                                         *)
(* gRPC is external: a unary call is answered once, by a message or an     *)
(* error; a stream delivers messages and one last event; a cancelled one   *)
(* drops its messages and delivers the last event with an error.           *)
(***************************************************************************)
EXTENDS QueryResponse

CONSTANTS
  MaxCalls,       \* bound on the calls an application makes
  MaxEvents,      \* bound on the messages of a stream
  Transactions,   \* the transactions it sends
  Batches,        \* the lists of transactions it sends together
  Queries,        \* the requests of queries and of commits
  Unsendable,     \* those of another class, or that do not transform or hash
  Pending         \* the result of a promise that has not settled

Call == 1 .. MaxCalls

ASSUME ServiceAssumption ==
  /\ MaxCalls \in Nat /\ MaxEvents \in Nat
  /\ Batches \subseteq Seq(Transactions)
  /\ Nil \notin Answers \cup Commits

VARIABLES
  kind,     \* the method called
  asked,    \* history: the transactions it was called with
  sent,     \* the transactions the request holds
  call,     \* the gRPC call
  result,   \* what the promise settled to
  fulfils,  \* the calls of fulfillWithResult on it
  events,   \* what the block of a stream was called with
  reply,    \* history: the message a query was answered with, or Nil
  unheard,  \* history: the commit the block of a stream was not called for, or Nil
  service   \* whether the network service, referenced weakly, still exists

vars == <<kind, asked, sent, call, result, fulfils, events, reply, unheard, service>>

Sends      == {"transaction", "batch"}
Promises   == Sends \cup {"query", "fetch"}
Streams    == {"status", "commits"}
CallStates == {"none", "open", "cancelled", "closed"}

\* "local" is an error the service finds before it sends, "rpc" one of gRPC.
Errors == {"local", "rpc", "parsing"}

Hashes(transactions) == [hashes |-> transactions]
Response(value)      == [response |-> value]
Error(e)             == [error |-> e]

Event(value, done, e) == [response |-> value, done |-> done, error |-> e]

Settled ==
  [error : Errors] \cup [hashes : Seq(Transactions)]
    \cup [response : QueryObject] \cup [response : StatusObject]

Events ==
  [response : {Nil} \cup StatusObject \cup CommitObject, done : BOOLEAN, error : Errors \cup {Nil}]

ASSUME ResultAssumption ==
  /\ Pending # Nil
  /\ Pending \notin Settled /\ Nil \notin Settled
  /\ Nil \notin Errors

Init ==
  /\ kind = [c \in Call |-> "none"]
  /\ asked = [c \in Call |-> << >>]
  /\ sent = [c \in Call |-> << >>]
  /\ call = [c \in Call |-> "none"]
  /\ result = [c \in Call |-> Pending]
  /\ fulfils = [c \in Call |-> 0]
  /\ events = [c \in Call |-> << >>]
  /\ reply = [c \in Call |-> Nil]
  /\ unheard = [c \in Call |-> Nil]
  /\ service = TRUE

-----------------------------------------------------------------------------
(* What the steps are made of.  A definition named Mutant... is a slip in    *)
(* the one that follows it; no specification uses it.                        *)

Begin(c, k) ==
  /\ service
  /\ kind[c] = "none" /\ \A d \in 1 .. c - 1 : kind[d] # "none"
  /\ kind' = [kind EXCEPT ![c] = k]

Open(c)  == call' = [call EXCEPT ![c] = "open"]
Close(c) == call' = [call EXCEPT ![c] = "closed"]

\* fulfillWithResult: the first result stays.
Fulfil(c, r) ==
  /\ fulfils' = [fulfils EXCEPT ![c] = @ + 1]
  /\ result' = IF fulfils[c] = 0 THEN [result EXCEPT ![c] = r] ELSE result

Tell(c, event) == events' = [events EXCEPT ![c] = Append(@, event)]

NotFulfilled == UNCHANGED <<result, fulfils>>
NotTold      == UNCHANGED events

-----------------------------------------------------------------------------
(* The methods                                                               *)

Sendable(transactions) == \A i \in DOMAIN transactions : transactions[i] \notin Unsendable

\* executeTransaction: and executeBatchTransactions:, which turn every
\* transaction into its message and its hash before they send any ...
Submit(c, k, transactions) ==
  /\ Begin(c, k)
  /\ Sendable(transactions)
  /\ asked' = [asked EXCEPT ![c] = transactions]
  /\ sent' = [sent EXCEPT ![c] = transactions]
  /\ Open(c)
  /\ NotFulfilled /\ NotTold /\ UNCHANGED <<reply, unheard, service>>

\* ... and send none after the first that fails.
MutantSubmitFails(c, k, transactions) ==
  /\ Begin(c, k)
  /\ ~ Sendable(transactions)
  /\ asked' = [asked EXCEPT ![c] = transactions]
  /\ sent' = [sent EXCEPT ![c] = SelectSeq(transactions, LAMBDA t : t \notin Unsendable)]
  /\ Open(c)
  /\ NotFulfilled /\ NotTold /\ UNCHANGED <<reply, unheard, service>>
MutantSubmitGoesOn(c, k, transactions) ==
  /\ Begin(c, k)
  /\ ~ Sendable(transactions)
  /\ asked' = [asked EXCEPT ![c] = transactions]
  /\ Fulfil(c, Error("local"))
  /\ Open(c)
  /\ NotTold /\ UNCHANGED <<sent, reply, unheard, service>>
SubmitFails(c, k, transactions) ==
  /\ Begin(c, k)
  /\ ~ Sendable(transactions)
  /\ asked' = [asked EXCEPT ![c] = transactions]
  /\ Fulfil(c, Error("local"))
  /\ NotTold /\ UNCHANGED <<sent, call, reply, unheard, service>>

\* executeQueryRequest: and streamCommits:withBlock:
Request(c, k, request) ==
  /\ Begin(c, k)
  /\ request \notin Unsendable
  /\ Open(c)
  /\ NotFulfilled /\ NotTold /\ UNCHANGED <<asked, sent, reply, unheard, service>>

QueryFails(c, request) ==
  /\ Begin(c, "query")
  /\ request \in Unsendable
  /\ Fulfil(c, Error("local"))
  /\ NotTold /\ UNCHANGED <<asked, sent, call, reply, unheard, service>>

CommitsFail(c, request) ==
  /\ Begin(c, "commits")
  /\ request \in Unsendable
  /\ Tell(c, Event(Nil, TRUE, "local"))
  /\ NotFulfilled /\ UNCHANGED <<asked, sent, call, reply, unheard, service>>

\* fetchTransactionStatus: and streamTransactionStatus:withBlock:
AskStatus(c, k) ==
  /\ Begin(c, k)
  /\ Open(c)
  /\ NotFulfilled /\ NotTold /\ UNCHANGED <<asked, sent, reply, unheard, service>>

-----------------------------------------------------------------------------
(* The handlers of the unary calls                                           *)

Answered(c, k) ==
  /\ kind[c] \in k /\ call[c] = "open"
  /\ Close(c)
  /\ NotTold /\ UNCHANGED <<kind, asked, sent, unheard, service>>

Taken(c) == Answered(c, Sends) /\ Fulfil(c, Hashes(sent[c])) /\ UNCHANGED reply

\* A query the peer answers.
QueryAnswered(c, m) ==
  LET read == QueryResponseOf(m) IN
  /\ Answered(c, {"query"})
  /\ reply' = [reply EXCEPT ![c] = m]
  /\ ~ read.raises
  /\ Fulfil(c, IF read.value # Nil THEN Response(read.value)
               ELSE IF read.error THEN Error("parsing") ELSE Nil)

\* An exception leaves the handler before it fulfils the promise.
QueryRaises(c, m) ==
  /\ Answered(c, {"query"})
  /\ reply' = [reply EXCEPT ![c] = m]
  /\ QueryResponseOf(m).raises
  /\ NotFulfilled

\* fetchTransactionStatus: passes through the service: once that is released,
\* the handler does nothing and the promise stays as it is.
Fetched(c, m) ==
  LET read == StatusResponseOf(m) IN
  /\ service
  /\ Answered(c, {"fetch"})
  /\ Fulfil(c, IF read.value # Nil THEN Response(read.value) ELSE Error("parsing"))
  /\ UNCHANGED reply

MutantFails(c) == Answered(c, Promises) /\ NotFulfilled /\ UNCHANGED reply
Fails(c) ==
  /\ Answered(c, Promises)
  /\ kind[c] = "fetch" => service
  /\ Fulfil(c, Error("rpc"))
  /\ UNCHANGED reply

FetchIgnored(c) ==
  /\ ~ service
  /\ Answered(c, {"fetch"})
  /\ NotFulfilled /\ UNCHANGED reply

AnyAnswer(c) ==
  \/ Taken(c)
  \/ \E m \in Answers : QueryAnswered(c, m) \/ QueryRaises(c, m)
  \/ \E m \in Statuses : Fetched(c, m)
  \/ Fails(c)
  \/ FetchIgnored(c)

-----------------------------------------------------------------------------
(* The event handlers of the streams                                         *)

\* The block hears of an event of a status stream only while there is a
\* service; streamCommits:withBlock: calls it in any case.
Heard(c) == kind[c] = "commits" \/ service

Outcome(read, done) == Event(read.value, done, IF read.error THEN "parsing" ELSE Nil)

Report(c, k, read) ==
  /\ kind[c] = k /\ call[c] = "open"
  /\ Len(events[c]) < MaxEvents
  /\ ~ read.raises
  /\ IF Heard(c) THEN Tell(c, Outcome(read, FALSE)) ELSE NotTold
  /\ NotFulfilled /\ UNCHANGED <<kind, asked, sent, call, reply, unheard, service>>

\* An exception leaves the handler before it calls the block.
CommitRaises(c, m) ==
  /\ kind[c] = "commits" /\ call[c] = "open"
  /\ BlockQueryResponseOf(m).raises
  /\ unheard' = [unheard EXCEPT ![c] = m]
  /\ NotTold /\ NotFulfilled /\ UNCHANGED <<kind, asked, sent, call, reply, service>>

\* The last event: an error, or the end of what the peer had to say.
Ends(c, e) ==
  /\ kind[c] \in Streams
  /\ call[c] = "open" \/ (call[c] = "cancelled" /\ e # Nil)
  /\ Close(c)
  /\ IF Heard(c) THEN Tell(c, Event(Nil, TRUE, e)) ELSE NotTold
  /\ NotFulfilled /\ UNCHANGED <<kind, asked, sent, reply, unheard, service>>

\* The application cancels a stream, on any thread.
Cancel(c) ==
  /\ kind[c] \in Streams /\ call[c] = "open"
  /\ call' = [call EXCEPT ![c] = "cancelled"]
  /\ NotFulfilled /\ NotTold /\ UNCHANGED <<kind, asked, sent, reply, unheard, service>>

\* The application lets go of the service; its calls stay.
ReleaseService ==
  /\ service
  /\ service' = FALSE
  /\ UNCHANGED <<kind, asked, sent, call, result, fulfils, events, reply, unheard>>

Next ==
  \/ \E c \in Call :
       \/ \E t \in Transactions :
            Submit(c, "transaction", <<t>>) \/ SubmitFails(c, "transaction", <<t>>)
       \/ \E b \in Batches : Submit(c, "batch", b) \/ SubmitFails(c, "batch", b)
       \/ \E q \in Queries :
            Request(c, "query", q) \/ QueryFails(c, q) \/ Request(c, "commits", q) \/ CommitsFail(c, q)
       \/ AskStatus(c, "fetch") \/ AskStatus(c, "status")
       \/ AnyAnswer(c)
       \/ \E m \in Statuses : Report(c, "status", StatusResponseOf(m))
       \/ \E m \in Commits :
            Report(c, "commits", BlockQueryResponseOf(m)) \/ CommitRaises(c, m)
       \/ \E e \in {Nil, "rpc"} : Ends(c, e)
       \/ Cancel(c)
  \/ ReleaseService

Spec == Init /\ [][Next]_vars

\* Of gRPC: it answers a unary call, if only with an error, and ends a call
\* that was cancelled.  A stream that nobody cancels may go on for ever.
Fairness ==
  \A c \in Call : WF_vars(AnyAnswer(c)) /\ WF_vars(call[c] = "cancelled" /\ Ends(c, "rpc"))

FairSpec == Spec /\ Fairness

-----------------------------------------------------------------------------
(* Properties                                                                *)

TypeOK ==
  /\ kind \in [Call -> {"none"} \cup Promises \cup Streams]
  /\ asked \in [Call -> Seq(Transactions)]
  /\ sent \in [Call -> Seq(Transactions)]
  /\ call \in [Call -> CallStates]
  /\ result \in [Call -> Settled \cup {Pending, Nil}]
  /\ fulfils \in [Call -> Nat]
  /\ events \in [Call -> Seq(Events)]
  /\ reply \in [Call -> Answers \cup {Nil}]
  /\ unheard \in [Call -> Commits \cup {Nil}]
  /\ service \in BOOLEAN

\* A call ends once, and nothing is in flight behind one that has: the promise
\* is fulfilled at most once (a second time would keep its semaphore for ever),
\* and the block of a stream hears nothing after "done", not even when the
\* request was never sent.
EndsOnce ==
  \A c \in Call :
    /\ fulfils[c] <= 1
    /\ fulfils[c] = 1 => call[c] \in {"none", "closed"}
    /\ \A i \in DOMAIN events[c] :
         events[c][i].done => i = Len(events[c]) /\ call[c] \in {"none", "closed"}

\* Transactions are sent all or none, in their order: one that cannot be sent
\* keeps back those before and after it, and the hashes an application gets are
\* those of the transactions it handed over, which the peer has taken.
AllOrNothing ==
  \A c \in Call :
    kind[c] \in Sends =>
      /\ result[c] \in {Pending, Error("local"), Error("rpc"), Hashes(asked[c])}
      /\ result[c] = Error("local") => call[c] = "none" /\ sent[c] = << >>
      /\ call[c] # "none" => sent[c] = asked[c]

HidesError(answer) ==
  LET m == answer.response
  IN  m.type = "accountAssets" /\ m.nextAssetId # Empty /\ Asset(m.nextAssetId) = Nil

KeepsError(response) ==
  response.error = Nil /\ (response.block = Nil \/ LeavesError(response.block))

HasBadBatchHash(transactions) == \E i \in DOMAIN transactions : transactions[i] \in Raising

\* An answer, or a commit, that leaves its handler by an exception.
LosesAnswer(answer) ==
  /\ answer.response.type \in {"transactions", "transactionsPage", "pendingPage"}
  /\ HasBadBatchHash(answer.response.transactions)
LosesCommit(m) == m.type = "block" /\ HasBadBatchHash(m.block.blockV1.payload.transactions)

\* Nobody settles the promise of such a query, nor of a status whose service is
\* gone.
Abandoned(c) ==
  \/ kind[c] = "fetch" /\ ~ service
  \/ kind[c] = "query" /\ reply[c] # Nil /\ LosesAnswer(reply[c])

\* An answer that cannot be read is an error: whoever waits gets an object or
\* an error, never neither and never both.  There are four kinds of message
\* this does not hold of: an unreadable nextAssetId (the promise settles to
\* nil), a transaction with a batch hash that is not hexadecimal (an exception:
\* the promise does not settle, the block is not called), and, of commits, an
\* unreadable block, and a block whose transactions leave an error behind (the
\* block gets both).  And a released service settles no promise of a status.
ResponseOrError ==
  \A c \in Call :
    /\ result[c] = Nil => reply[c] # Nil /\ HidesError(reply[c])
    /\ kind[c] \in Promises /\ call[c] = "closed" => result[c] # Pending \/ Abandoned(c)
    /\ unheard[c] # Nil => LosesCommit(unheard[c])
    /\ \A i \in DOMAIN events[c] :
         LET e == events[c][i] IN
         /\ e.response = Nil /\ e.error = Nil => e.done
         /\ e.response # Nil /\ e.error # Nil =>
              kind[c] = "commits" /\ KeepsError(e.response)

\* Every promise settles, and a block hears of the end of the stream its
\* application cancelled.  Only of the status of a transaction a released
\* service says nothing, for ever, and of a query whose answer has a batch hash
\* that is not hexadecimal nobody hears anything.
EveryCallEnds ==
  \A c \in Call :
    /\ kind[c] \in Promises ~> result[c] # Pending \/ Abandoned(c)
    /\ call[c] = "cancelled" ~>
         \/ \E i \in DOMAIN events[c] : events[c][i].done
         \/ kind[c] = "status" /\ ~ service
=============================================================================
