# Iroha iOS library: TLA+ models

The repository is a client library for Hyperledger Iroha in Objective-C. An
application uses it to build transactions and queries, to sign them, to send
them to a peer over gRPC and to follow what becomes of them. This directory
models the parts of the library that have state or that must agree with one
another, checks the models with TLC, and proves the main results with TLAPS for
every value of the constants.

1. [The system](#1-the-system)
2. [Plan](#2-plan)
3. [The modules and the code](#3-the-modules-and-the-code)
4. [What each run checks](#4-what-each-run-checks)
5. [Fairness](#5-fairness)
6. [What is proved](#6-what-is-proved)
7. [What is only model-checked, and what is not modelled](#7-what-is-only-model-checked-and-what-is-not-modelled)

Source paths are relative to `src/IrohaCommunication/Classes/` unless they
start with `Tests/`.

## 1. The system

| Component | State it keeps | Operations | What is hard about it |
|---|---|---|---|
| **Promises** `Public/Promise/IRPromise.m` | per object: a binary semaphore, `isFulfilled`, `result`, `isProcessed`, `next`, two handlers | `fulfillWithResult:`, `onThen`, `onError`; inside them `triggerResultProcessing`, `copyHandlersFromPromise:` | handlers run in whichever thread fulfils; the continuation moves to the promise a handler returns; some fields are read without the semaphore |
| **Repeatable status stream** `Public/Service/IRRepeatableStatusStream.m` | statuses received, trial count, the current call, a promise | `start`, `handle:done:error:`, `cancel` | retries, repeated statuses, events of a cancelled call, `start` racing with the first answer |
| **Network service** `Public/Service/IRNetworkService.m` | gRPC stubs and a serial response queue | `executeTransaction`, `executeBatchTransactions`, `executeQueryRequest`, `fetchTransactionStatus`, `streamTransactionStatus`, `onTransactionStatus`, `streamCommits` | callbacks through weak references, errors that must reach the promise exactly once, failure half way through a batch |
| **Transactions and their builder** `Private/IRTransactionImpl.m`, `IRTransactionImpl+Proto.m`, `Public/Builder/IRTransactionBuilder.m` | immutable objects, but for an array of commands they share with the builder | build, hash, sign, batch, serialise, restore | signatures and batch hashes cover a payload that must stay the same through all of it |
| **Commands** `Private/Commands/*.m`, `Private/Models/IRCommand+Proto.m` | none | `transform:` and `commandFromPbCommand:` of eighteen commands | writing and reading are written out by hand, field by field, and hashes depend on both |
| **Queries and block queries** `Public/Builder/IRQueryBuilder.m`, `Private/IRQueryRequestImpl.m`, `Private/IRBlockQueryRequestImpl.m` | a builder; immutable requests, but for an array of hashes a query shares with its caller | build, sign, sign again, serialise | the payload is made twice, once to sign and once to send; a builder outlives its requests; a form for each query, written out by hand |
| **Responses** `Private/IRQueryResponse+Proto.m`, `Private/Responses`, `Private/Models/IRBlock+Proto.m`, `Private/IRTransactionStatusResponseImpl+Proto.m` | none | protobuf to response objects | paths that give neither a response nor an error |
| **Value types** `Public/Model/Common/*.m` | none | factories that check names, identifiers, addresses, amounts, permissions | pure functions on characters |
| **Data holders and messages** `Public/Model/*.h`, `src/ProtoGen/*.pbobjc.h` | none | the protocols of commands, queries and responses; the messages that travel | which fields there are, which a `oneof` chooses from, which can be absent |
| The example application | | | not modelled (section 7) |

How they interact. An application builds a transaction, signs it (several
people may, one after the other, the transaction travelling between them as
bytes or through the peer's list of pending transactions), and hands it to the
network service. The service answers every call with a promise; the chain the
application writes on it with `onThen` and `onError` runs in the service's
response queue. `onTransactionStatus` makes a repeatable status stream, which
calls back into the service for each attempt, and settles its own promise. The
service is referenced weakly by its callbacks.

What makes each component correct:

* *Promises*: every handler runs at most once; handlers run for the results
  they were registered for, in the order of the chain; a result is final;
  no call waits for a semaphore for ever; the handler whose turn has come runs.
* *Stream*: the promise settles once, to something the stream saw; the status
  that decides is not lost; no connection is left open or opened behind a
  settled promise; every wait ends.
* *Transactions*: every signature of a transaction verifies against the hash it
  has now; no signature is lost but where that is meant; the hashes of a batch
  go on naming its transactions; bytes restore to the same transaction.
* *Commands*: what the library writes it reads, as the same command; what a
  peer wrote gives no command with an unchecked part.
* *Queries*: a signature is over what is sent; a request asks what was built, at
  the time it was built; different queries look different to a peer.
* *Responses and service*: each call settles its promise exactly once, with an
  object or an error, never with neither or both; a batch is sent whole or not
  at all; a stream that is cancelled ends; no object has an unchecked part.

The hazards, each at its line, are in `PROJECT.json`; every property below
is aimed at one or more of them.

## 2. Plan

Order of work, the most important behaviour first:

| # | Module | Composes | Status |
|---|---|---|---|
| 1 | `PromiseChain`: what a chain of promises owes its author (abstract) | | done, proved |
| 2 | `IRPromise`: the objects, semaphores and threads, refines 1 | `PromiseChain` | done, proved |
| 3 | `SerialPromise`: any use of promises on one queue, several links on a promise, handlers that call back into the chain | | done, proved |
| 4 | `RepeatableStatusStream` | gRPC as environment | done, proved |
| 5 | `Primitive`, `CommandMessages`, `QueryMessages`, `ResponseMessages`: the values and the messages | | done |
| 6 | `CommandCodec`, `CommandRoundTrip` | `CommandMessages` | done, proved |
| 7 | `Transaction`, with dates and unreadable bytes | `CommandCodec` | done, proved |
| 8 | `NetworkService`: the unary calls, the batch, `fetchTransactionStatus`, `streamCommits`, weak references | `QueryResponse` | done, proved |
| 9 | `QueryResponse`: which responses parse, which give an error, which give neither | `CommandCodec`, `ResponseMessages` | done, proved with 8 |
| 10 | `QueryRequest`: builders, queries and signatures of both kinds of request | `CommandCodec`, `QueryMessages` | done, proved |

Abstract specification: `PromiseChain`, which `IRPromise` implements. A second one,
a call that settles its promise once with a response or an error, would say of the
stream and of `NetworkService` what `FulfilledOnce`, `EndsOnce` and `ResponseOrError`
say of them directly, and is left out.

Every safety property that a run checks is a theorem of section 6.

## 3. The modules and the code

### PromiseChain

The abstract view: a chain of `N` links, each a `then` or an `error` handler,
and `outcome[j]`, what the promise returned by handler `j` is. `Feeds(i, j)`
says that what link `i` settled to is for handler `j`: a value is for the next
link if it is a `then`, an error for the first `error` link after it. Nothing
is said of threads or objects.

### IRPromise

The objects: `sem`, `result` (`isFulfilled` and `result` together),
`processed`, `next`, `resultHandler`, `errorHandler`. The calls in progress of
each thread: a program counter, `self` of the innermost call, the locals, and
the stack of fulfil calls with a semaphore to signal. `runs` and `ret` are
history: how often a handler ran and what it returned, from which `Outcome`
maps the objects to `PromiseChain`.

| Actions | Code |
|---|---|
| `StartFulfil`, `Fulfil`, `FulfilAgain`, `CheckNext`, `Signal`, `Return` | `fulfillWithResult:` 97-112; `FulfilAgain` is the early return, which does not signal |
| `CheckProcessed`, `RunHandler`, `PassErrorOn`, `NothingToRun`, `CheckReturned` | `triggerResultProcessing` 114-157 |
| `CopyNext`, `CopyResultHandler`, `CopyErrorHandler` | `copyHandlersFromPromise:` 159-163, one read at a time |
| `LinkRunsNow`, `LinkPassedOver`, `LinkStoresHandler`, `LinkStoresNext` | `onThen`, `onError` 45-95 |

Granularity: one access to state another thread may touch is one step, and
memory is sequentially consistent at that grain. Fields only touched under the
semaphore are read and written in one step with it. `CopyNext` merges the read
of `promise.next` with the write of `_next`: the promise written to is the one
whose call is running. A link writes its one handler and sets the other to nil
in a single step under the semaphore. Only the first of the two writes changes
anything: both handlers are nil before, as every promise gets one link.

### SerialPromise

`IRPromise` has one chain and many threads; `SerialPromise` has one thread and
any graph of promises. It is how the library is meant to be used: the promises
of the service settle in one serial queue. `promises` are the objects, `call` is
what the library is about to do (`Idle` when the application runs), `stack` the
calls in progress around it: fulfil calls and links with a semaphore to signal,
and handlers. The application, at rest or in any handler, may write a link on
any promise it knows, fulfil any, and return any from the handler. `links`,
`owned`, `misfulfilled`, `passed` and `reused` are history: the links with what
became of them, what the application owes, and what it did to promises that it
should have left alone: `misfulfilled` are those it fulfilled that a link had made
or that were settled, `reused` those that were given a continuation while they had
one or after it, and `passed` says of a promise whose continuation was handed on
which promise got it. Two ideas of the properties are least closed sets:
`Path(p)`, the promises that what `p` settles to comes through (the one a link is on,
the one a handler returned), and `Owed(p, result)`, that `p` has `result` or will
have it from a handler that ran or from an error that is passed on. They are written
as what every closed set contains, which needs no recursion.

| Actions | Code |
|---|---|
| `FulfillWithResult` (`Fulfil`, `FulfilAgain`), `Signal` | `fulfillWithResult:` 97-112 |
| `OnThenOrError` (`LinkPending`, `LinkRuns`, `LinkPassedOver`), `LinkReturns` | `onThen`, `onError` 45-95; the handler of a link on a settled promise runs under its semaphore |
| `RunHandler`, `PassErrorOn`, `Passed`, `NothingToRun`, `HandlerReturns` (`NextOf`, `GoOn`) | `triggerResultProcessing` 114-157 |
| `Copied` | `copyHandlersFromPromise:` 159-163 |

Granularity: only the application's handlers come between the statements of a
call, so a step is a call or what lies between two handlers. The promises the
application makes are there from the beginning, in an order of their own:
`+promise` and `+promiseWithResult:` touch nothing else, so that it does not
matter when they are called, and only how many of each kind there are is chosen.
`Blocks` is a `dispatch_semaphore_wait` nobody can signal: the queue stands still.

### RepeatableStatusStream

Attempts `1 .. MaxTrials` are gRPC calls, each `open`, `cancelled` or `closed`.
Events of calls are delivered on the service's serial response queue, so one
delivery and all of `handle:done:error:` is one action: `Report` (a status,
lines 63-83), `Garble` (a message that does not parse), `End` (the last event:
retry, give up, or nothing when the promise is fulfilled). `Start` is `start`
called on that queue; `StartElsewhere` and `StoreOperation` are `start` on
another thread, where the call is under way before it is stored in
`_operation`. `ReleaseService` drops the weakly held service.

### Primitive, CommandMessages, QueryMessages, ResponseMessages

The messages of the seven `.proto` files the library uses as records of their fields, read from the
headers `protoc` generated (`src/ProtoGen/*.pbobjc.h`): which fields a message
has, the cases of each `oneof` as the `type`, what reads as empty when nobody set
it and what has presence (`Nil`), and enumerations by their numbers with one
number past the end, as a proto3 field may hold. `Primitive` has the kinds of
values that fields are made of. The messages are sets: the codecs of commands,
queries and responses range over them, so that a form that does not fit a message
violates `TypeOK` of the run that makes it, and a reader that misses a case meets
it. `PbReducedPayload`, `PbBatchMeta`, `PbPayload` and `PbTransaction` of
`transaction.proto` are in `Transaction`, because only there they are made of
commands.

### CommandCodec and CommandRoundTrip

`CommandCodec` has the commands as records (the protocols of
`Public/Model/IRCommand.h`), `FormOf` (the `transform:` of
each) and `CommandOf` (`IRCommandProtoFactory`), as operators on abstract
texts: a text is a valid name, an identifier (two names and a separator), a
hexadecimal key, an amount, a free text, the empty text that an unset proto3
field reads as, or garbled. An amount carries whether it was spelled with
needless zeros, because parsing it drops them. `oldValue` is the one field with
presence on the wire, and `nil` is kept apart from the empty text.
`CommandRoundTrip` sends one command through it: from the builder or from a
peer, written, read, written again.

### Transaction

`builder` has the creator, the date, the quorum and the *index* of its array of commands;
`arrays` has the arrays, because `build` hands the transaction the very array
the builder goes on filling. `transactions` is every transaction made so far
(they are immutable, each operation makes a new one), `hashes` the batch hashes
an application collected, `stored` the bytes it keeps. `origin` is history: how
each transaction was made, and from which.

| Action | Code |
|---|---|
| `WithCreatorAccountId`, `WithCreatedDate`, `WithQuorum`, `AddCommand`, `Build` (`BuildDates`) | `IRTransactionBuilder` 250-297 |
| `Sign` (`Signed`) | `signedWithSignatories:` 121-183, no transaction when one signatory fails |
| `CollectBatchHash` (`BatchHash`), `Batch` (`Batched`) | `batchHashWithError:` 219-244, `batched:` 187-217 |
| `Serialize` (`Form`, `Payload`, `ReducedPayload`) | `transform:` 47-69, `createPayload:`, `createReducedPayload:` 248-329 |
| `Restore`, `RestoreRefused`, `RestoreRaises` (`Readable`, `Raises`, `TransactionOf`) | `transactionFromPbTransaction:`; a batch hash that is not hexadecimal is not refused but raises an exception (`IRTransactionImpl+Proto.m:94`) |
| `Fetch` | a peer reports a pending transaction of others (external) |

A hash is the payload it is taken of: SHA-3 and the protobuf encoding are taken
to be injective. The quorum is cut to `Width` as on line 285. A date counts in
ticks, of which a millisecond has several: it is finer than what is sent, and a
restored transaction has another date than the one it was stored from, which
must not show in its hash. A signature is a signatory and the payload it signed.

### QueryResponse

What `responseFromProtobuf:`, `responseFromPbResponse:` and
`statusResponseWithToriiResponse:` make of a message, as their caller sees it: an
object or nil, whether the error is set, and whether an exception is raised
instead. `Read`, `Refused`, `Silent` and `Raised` are the four ways the readers of
queries end, `ReadIfAll` is a list of early returns. A transaction of an answer or
of a block is accepted (`Acceptable`), refused, or `Raising`: its reader adds the
nil of a batch hash that is not hexadecimal to an array
(`IRTransactionImpl+Proto.m:94`). `RaisesAmong` says that a list is read as far as
such a transaction, `ReadTransactions` and `BlockRaises` where that comes among the
other parts of an answer and of a block. `QueryObject`, `CommitObject` and `StatusObject` are the
objects an application may get; they have no part that was not checked, but for
the hash of the next batch, which stays a text (`IRQueryResponse+Proto.m:408`).
`Stray` are the transactions that are accepted and leave an error behind: the
address of an `addPeer` is tried as an IP address first, and the error of that
attempt stays when it is a domain; so does the error of the unchecked key of a
`createAccount`.

### NetworkService

Each call has a `kind` (the method), the state of its gRPC `call`, and either a
promise (`result`, `fulfils`, the number of times it was fulfilled) or a block
(`events`, what it was called with). `asked`, `sent` and `reply` are the
transactions handed over, the transactions in the request, and the message a
query was answered with. `unheard` is history, as `asked` and `reply` are: a commit
whose handler raised before it called its block. A delivery and all of its handler is one step, because
every call is given the same serial response queue. What a method does before
`[call start]` is one step too: it touches nothing that is shared.

| Action | Code |
|---|---|
| `Submit`, `SubmitFails` | `executeTransaction:` 51-93, `executeBatchTransactions:` 95-150; a loop that returns at the first failure |
| `Request`, `QueryFails`, `CommitsFail` | `executeQueryRequest:` 205-248, `streamCommits:withBlock:` 252-288 |
| `AskStatus` | `fetchTransactionStatus:` 152-181, `streamTransactionStatus:withBlock:` 183-201 |
| `Taken`, `QueryAnswered`, `Fetched`, `Fails` | the handlers of the unary calls |
| `QueryRaises`, `CommitRaises` | an exception leaves the handler on line 230, before the promise is fulfilled, or on line 275, before the block is called |
| `FetchIgnored` | `weakSelf` is nil on line 170 |
| `Report`, `Ends` | the event handlers of the streams, `proccessTransactionStatusResponse:` 292-305 |
| `Cancel`, `ReleaseService` | the application |

The status stream of `onTransactionStatus` calls `streamTransactionStatus` for
each attempt; `RepeatableStatusStream` has the events of that method in its own
terms.

### QueryRequest

`builder` is an `IRQueryBuilder` or an `IRBlockQueryBuilder` (`Init` chooses its
kind); the two differ in that the second has no query. `lists` are the arrays of
hashes an application keeps, mutable on its side: a `getTransactions` names the
array and not its contents. `requests` is every request made so far. `Payload`,
`Form` and `FormOf...` are operators on a request, because the code makes the
protobuf form of what a request keeps each time anew. `now` counts in ticks, of
which a millisecond has several, so that two builds may fall into one.
`origin` and `dated` are history: of each request the built one it comes from,
the time, the arrays and the payload when it was made; and whether a date was
ever set. `Foreign` is a query of the application's own class, given with
`withQuery:`, that has no protobuf form: it builds and cannot be signed.

| Action | Code |
|---|---|
| `WithCreatorAccountId`, `WithCreatedDate`, `WithQueryCounter` | the two builders, `IRQueryBuilder` 143-159, `IRBlockQueryBuilder` 37-53 |
| `WithQuery` | `getAccount:` to `getPeers`, `withQuery:`, 39-139 and 161-165 |
| `Build` (`Buildable`, `DateOfBuild`, `Request`) | `build:` 167-197 and 55-73; without a creator or a query nothing is made |
| `Sign` (`Signed`, `SignatureBy`) | `signedWithSignatory:` 39-81 of `IRQueryRequestImpl.m`, 36-77 of `IRBlockQueryRequestImpl.m`; `Broken` is a signatory that fails |
| `AddHash`, `Tick` | the application's array, the clock (external) |

`MC...` modules hold the values of the constants. A definition named
`Mutant...` is a plausible slip in the definition that follows it; no
specification uses one.

## 4. What each run checks

| Run | Checks | Bounds, and why they are enough |
|---|---|---|
| `promise_chain` | `OnePath`, `OneInFlight`, `NoSkippedHandlerRuns` | 4 links: an error can skip two handlers and the handler that catches it can feed another |
| `promise_any_use` | `TypeOK`, `LostOnlyByReuse`, `TwiceOnlyByMisfulfil`, `BlockedOnlyByMisuse` | one queue, 2 promises the application makes, 3 links, 1 fulfilment it should not have made: enough for a handler that writes an inner chain and returns its end, for two links on one promise, and for an error passed on under a taken semaphore; each of the three properties has states where its excuse is needed |
| `promise_concurrent` | `TypeOK`, `MutualExclusion`, `LeakOnlyByRefulfil`, `HandlerAtMostOnce`, `SettledOnce`, `ImplementsChain`, `CallsReturn` | 3 links, one thread writes the chain while another fulfils, each promise up to twice |
| `promise_late_link` | *violated*: `DueHandlerRuns` | 2 links, chain and fulfilment on two threads |
| `promise_two_queues` | *violated*: `HandlerAtMostOnce` | 2 links, two fulfilling threads |
| `stream` | `TypeOK`, `DecisiveStatusSettles`, `FulfilledOnce`, `NoOrphanCall`, `OneLiveCall`, `ResultIsSound`, `Settles` | 3 trials, three final statuses and two others, of which any may be expected |
| `codec` | `OwnFormsParse`, `PartsChecked`, `FormSettles` | all commands and all forms over two names, one key, two texts, two permissions; two names are enough for swapped parts to show |
| `transaction` | `TypeOK`, `SignaturesVerify`, `SignaturesKept`, `BatchHashKept`, `OwnBytesRead`, `RestoredHashIsSame` | 4 transactions (build, sign, store, restore, or batch in between), a batch of 1 hash, one command, 32 bits hold 0..3 and the quorum exceeds them, one date of 3 ticks with 2 to a millisecond, five pending transactions: one that is read, three that are refused for a part, one that raises |
| `network` | `TypeOK`, `EndsOnce`, `AllOrNothing`, `ResponseOrError`, `EveryCallEnds` | 2 calls (calls share the service and nothing else) of any of six kinds, 2 messages of a stream (one before another, one before the end), batches of 0 and 2 transactions; of each kind of message one that is read, and one for each part that can be refused; in each that has transactions also one that raises, alone and after one that is read or refused |
| `query` | `TypeOK`, `StaleOnlyByCaller`, `AsksAsBuilt`, `DatedAtBuild`, `QueriesDiffer` | 2 builds and 3 requests in all (one built request can be signed twice, or two compared), one account and one array of at most 1 hash, all twelve queries with and without a page, 2 ticks to a millisecond and 2 ticks to pass, the counters 0 and 3, a date that is set or not |
| `transaction_restored` | *violated*: `RestoredHashIsSame` | a compare-and-set without an old value |
| `transaction_reuse` | *violated*: `SignaturesVerify` | a builder that is used again after `build` |

What the violations show:

* `promise_late_link`: `copyHandlersFromPromise:` reads the links of a promise
  without its semaphore. A link that another thread is writing on it is missed
  and its handler never runs. An application that writes the chain in the queue
  that fulfils is safe from it: there a handler is lost only as `LostOnlyByReuse`
  of `promise_any_use` says.
* `promise_two_queues`: `isProcessed` is checked and set without a lock. When a
  returned promise is fulfilled on one thread while another copies handlers
  onto it, both run its handler.
* `transaction_restored`: a nil `oldValue` restores as an empty text, so the
  restored transaction has another hash and its signatures do not verify.
* `transaction_reuse`: `build` does not copy the array of commands, so a
  command added later changes transactions that are built and signed.

Some passing properties have a condition that is a finding in itself.
`FulfilledOnce` and `NoOrphanCall` hold only for streams started on the
response queue (`onQueue`): from another thread an answer can come before
`_operation` is set, and finds nothing to cancel. `LeakOnlyByRefulfil` says that
fulfilling a promise twice is the only way to lose its semaphore, and
`CallsReturn` has that excuse: line 101 returns without signalling.

The three invariants of `SerialPromise` say what an application has to keep to on
one queue, and each exception is real. `LostOnlyByReuse`: every handler whose turn
has come has run when the queue rests, but where a promise got a continuation in
place of another (a second `onThen`, lines 61-64, or a returned promise that had
a link of its own, 160-162), or after it had handed its own on (a link written in
a handler on the promise that runs it). `TwiceOnlyByMisfulfil`: a handler runs
twice only where the application fulfilled a promise that a link had made, or one
that was settled: `copyHandlersFromPromise:` leaves the handlers where they were,
and `isProcessed` is the promise's. `BlockedOnlyByMisuse`: the queue stops for
ever when a handler calls a promise whose semaphore the call around it holds
(fulfilling or linking the promise whose settled link runs the handler, line
53 or 81), or after a promise was fulfilled twice. The library on its own never
waits for a semaphore it holds, whatever promises the handlers return.

`StaleOnlyByCaller` and `AsksAsBuilt` have one exception: `IRGetTransactions`
keeps the array of hashes uncopied (line 17), so a caller that adds to a mutable
array between signing and sending sends a query that does not verify. The array
stands for every argument that is kept uncopied and could be changed in the same
way: a hash replaced in it, the first hash of a page, the writer and the key of a
`getAccountDetail` and of a record identifier. Those are immutable in the model.
`FormSettles` names the three ways in which reading changes a form
(`Respelled`): needless zeros of an amount, an `oldValue` that is not there, and
a `createAccount` whose key is no key.

`ResponseOrError` names four kinds of message the library reads badly: a
transaction, in an answer or in a block, with a batch hash that is not hexadecimal,
which raises an exception (`IRTransactionImpl+Proto.m:94`), so that whoever waits
gets neither object nor error, the promise never settles and the block is not
called; an
unreadable `nextAssetId`, whose error goes to a variable that hides the
parameter (`IRQueryResponse+Proto.m:315`), so that the promise settles to nil and
a chain takes it for a success; an unreadable block, which is wrapped all the
same (`IRBlockQueryResponse+Proto.m:24`, in an initialiser that is declared
nonnull), so that the block of the stream gets an object with nothing in it and
an error beside it; and a good block with an `addPeer` of a domain address
(`IRAddress.m:107`), which comes with the error of an attempt that was only the
first. `EveryCallEnds` names the two promises that never settle (`Abandoned`): the
status that is asked of a service which is released before the answer, and the
query whose answer raises that exception.

Deadlock is checked but where the application may stop: `promise_chain` (a chain
that has run), `promise_any_use` (the bounds are used up, or the queue is
blocked), `promise_concurrent` (a semaphore lost by a second fulfil),
`stream` (a stream that has settled), `network` (all calls made and ended) and
`query` (an application that has what it wants).

## 5. Fairness

* `PromiseChain`: weak fairness of `Invoke`, because the library calls the
  handler of a settled promise. None of `Settle`: nothing makes an application
  fulfil what it owes.
* `IRPromise`: weak fairness of the steps of a running call (`Work`) and of
  writing the chain (`Write`). A thread in the library keeps running, and the
  statements of a chain follow one another. Fulfilling is the application's
  choice and has none. A thread at a taken semaphore has no enabled step, so
  nothing is assumed of semaphores that are never signalled.
* `RepeatableStatusStream`: weak fairness of `start` once it is called and of
  the end of each open call: a stream ends by the peer, by the network or by a
  cancellation. None of statuses: the peer may report nothing.
* `NetworkService`: weak fairness of the answer of each unary call, which gRPC
  gives if only as an error, and of the last event of a stream that was
  cancelled, which gRPC delivers itself. None of the methods an application may
  call, of messages, or of the end of a stream nobody cancels: a stream of
  commits goes on as long as the peer does.
* `SerialPromise` states no liveness: `LostOnlyByReuse` speaks of the queue at
  rest, and `BlockedOnlyByMisuse` of when it does not come to rest.
* `CommandRoundTrip`, `Transaction` and `QueryRequest` state no liveness and no
  fairness: what an application builds and signs next is its own choice.

## 6. What is proved

All theorems hold for every value of the constants, without the bounds of the
runs (`SerialPromise`, `Transaction` and `QueryRequest` keep their bounds as
constants of any size).

* `PromiseChainProofs`: `TypeInvariant`, `PathIsOne`, `OneOutstanding`,
  `SkippedForGood`. `OnePath` is inductive on top of `TypeOK`; the lemma that
  carries it is `FeedsOneLink`: a link that settled feeds at most one later
  link, as no handler is between the two that could have taken its result.
* `IRPromiseProofs`: the invariant is type correctness, closure of the heap of
  promises, and the two parts below. `TypeCorrect`; `CallsExclude`, whose invariant ties each
  program counter to the semaphore its call must hold; `ResultsAreFinal`, which
  needs that a processed promise is a settled one and that a call past the
  check on line 100 finds its promise settled. These hold for any set of threads.
  Three more assume `OneWorker`, one thread that fulfils promises, which the thread
  that writes the chain may race (it may also be the same); the run
  `promise_two_queues` shows that the assumption is needed.
  `OnlyRefulfilLeaks` and `HandlersRunOnce` are about continuations: there is a set
  `D` of promises that were copied onto what a handler returned and that nobody
  fulfils any more (`Continuations(D)`). Outside `D`, and until it is processed, a
  promise is the only one with its handler and with its next promise, so that a
  handler that runs is carried by no other, and the call that passes an error on is
  the only one that can settle its target. The code keeps no such set: the invariant
  says that one exists, and `RunHandlerHands` is the step that extends it.
  `ChainRefined`, that `IRPromise` implements `PromiseChain`, adds a position in the
  chain for every promise (`Placed(pos)`): the result of a promise at `k` is for the
  handler of link `k + 1`, a value at `k` is the outcome at `k`, an error at `k` is an
  outcome at or before `k` with only `then` links between (`Errs`), and a promise at
  `k` with a next has the handler of link `k + 1` if that is an `error` link, except
  while it is being copied (`Catches`). A new object may be given any position (`FreshPlaced`), so each step
  that allocates one chooses it. `AnswerOutcome` is the step of the chain when a
  handler runs, `FulfilPlaced` the one when the application settles a promise; every
  other step leaves the outcomes alone.
* `SerialPromiseProofs`: `TypeCorrect`, `HandingCorrect`, `RunsOnce`, `WaitsByMisuse`
  and `NoneLost`. None of the three properties is inductive, and the run, with its two
  promises and three links, says nothing of longer chains of handlers that return
  promises of other handlers. The proof rests on two invariants.

  `Handing` says who has a continuation. A promise that carries a link lies on the
  way to the link's own promise (`CarriedOnPath`); of all that carry it only one can
  still run it (`OneActive`), and one that can is the first to (`NotRunYet`); and
  until it has, the promise behind the link is pending (`NextUntouched`). Each of
  these has misfulfilled promises on the way for its exception, which is why
  `TwiceOnlyByMisfulfil` speaks of `Path`. That the library keeps to this itself is
  `HandedOnOnce` (only a promise that a link made hands its continuation on, and it
  is settled only by a misfulfilment) and `PassFits` (an error is
  passed on to a promise that nobody else settles). `OneFrame`, `OwnedPending` and
  `TriggerFits` are what this needs to know of the calls. `RunOnce` is
  `TwiceOnlyByMisfulfil`, and `WaitFits`, with `Semaphores` (a taken semaphore is that
  of a call in progress, or was lost by a second fulfil), is `BlockedOnlyByMisuse`.

  `Serving`, inductive given `Handing`, says what became of the handlers. A link whose
  handler did not run at once is carried by its promise (`LinkedThere`); what a handler
  returned carries what the promise behind its link carries (`Returns`); a settled
  promise has served the link it carries (`SettledServed`), or its call is just
  about to. At rest there is no such call: the promises that settled to a result or
  have not settled, and whose links are served, are then an `OwedClosed` set
  (`RestingOwes`). The least such set is within it, so that a handler whose turn has
  come has run (`LostOnlyByReuse`).

  The proof takes a step in two parts: the `Does` lemmas say what each action
  changes, promise by promise, and everything after them is about these changes. A
  step that moves no continuation is `Mild`, and one lemma does for all of those
  (`MildStepKeeps`, `MildServes`); left are four steps, to fulfil, to link, to run
  a handler and to return from it (`HandlerReturnsKeeps`, where `GoOn` copies).
* `RepeatableStatusStreamProofs`: `TypeCorrect`, `NoAnswerLost`, `NeverRefulfils`,
  `NoCallLeftOpen`, `OneConnection`, `ResultSound`, `NoLateAttempt`. The
  invariant says which call is live in each state: the one of the current trial,
  stored in `operation` when `start` has returned, and none once the promise is
  settled.
* `CommandRoundTripProofs`: `CommandReads` (for every command but a compare-and-set
  without an old value, `CommandOf(FormOf(c)) = c`) and `OwnCommandsRead` (every
  form the library writes is accepted), from lemmas on identifiers, keys,
  amounts, names and permissions; from these `CommandsDiffer` (no two commands have
  one form); `OnlyCheckedParts`, `NoCommandLost`, `FormsSettle`.
  The invariant is `PartsChecked` with where the form came from (`FormFrom`: one
  that was written is the form of a command or of an account without a key) and
  what the command was read from (`ReadFrom`). `TransactionProofs` extends this
  module for the first three, so the variables of `CommandRoundTrip` have names of
  their own (`pbForm`, `irCommand`), and its specification is `TripSpec`.
* `TransactionProofs`: `TypeCorrect` and `OwnBytes` unconditionally (what the
  library writes it reads without a refusal or an exception, from
  `OwnFormsAccepted`: every part of a `PbTransaction` is readable), and so is `HashesTell`
  (two transactions with one hash say the same, batch included, and two with one batch
  hash the same but for the batch; it is about every pair of transactions, and the
  single command of the runs would show little of it); `SignaturesHold`,
  `SignaturesAreKept`, `BatchHashesKept`, `RestoredHash` under `Careful`, which
  names what the two violations show to be necessary: the builder is not reused
  after `build`, a compare-and-set has an old value, and a peer reports pending
  transactions that are spelled as the library spells them and whose signatures
  verify. The four properties are proved together (`SafeInv`), because
  restoring needs all of them: it adds that the builder's array is not written
  once a transaction has it, that every array has only commands that read back
  as they were, and that what is stored is still the form of the transaction it
  was made of. `OldStay` and `OldSafe` show that no step changes the hash of
  an old transaction, `NewSafe` leaves each action to show the properties of
  the one transaction it makes.
* `NetworkServiceProofs`: `TypeCorrect`, `CallsEndOnce`, `SentAllOrNone`,
  `AnswersAreSound`. First the readers: every answer gives an object whose parts
  were all checked, or nil and an error, one case for each kind of message
  (`QueryReads`, `CommitReads`, `StatusReads`), or else it raises, and then it has
  a batch hash that cannot be read (`ReadTransactionsSound`). The invariant is `TypeOK` and one
  formula `Good(c)` for each call, which ties the promise to the gRPC call (one
  in flight has not settled and has not told its end, a promise has a result
  exactly when it was fulfilled once); `OneCall` says that a step about one call
  leaves what holds of the others, so that each action has to show `Good` of its
  own call only.
* `QueryRequestProofs`: `TypeCorrect`, `SignaturesStayGood`, `PayloadsAreAsBuilt`,
  `DatesAreOfBuild`, `QueriesAreTold`. The last follows from lemmas on the forms of
  the parts (identifiers, pages, hashes) and one case for each pair of queries
  with one type: the form of a query can be read back. The invariant is `TypeOK`,
  that a builder nobody dated holds no date, and one formula `Good(i)` for each
  request, its part of the other three properties and that arrays have only grown
  since it was made. `NextPayload` says that a step changes the payload of an old
  request only by changing the array it keeps; `GoodAfterAddHash` and
  `GoodAfterMake` are the two steps that disturb something.

Assumptions on constants are named: `NAssumption`, `ConstantAssumption`,
`TrialsAssumption`, `CodecAssumption` and `NilAssumption` (the values of the
different kinds of text are different), `TransactionAssumption`,
`PendingAssumption` (a pending form that is accepted has the parts of a form, and
what is no hash is no payload, nil is no batch),
`MessageAssumption` (a repeated field is a list), `ObjectAssumption` and
`ResultAssumption` (nil and "not settled" are no objects), `ServiceAssumption`,
`QueryAssumption`, `NilIsNoForm` (nil is no page, text or message),
`BoundsAssumption` (the bounds of `SerialPromise` are numbers; the theorems hold
whatever they are).
TLC evaluates each of them in every run of its module.

## 7. What is only model-checked, and what is not modelled

Only model-checked: the liveness properties (`CallsReturn`, `Settles`,
`EveryCallEnds`), as TLAPS has no rules for fairness and ENABLED here.
`NoAttemptAfterResult` of the stream is only
proved (`NoLateAttempt`). Induction over data and RECURSIVE operators are out of the
prover's reach; no module declares one.

Not modelled:

* gRPC, protobuf's encoding and IrohaCrypto are external. Modelled of them is
  what the code relies on: events of one call come in order on one queue, a
  cancelled call delivers one last event, an unset string reads as empty, a
  nullable field with presence is left out, hexadecimal is spelled in one way.
* The regular expressions and ranges of the factories: they are the sets of
  valid names, keys and permissions.
* The rounding of dates. A date is a floating point number of seconds that is
  multiplied and truncated to milliseconds
  (`Public/Extensions/NSDate+IrohaCommunication.m:11`); the model has dates in
  ticks and cuts them to milliseconds. In binary fractions some timestamps lose a
  millisecond on the way through a date, from January 2038 to September 2039 (and
  did in 2004), so that a restored transaction of that time may have another hash.
* Changes to the texts, the data and the arrays an application gave to the library,
  which copies none of them, but for the commands of a transaction builder and the
  hashes of a `getTransactions`.
* What becomes of the application after an exception in the response queue. The
  library catches none, and unless the application does the process ends. The model
  lets it go on. A process that ended is a behaviour of the model that stops there,
  so the safety properties cover both; the liveness property is about one that goes on.
* `signWithSignatory:` makes a signature object and changes nothing, and no method
  of the library takes the object up. It is listed as a hazard for not checking
  that signing succeeded.
* Several queues and several links on one promise at once: `IRPromise` has the
  first, `SerialPromise` the second.
* Whether a request to `NetworkService` can be sent is a choice there, and follows
  from its query in `QueryRequest` (`Form` is nil or not).
* Of the generated code, the fields of the messages are modelled, and not how
  they are stored, encoded or sent. Of the data holders, what they hold; that an
  initialiser stores its arguments is part of the operator that makes the object.
* The example application and the host of the integration tests: they call the
  library, and keep no state of it.
