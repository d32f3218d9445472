------------------------------ MODULE Transaction ------------------------------
(***************************************************************************)
(* Transactions on a device: an application fills an IRTransactionBuilder, *)
(* builds transactions, signs them, batches them, stores them as bytes and *)
(* restores them, in any order, and fetches the pending transactions of    *)
(* others to sign them too.                                                *)
(*                                                                         *)
(* An IRTransaction never changes itself: signing, batching and restoring  *)
(* make a new one.  Its array of commands is an object of its own, and the *)
(* one of a built transaction is the array the builder goes on filling.    *)
(* The texts and the data an application gives are taken to be immutable:  *)
(* the library copies none of them.                                        *)
(*                                                                         *)
(* SHA-3 and the encoding of protobuf are taken to be injective (they are  *)
(* external): a hash is the payload it is taken of.  Dates go in ticks, of  *)
(* which a millisecond has several: a date is finer than what is sent.     *)
(***************************************************************************)
EXTENDS CommandCodec

CONSTANTS
  Commands,        \* the commands the application adds
  Creators,        \* the accounts it creates transactions for
  Quorums,         \* the quorums it asks for
  Dates,           \* the dates it sets, and those its clock may show
  TicksPerMillisecond,
  Width,           \* 2^32
  Signatory,       \* who can sign, as a key pair
  Broken,          \* a signatory that fails to sign
  None, Atomic, Ordered,  \* the batch types
  Signings,        \* the lists of signatories it signs with
  PendingForms,    \* the forms of the pending transactions a peer may report
  Reuse,           \* does the application add commands to a builder it has built from?
  MaxTransactions, MaxCommands, MaxHashes  \* bounds

DefaultQuorum == 1

ASSUME TransactionAssumption ==
  /\ Commands \subseteq Command
  /\ Creators \subseteq AccountId
  /\ Nil \notin Creators
  /\ Width \in Nat \ {0}
  /\ Quorums \subseteq Nat
  /\ Dates \subseteq Nat /\ Nil \notin Nat
  /\ TicksPerMillisecond \in Nat \ {0}
  /\ Broken \notin Signatory
  /\ Signings \subseteq Seq(Signatory \cup {Broken})
  /\ None \notin {Atomic, Ordered}
  /\ Reuse \in BOOLEAN
  /\ {MaxTransactions, MaxCommands, MaxHashes} \subseteq Nat

VARIABLES
  builder,       \* the creator, the date, the quorum and the array of commands of the builder
  arrays,        \* the arrays of commands, each a sequence
  transactions,  \* every transaction made so far
  hashes,        \* the batch hashes the application has collected
  stored,        \* the form kept as bytes and the transaction it was made of, or Nil
  origin         \* history: how each transaction was made, and from which other

vars == <<builder, arrays, transactions, hashes, stored, origin>>

-----------------------------------------------------------------------------
(* The objects and their protobuf forms                                      *)

BatchType == {None, Atomic, Ordered}

CommandForm == {FormOf(c) : c \in Command}

\* The messages of transaction.proto, spelled as this library spells them.  The
\* payload has a batch or Nil.
PbReducedPayload ==
  [commands : Seq(CommandForm), creatorAccountId : Name \X {"@"} \X Name, createdTime : UInt64,
   quorum : 0 .. Width - 1]

PbBatchMeta == [type : {Atomic, Ordered}, reducedHashes : Seq(PbReducedPayload)]

PbPayload == [reducedPayload : PbReducedPayload, batch : PbBatchMeta \cup {Nil}]

Signature == [by : Signatory, over : PbPayload]

PbTransaction == [payload : PbPayload, signatures : Seq(Signature)]

\* initWithCreatorAccountId:...  The commands are an index of arrays; what is
\* nil in the code (no signatures, no batch hashes) is empty here.
IRTransaction(creator, createdAt, commands, quorum, signatures, batchHashes, batchType) ==
  [creator |-> creator, createdAt |-> createdAt, commands |-> commands, quorum |-> quorum,
   signatures |-> signatures, batchHashes |-> batchHashes, batchType |-> batchType]

(* What the methods of a transaction compute                                 *)

\* What is finer than a millisecond is cut off.  (In binary fractions of a second
\* a timestamp comes back as it was but from January 2038 to September 2039, when
\* some lose a millisecond: the dates of the model are earlier.)
Milliseconds(date)       == date \div TicksPerMillisecond
DateOfTimestamp(created) == created * TicksPerMillisecond

ReducedPayload(t) ==
  [commands |-> [i \in DOMAIN arrays[t.commands] |-> FormOf(arrays[t.commands][i])],
   creatorAccountId |-> Identifier(t.creator, "@"),
   createdTime |-> Milliseconds(t.createdAt),
   quorum |-> t.quorum % Width]

Payload(t) ==
  [reducedPayload |-> ReducedPayload(t),
   batch |-> IF t.batchType = None THEN Nil
             ELSE [type |-> t.batchType, reducedHashes |-> t.batchHashes]]

TransactionHash(t) == Payload(t)

MutantBatchHash(t) == Payload(t)
BatchHash(t) == ReducedPayload(t)

Form(t) == [payload |-> Payload(t), signatures |-> t.signatures]

SignaturesOf(t, signatories) ==
  [i \in DOMAIN signatories |-> [by |-> signatories[i], over |-> TransactionHash(t)]]

WithSignatures(t, signatures) ==
  IRTransaction(t.creator, t.createdAt, t.commands, t.quorum, signatures, t.batchHashes, t.batchType)

\* One signatory that fails spoils the whole call: no transaction, whoever
\* signed before it.
SigningFails(signatories) ==
  signatories = << >> \/ \E i \in DOMAIN signatories : signatories[i] = Broken

MutantSigned(t, signatories) ==
  IF signatories = << >> THEN Nil
  ELSE WithSignatures(t, t.signatures \o SignaturesOf(t, signatories))
MutantSignedAfresh(t, signatories) ==
  IF SigningFails(signatories) THEN Nil
  ELSE WithSignatures(t, SignaturesOf(t, signatories))
Signed(t, signatories) ==
  IF SigningFails(signatories) THEN Nil
  ELSE WithSignatures(t, t.signatures \o SignaturesOf(t, signatories))

\* A new batch, or none, takes the signatures away.
MutantBatched(t, batch, type) ==
  IF type = None
  THEN IRTransaction(t.creator, t.createdAt, t.commands, t.quorum, t.signatures, << >>, None)
  ELSE IF batch = << >> THEN Nil
  ELSE IRTransaction(t.creator, t.createdAt, t.commands, t.quorum, t.signatures, batch, type)
Batched(t, batch, type) ==
  IF type = None
  THEN IRTransaction(t.creator, t.createdAt, t.commands, t.quorum, << >>, << >>, None)
  ELSE IF batch = << >> THEN Nil
  ELSE IRTransaction(t.creator, t.createdAt, t.commands, t.quorum, << >>, batch, type)

\* transactionFromPbTransaction: refuses the whole form for any part it cannot
\* read.  A batch hash that is not hexadecimal is not refused: it raises an
\* exception, after everything else was read.
CommandsOf(f) ==
  [i \in DOMAIN f.payload.reducedPayload.commands |-> CommandOf(f.payload.reducedPayload.commands[i])]

Readable(f) ==
  /\ \A s \in DOMAIN f.signatures : f.signatures[s].by \in Signatory   \* a key and a signature
  /\ Account(f.payload.reducedPayload.creatorAccountId) # Nil
  /\ \A i \in DOMAIN CommandsOf(f) : CommandsOf(f)[i] # Nil
  /\ f.payload.batch # Nil => f.payload.batch.type \in {Atomic, Ordered}

Raises(f) ==
  /\ Readable(f)
  /\ f.payload.batch # Nil
  /\ \E h \in DOMAIN f.payload.batch.reducedHashes : f.payload.batch.reducedHashes[h] = Garbled

MutantAccepted(f) ==
  /\ Readable(f) /\ ~Raises(f)
  /\ f.payload.batch # Nil => f.payload.batch.type = Ordered
Accepted(f) == Readable(f) /\ ~Raises(f)

MutantBatchTypeOf(f) == IF f.payload.batch = Nil THEN None ELSE Ordered
BatchTypeOf(f) == IF f.payload.batch = Nil THEN None ELSE f.payload.batch.type

BatchHashesOf(f) == IF f.payload.batch = Nil THEN << >> ELSE f.payload.batch.reducedHashes

TransactionOf(f, array) ==
  IRTransaction(Account(f.payload.reducedPayload.creatorAccountId),
                DateOfTimestamp(f.payload.reducedPayload.createdTime), array,
                f.payload.reducedPayload.quorum, f.signatures, BatchHashesOf(f), BatchTypeOf(f))

\* A peer may answer with anything that a library of its own wrote; the pending
\* transactions of the model are spelled as this library spells them, or refused.
ASSUME PendingAssumption ==
  /\ \A f \in PendingForms : Accepted(f) => f \in PbTransaction
  /\ Garbled \notin PbReducedPayload
  /\ Nil \notin PbBatchMeta

-----------------------------------------------------------------------------
(* What the application does                                                 *)

Init ==
  /\ builder = [creator |-> Nil, createdAt |-> Nil, quorum |-> DefaultQuorum, commands |-> 1]
  /\ arrays = << << >> >>
  /\ transactions = << >>
  /\ hashes = << >>
  /\ stored = Nil
  /\ origin = << >>

Make(t, how, of) ==
  /\ Len(transactions) < MaxTransactions
  /\ transactions' = Append(transactions, t)
  /\ origin' = Append(origin, [how |-> how, of |-> of])

WithCreatorAccountId(creator) ==
  /\ builder' = [builder EXCEPT !.creator = creator]
  /\ UNCHANGED <<arrays, transactions, hashes, stored, origin>>

WithCreatedDate(date) ==
  /\ builder' = [builder EXCEPT !.createdAt = date]
  /\ UNCHANGED <<arrays, transactions, hashes, stored, origin>>

WithQuorum(quorum) ==
  /\ builder' = [builder EXCEPT !.quorum = quorum]
  /\ UNCHANGED <<arrays, transactions, hashes, stored, origin>>

BuiltFrom == \E i \in DOMAIN origin : origin[i].how = "built"

\* Every method of the builder that adds a command.
AddCommand(command) ==
  /\ Reuse \/ ~BuiltFrom
  /\ Len(arrays[builder.commands]) < MaxCommands
  /\ arrays' = [arrays EXCEPT ![builder.commands] = Append(@, command)]
  /\ UNCHANGED <<builder, transactions, hashes, stored, origin>>

\* Without a date, the one the clock shows.
BuildDates == IF builder.createdAt = Nil THEN Dates ELSE {builder.createdAt}

\* Without a creator build: makes nothing.  The transaction gets the very
\* array of the builder.
Build ==
  /\ builder.creator # Nil
  /\ \E date \in BuildDates :
       Make(IRTransaction(builder.creator, date, builder.commands, builder.quorum, << >>, << >>, None),
            "built", 0)
  /\ UNCHANGED <<builder, arrays, hashes, stored>>

\* signedWithSignatories:signatoryPublicKeys:error:, each signatory with its key
Sign(i, signatories) ==
  /\ Signed(transactions[i], signatories) # Nil
  /\ Make(Signed(transactions[i], signatories), "signed", i)
  /\ UNCHANGED <<builder, arrays, hashes, stored>>

CollectBatchHash(i) ==
  /\ Len(hashes) < MaxHashes
  /\ hashes' = Append(hashes, BatchHash(transactions[i]))
  /\ UNCHANGED <<builder, arrays, transactions, stored, origin>>

\* batched:batchType:error:, with the hashes collected so far
Batch(i, type) ==
  /\ Batched(transactions[i], hashes, type) # Nil
  /\ Make(Batched(transactions[i], hashes, type), "batched", i)
  /\ UNCHANGED <<builder, arrays, hashes, stored>>

\* serializeTransaction:error:
Serialize(i) ==
  /\ stored' = [form |-> Form(transactions[i]), of |-> i]
  /\ UNCHANGED <<builder, arrays, transactions, hashes, origin>>

\* A peer answers a query with a pending transaction.
Fetch(form) ==
  /\ stored' = [form |-> form, of |-> 0]
  /\ UNCHANGED <<builder, arrays, transactions, hashes, origin>>

\* deserializeTransactionFromData:error:, and the same for a fetched one
Restore ==
  /\ stored # Nil
  /\ Accepted(stored.form)
  /\ arrays' = Append(arrays, CommandsOf(stored.form))
  /\ Make(TransactionOf(stored.form, Len(arrays) + 1), "restored", stored.of)
  /\ UNCHANGED <<builder, hashes, stored>>

\* The bytes are no transaction, and the application drops them.
RestoreRefused ==
  /\ stored # Nil
  /\ ~Readable(stored.form)
  /\ stored' = Nil
  /\ UNCHANGED <<builder, arrays, transactions, hashes, origin>>

\* The exception is taken to be caught, as the library does not catch it, by an
\* application that drops the bytes.
RestoreRaises ==
  /\ stored # Nil
  /\ Raises(stored.form)
  /\ stored' = Nil
  /\ UNCHANGED <<builder, arrays, transactions, hashes, origin>>

Next ==
  \/ \E creator \in Creators : WithCreatorAccountId(creator)
  \/ \E date \in Dates : WithCreatedDate(date)
  \/ \E quorum \in Quorums : WithQuorum(quorum)
  \/ \E command \in Commands : AddCommand(command)
  \/ Build
  \/ \E i \in DOMAIN transactions :
       \/ \E signatories \in Signings : Sign(i, signatories)
       \/ CollectBatchHash(i)
       \/ \E type \in BatchType : Batch(i, type)
       \/ Serialize(i)
  \/ \E form \in PendingForms : Fetch(form)
  \/ Restore
  \/ RestoreRefused
  \/ RestoreRaises

Spec == Init /\ [][Next]_vars

-----------------------------------------------------------------------------
(* Properties                                                                *)

TransactionType ==
  [creator : AccountId, createdAt : Nat, commands : DOMAIN arrays, quorum : Nat,
   signatures : Seq(Signature), batchHashes : Seq(PbReducedPayload),
   batchType : BatchType]

\* The types.  A signature is that of a signatory that did sign, never of one
\* that failed, and a transaction has a batch type or no batch hashes.
TypeOK ==
  /\ builder \in [creator : Creators \cup {Nil}, createdAt : Nat \cup {Nil}, quorum : Nat,
                  commands : {1}]
  /\ arrays \in Seq(Seq(Command)) \ {<< >>}
  /\ transactions \in Seq(TransactionType)
  /\ \A i \in DOMAIN transactions :
       transactions[i].batchType = None => transactions[i].batchHashes = << >>
  /\ hashes \in Seq(PbReducedPayload)
  /\ stored # Nil =>
       /\ stored.of \in 0 .. Len(transactions)
       /\ stored.form \in IF stored.of = 0 THEN PendingForms ELSE PbTransaction
  /\ origin \in Seq([how : {"built", "signed", "batched", "restored"}, of : Nat])
  /\ Len(origin) = Len(transactions)
  /\ \A i \in DOMAIN origin : origin[i].of < i

\* Every signature of a transaction is over the hash the transaction has now:
\* a peer that checks it will accept it.  signedWithSignatories: signs the whole
\* payload and keeps earlier signatures, batched: takes them away, and restoring
\* must give the payload that was signed.
SignaturesVerify ==
  \A i \in DOMAIN transactions :
    \A s \in DOMAIN transactions[i].signatures :
      transactions[i].signatures[s].over = TransactionHash(transactions[i])

\* A signature that was collected is not lost when the transaction is signed by
\* another or stored and restored, and it keeps its place: only batched: drops
\* signatures.
SignaturesKept ==
  \A i \in DOMAIN transactions :
    (origin[i].of > 0 /\ origin[i].how # "batched") =>
      LET before == transactions[origin[i].of].signatures
          after  == transactions[i].signatures
      IN  Len(before) <= Len(after) /\ \A s \in DOMAIN before : after[s] = before[s]

\* The batch hash of a transaction is that of the one it was made from: the
\* hashes an application collects go on naming its transactions after they are
\* batched, signed, stored and restored.  (A hash over the whole payload, batch
\* included, would not.)
BatchHashKept ==
  \A i \in DOMAIN transactions :
    origin[i].of > 0 =>
      BatchHash(transactions[i]) = BatchHash(transactions[origin[i].of])

\* Bytes this library made of a transaction it reads again: they are never
\* refused and never raise an exception, whatever the transaction went through.
OwnBytesRead ==
  (stored # Nil /\ stored.of > 0) => Accepted(stored.form)

\* Bytes made of a transaction restore to one with the same hash (as
\* testInitializationFromRawTransaction asserts), though its date has lost what is
\* finer than a millisecond and its quorum what 32 bits do not hold.
RestoredHashIsSame ==
  \A i \in DOMAIN transactions :
    (origin[i].how = "restored" /\ origin[i].of > 0) =>
      TransactionHash(transactions[i]) = TransactionHash(transactions[origin[i].of])
=============================================================================
