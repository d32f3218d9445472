--------------------------- MODULE TransactionProofs ---------------------------
(***************************************************************************)
(* The properties of Transaction for any commands, quorums, signatories    *)
(* and pending transactions.                                               *)
(***************************************************************************)
EXTENDS Transaction, CommandRoundTripProofs, SequenceTheorems

(* The types of what the methods compute                                     *)

LEMMA CutQuorum ==
  ASSUME NEW quorum \in Nat
  PROVE  /\ quorum % Width \in 0 .. Width - 1
         /\ quorum \in 0 .. Width - 1 => quorum % Width = quorum
  BY TransactionAssumption

\* A date is sent as a number of milliseconds, and one made of such a number is
\* sent as the same number.
LEMMA MillisecondsTyped == \A date \in Nat : Milliseconds(date) \in Nat
  BY TransactionAssumption DEF Milliseconds

LEMMA SameMillisecond ==
  ASSUME NEW created \in Nat
  PROVE  /\ DateOfTimestamp(created) \in Nat
         /\ Milliseconds(DateOfTimestamp(created)) = created
<1>1. TicksPerMillisecond \in Nat \ {0}
  BY TransactionAssumption
<1>2. created * TicksPerMillisecond \in Nat
  BY <1>1
<1>3. (created * TicksPerMillisecond) \div TicksPerMillisecond = created
  BY <1>1
<1> QED
  BY <1>2, <1>3 DEF Milliseconds, DateOfTimestamp

\* The forms of an array of commands are a sequence of forms.
LEMMA FormsTyped ==
  ASSUME NEW s \in Seq(Command)
  PROVE  [i \in DOMAIN s |-> FormOf(s[i])] \in Seq(CommandForm)
<1>1. [i \in DOMAIN s |-> FormOf(s[i])] \in [1 .. Len(s) -> CommandForm]
  BY DEF CommandForm
<1> QED
  BY <1>1, SeqDef

LEMMA PayloadTyped ==
  ASSUME TypeOK, NEW t \in TransactionType
  PROVE  /\ ReducedPayload(t) \in PbReducedPayload
         /\ Payload(t) \in PbPayload
<1>1. arrays[t.commands] \in Seq(Command)
  BY DEF TypeOK, TransactionType
<1>2. [i \in DOMAIN arrays[t.commands] |-> FormOf(arrays[t.commands][i])] \in Seq(CommandForm)
  BY <1>1, FormsTyped
<1>3. Identifier(t.creator, "@") \in Name \X {"@"} \X Name
  BY DEF Identifier, AccountId, TransactionType
<1>4. t.quorum % Width \in 0 .. Width - 1
  BY CutQuorum DEF TransactionType
<1>8. Milliseconds(t.createdAt) \in UInt64
  BY MillisecondsTyped DEF TransactionType, UInt64
<1>5. ReducedPayload(t) \in PbReducedPayload
  BY <1>2, <1>3, <1>4, <1>8 DEF ReducedPayload, PbReducedPayload
<1>6. t.batchHashes \in Seq(PbReducedPayload) /\ t.batchType \in BatchType
  BY DEF TransactionType
<1>7. Payload(t) \in PbPayload
  BY <1>5, <1>6 DEF Payload, PbPayload, PbBatchMeta, BatchType
<1> QED
  BY <1>5, <1>7

\* What a form that is accepted restores to.
LEMMA RestoredTyped ==
  ASSUME NEW f \in PbTransaction, Accepted(f)
  PROVE  /\ CommandsOf(f) \in Seq(Command)
         /\ Account(f.payload.reducedPayload.creatorAccountId) \in AccountId
         /\ Identifier(Account(f.payload.reducedPayload.creatorAccountId), "@") = f.payload.reducedPayload.creatorAccountId
         /\ f.payload.reducedPayload.quorum \in Nat
         /\ DateOfTimestamp(f.payload.reducedPayload.createdTime) \in Nat
         /\ f.signatures \in Seq(Signature)
         /\ BatchHashesOf(f) \in Seq(PbReducedPayload)
         /\ BatchTypeOf(f) \in BatchType
         /\ BatchTypeOf(f) = None => BatchHashesOf(f) = << >>
<1> DEFINE r == f.payload.reducedPayload
<1>1. f.payload \in PbPayload /\ f.signatures \in Seq(Signature)
  BY DEF PbTransaction
<1>2. r \in PbReducedPayload /\ f.payload.batch \in PbBatchMeta \cup {Nil}
  BY <1>1 DEF PbPayload
<1>3. r.commands \in Seq(CommandForm) /\ r.creatorAccountId \in Name \X {"@"} \X Name
      /\ r.quorum \in 0 .. Width - 1
  BY <1>2 DEF PbReducedPayload
<1>4. CommandsOf(f) \in Seq(Command)
  <2>1. \A i \in 1 .. Len(r.commands) : CommandOf(r.commands[i]) \in Command
    <3> SUFFICES ASSUME NEW i \in 1 .. Len(r.commands)
                 PROVE  CommandOf(r.commands[i]) \in Command
      OBVIOUS
    <3>1. r.commands[i] \in CommandForm
      BY <1>3
    <3>2. PICK c \in Command : r.commands[i] = FormOf(c)
      BY <3>1 DEF CommandForm
    <3> QED
      BY <3>2, OwnCommandsRead
  <2>2. CommandsOf(f) = [i \in 1 .. Len(r.commands) |-> CommandOf(r.commands[i])]
    BY <1>3 DEF CommandsOf
  <2>3. CommandsOf(f) \in [1 .. Len(r.commands) -> Command]
    BY <2>1, <2>2
  <2>4. Len(r.commands) \in Nat
    BY <1>3
  <2> QED
    BY <2>3, <2>4, SeqDef
<1>5. Account(r.creatorAccountId) \in AccountId /\ Identifier(Account(r.creatorAccountId), "@") = r.creatorAccountId
  BY <1>3 DEF Account, ParsedId, Identifier, AccountId
<1>6. r.quorum \in Nat
  BY <1>3, TransactionAssumption
<1>8. DateOfTimestamp(r.createdTime) \in Nat
  BY <1>2, SameMillisecond DEF PbReducedPayload, UInt64
<1>7. /\ BatchHashesOf(f) \in Seq(PbReducedPayload)
      /\ BatchTypeOf(f) \in BatchType
      /\ BatchTypeOf(f) = None => BatchHashesOf(f) = << >>
  <2>1. CASE f.payload.batch = Nil
    BY <2>1 DEF BatchHashesOf, BatchTypeOf, BatchType
  <2>2. CASE f.payload.batch # Nil
    BY <2>2, <1>2, TransactionAssumption DEF BatchHashesOf, BatchTypeOf, BatchType, PbBatchMeta
  <2> QED
    BY <2>1, <2>2
<1> QED
  BY <1>1, <1>4, <1>5, <1>6, <1>7, <1>8

-----------------------------------------------------------------------------
(* Type correctness                                                          *)

LEMMA TypeInit == Init => TypeOK
  BY TransactionAssumption DEF Init, TypeOK, DefaultQuorum

\* The conjuncts of TypeOK that making a transaction can disturb.
LEMMA MakeTyped ==
  ASSUME TypeOK, NEW t, NEW how \in {"built", "signed", "batched", "restored"},
         NEW of \in 0 .. Len(transactions), Make(t, how, of),
         DOMAIN arrays \subseteq DOMAIN arrays', t \in TransactionType',
         t.batchType = None => t.batchHashes = << >>
  PROVE  /\ transactions' \in Seq(TransactionType')
         /\ \A i \in DOMAIN transactions' :
              transactions'[i].batchType = None => transactions'[i].batchHashes = << >>
         /\ origin' \in Seq([how : {"built", "signed", "batched", "restored"}, of : Nat])
         /\ Len(origin') = Len(transactions')
         /\ \A i \in DOMAIN origin' : origin'[i].of < i
         /\ Len(transactions') = Len(transactions) + 1
<1>1. TransactionType \subseteq TransactionType'
  BY DEF TransactionType
<1>2. transactions \in Seq(TransactionType')
  BY <1>1, SeqMonotonic DEF TypeOK
<1>3. /\ transactions' \in Seq(TransactionType')
      /\ Len(transactions') = Len(transactions) + 1
      /\ \A i \in 1 .. Len(transactions) : transactions'[i] = transactions[i]
      /\ transactions'[Len(transactions) + 1] = t
  BY <1>2, AppendProperties DEF Make
<1>4. \A i \in DOMAIN transactions' :
        transactions'[i].batchType = None => transactions'[i].batchHashes = << >>
  <2> SUFFICES ASSUME NEW i \in DOMAIN transactions'
               PROVE  transactions'[i].batchType = None => transactions'[i].batchHashes = << >>
    OBVIOUS
  <2>1. i \in 1 .. Len(transactions) \/ i = Len(transactions) + 1
    BY <1>2, <1>3
  <2>2. CASE i \in 1 .. Len(transactions)
    <3>1. i \in DOMAIN transactions /\ transactions'[i] = transactions[i]
      BY <1>2, <1>3, <2>2
    <3> QED
      BY <3>1 DEF TypeOK
  <2>3. CASE i = Len(transactions) + 1
    BY <1>3, <2>3
  <2> QED
    BY <2>1, <2>2, <2>3
<1> DEFINE entry == [how |-> how, of |-> of]
           Entry == [how : {"built", "signed", "batched", "restored"}, of : Nat]
<1>5. entry \in Entry
  BY DEF TypeOK
<1>6. /\ origin' \in Seq(Entry)
      /\ Len(origin') = Len(origin) + 1
      /\ \A i \in 1 .. Len(origin) : origin'[i] = origin[i]
      /\ origin'[Len(origin) + 1] = entry
  BY <1>5, AppendProperties DEF Make, TypeOK
<1>7. Len(origin) \in Nat /\ Len(origin) = Len(transactions)
  BY DEF TypeOK
<1>8. \A i \in DOMAIN origin' : origin'[i].of < i
  <2> SUFFICES ASSUME NEW i \in DOMAIN origin'
               PROVE  origin'[i].of < i
    OBVIOUS
  <2>1. i \in 1 .. Len(origin) \/ i = Len(origin) + 1
    BY <1>6, <1>7
  <2>2. CASE i \in 1 .. Len(origin)
    <3>1. i \in DOMAIN origin /\ origin'[i] = origin[i]
      BY <1>6, <2>2 DEF TypeOK
    <3> QED
      BY <3>1 DEF TypeOK
  <2>3. CASE i = Len(origin) + 1
    BY <1>6, <1>7, <2>3
  <2> QED
    BY <2>1, <2>2, <2>3
<1> QED
  BY <1>3, <1>4, <1>6, <1>7, <1>8

\* Only a whole list of signatories that sign gives a transaction.
LEMMA SignedTyped ==
  ASSUME TypeOK, NEW t \in TransactionType, NEW signatories \in Signings,
         Signed(t, signatories) # Nil
  PROVE  /\ Signed(t, signatories) = WithSignatures(t, t.signatures \o SignaturesOf(t, signatories))
         /\ SignaturesOf(t, signatories) \in Seq(Signature)
         /\ Signed(t, signatories) \in TransactionType
<1>1. ~SigningFails(signatories)
  BY DEF Signed
<1>2. signatories \in Seq(Signatory \cup {Broken})
  BY TransactionAssumption
<1>3. \A i \in 1 .. Len(signatories) : signatories[i] \in Signatory
  BY <1>1, <1>2 DEF SigningFails
<1>4. TransactionHash(t) \in PbPayload
  BY PayloadTyped DEF TransactionHash
<1>5. SignaturesOf(t, signatories) \in [1 .. Len(signatories) -> Signature]
  BY <1>2, <1>3, <1>4 DEF SignaturesOf, Signature
<1>6. SignaturesOf(t, signatories) \in Seq(Signature)
  BY <1>2, <1>5, SeqDef
<1>7. Signed(t, signatories) = WithSignatures(t, t.signatures \o SignaturesOf(t, signatories))
  BY <1>1 DEF Signed
<1>8. t.signatures \o SignaturesOf(t, signatories) \in Seq(Signature)
  BY <1>6, ConcatProperties DEF TransactionType
<1> QED
  BY <1>6, <1>7, <1>8 DEF WithSignatures, IRTransaction, TransactionType

LEMMA BatchedTyped ==
  ASSUME NEW t \in TransactionType, NEW batch \in Seq(PbReducedPayload), NEW type \in BatchType,
         Batched(t, batch, type) # Nil
  PROVE  /\ Batched(t, batch, type) \in TransactionType
         /\ Batched(t, batch, type).batchType = None => Batched(t, batch, type).batchHashes = << >>
         /\ Batched(t, batch, type).signatures = << >>
         /\ Batched(t, batch, type).creator = t.creator
         /\ Batched(t, batch, type).createdAt = t.createdAt
         /\ Batched(t, batch, type).commands = t.commands
         /\ Batched(t, batch, type).quorum = t.quorum
<1>1. CASE type = None
  BY <1>1 DEF Batched, IRTransaction, TransactionType
<1>2. CASE type # None
  BY <1>2 DEF Batched, IRTransaction, TransactionType
<1> QED
  BY <1>1, <1>2

\* How each action types what it changes.
LEMMA TypeNext == TypeOK /\ [Next]_vars => TypeOK'
<1> SUFFICES ASSUME TypeOK, [Next]_vars
             PROVE  TypeOK'
  OBVIOUS
<1> USE DEF vars
<1>1. ASSUME NEW creator \in Creators, WithCreatorAccountId(creator)
      PROVE  TypeOK'
  BY <1>1 DEF WithCreatorAccountId, TypeOK, TransactionType
<1>2. ASSUME NEW quorum \in Quorums, WithQuorum(quorum)
      PROVE  TypeOK'
  BY <1>2, TransactionAssumption DEF WithQuorum, TypeOK, TransactionType
<1>13. ASSUME NEW date \in Dates, WithCreatedDate(date)
       PROVE  TypeOK'
  BY <1>13, TransactionAssumption DEF WithCreatedDate, TypeOK, TransactionType
<1>3. ASSUME NEW command \in Commands, AddCommand(command)
      PROVE  TypeOK'
  <2>1. command \in Command /\ builder.commands = 1 /\ 1 \in 1 .. Len(arrays)
    BY TransactionAssumption DEF TypeOK
  <2>2. Append(arrays[1], command) \in Seq(Command)
    BY <2>1, AppendProperties DEF TypeOK
  <2>3. arrays' = [arrays EXCEPT ![1] = Append(arrays[1], command)]
    BY <1>3, <2>1 DEF AddCommand
  <2>4. arrays' \in Seq(Seq(Command)) \ {<< >>} /\ DOMAIN arrays' = DOMAIN arrays
    BY <2>1, <2>2, <2>3, ExceptSeq DEF TypeOK
  <2>5. TransactionType' = TransactionType
    BY <2>4 DEF TransactionType
  <2> QED
    BY <1>3, <2>4, <2>5 DEF AddCommand, TypeOK
<1>4. CASE Build
  <2>0. PICK date \in BuildDates :
          Make(IRTransaction(builder.creator, date, builder.commands, builder.quorum, << >>, << >>, None),
               "built", 0)
    BY <1>4 DEF Build
  <2> DEFINE t == IRTransaction(builder.creator, date, builder.commands, builder.quorum, << >>, << >>, None)
  <2>1. t \in TransactionType' /\ t.batchHashes = << >>
    <3>1. date \in Nat
      BY TransactionAssumption DEF BuildDates, TypeOK
    <3> QED
      BY <1>4, <3>1, TransactionAssumption DEF Build, TypeOK, TransactionType, IRTransaction, BatchType
  <2>2. Make(t, "built", 0) /\ arrays' = arrays
    BY <1>4, <2>0 DEF Build
  <2>3. 0 \in 0 .. Len(transactions)
    BY DEF TypeOK
  <2>4. /\ transactions' \in Seq(TransactionType')
        /\ \A i \in DOMAIN transactions' :
             transactions'[i].batchType = None => transactions'[i].batchHashes = << >>
        /\ origin' \in Seq([how : {"built", "signed", "batched", "restored"}, of : Nat])
        /\ Len(origin') = Len(transactions')
        /\ \A i \in DOMAIN origin' : origin'[i].of < i
        /\ Len(transactions') = Len(transactions) + 1
    BY <2>1, <2>2, <2>3, MakeTyped
  <2> QED
    BY <1>4, <2>4 DEF Build, TypeOK
<1>5. ASSUME NEW i \in DOMAIN transactions, NEW signatories \in Signings, Sign(i, signatories)
      PROVE  TypeOK'
  <2> DEFINE t == Signed(transactions[i], signatories)
  <2>1. transactions[i] \in TransactionType /\ i \in 0 .. Len(transactions)
    BY DEF TypeOK
  <2>2. Make(t, "signed", i) /\ arrays' = arrays /\ t # Nil
    BY <1>5 DEF Sign
  <2>3. t \in TransactionType /\ TransactionType' = TransactionType
    BY <2>1, <2>2, SignedTyped DEF TransactionType
  <2>4. t.batchType = None => t.batchHashes = << >>
    <3>1. t = WithSignatures(transactions[i],
                transactions[i].signatures \o SignaturesOf(transactions[i], signatories))
      BY <2>1, <2>2, SignedTyped
    <3>2. t.batchType = transactions[i].batchType /\ t.batchHashes = transactions[i].batchHashes
      BY <3>1 DEF WithSignatures, IRTransaction
    <3>3. transactions[i].batchType = None => transactions[i].batchHashes = << >>
      BY DEF TypeOK
    <3> QED
      BY <3>2, <3>3
  <2> HIDE DEF t
  <2>5. /\ transactions' \in Seq(TransactionType')
        /\ \A j \in DOMAIN transactions' :
             transactions'[j].batchType = None => transactions'[j].batchHashes = << >>
        /\ origin' \in Seq([how : {"built", "signed", "batched", "restored"}, of : Nat])
        /\ Len(origin') = Len(transactions')
        /\ \A j \in DOMAIN origin' : origin'[j].of < j
        /\ Len(transactions') = Len(transactions) + 1
    BY <2>1, <2>2, <2>3, <2>4, MakeTyped
  <2> QED
    BY <1>5, <2>5 DEF Sign, TypeOK
<1>6. ASSUME NEW i \in DOMAIN transactions, CollectBatchHash(i)
      PROVE  TypeOK'
  <2>1. BatchHash(transactions[i]) \in PbReducedPayload
    BY PayloadTyped DEF TypeOK, BatchHash
  <2>2. hashes' \in Seq(PbReducedPayload)
    BY <1>6, <2>1, AppendProperties DEF CollectBatchHash, TypeOK
  <2> QED
    BY <1>6, <2>2 DEF CollectBatchHash, TypeOK, TransactionType
<1>7. ASSUME NEW i \in DOMAIN transactions, NEW type \in BatchType, Batch(i, type)
      PROVE  TypeOK'
  <2> DEFINE t == Batched(transactions[i], hashes, type)
  <2>1. transactions[i] \in TransactionType /\ i \in 0 .. Len(transactions) /\ hashes \in Seq(PbReducedPayload)
    BY DEF TypeOK
  <2>2. Make(t, "batched", i) /\ arrays' = arrays /\ t # Nil
    BY <1>7 DEF Batch
  <2>3. /\ t \in TransactionType /\ TransactionType' = TransactionType
        /\ t.batchType = None => t.batchHashes = << >>
    BY <2>1, <2>2, BatchedTyped DEF TransactionType
  <2> HIDE DEF t
  <2>4. /\ transactions' \in Seq(TransactionType')
        /\ \A j \in DOMAIN transactions' :
             transactions'[j].batchType = None => transactions'[j].batchHashes = << >>
        /\ origin' \in Seq([how : {"built", "signed", "batched", "restored"}, of : Nat])
        /\ Len(origin') = Len(transactions')
        /\ \A j \in DOMAIN origin' : origin'[j].of < j
        /\ Len(transactions') = Len(transactions) + 1
    BY <2>1, <2>2, <2>3, MakeTyped
  <2> QED
    BY <1>7, <2>4 DEF Batch, TypeOK
<1>8. ASSUME NEW i \in DOMAIN transactions, Serialize(i)
      PROVE  TypeOK'
  <2>1. Form(transactions[i]) \in PbTransaction
    <3>1. transactions[i] \in TransactionType
      BY DEF TypeOK
    <3>2. Payload(transactions[i]) \in PbPayload /\ transactions[i].signatures \in Seq(Signature)
      BY <3>1, PayloadTyped DEF TransactionType
    <3> QED
      BY <3>2 DEF Form, PbTransaction
  <2>2. stored'.form \in PbTransaction /\ stored'.of \in 0 .. Len(transactions) /\ stored'.of # 0
    BY <1>8, <2>1 DEF Serialize, TypeOK
  <2> QED
    BY <1>8, <2>2 DEF Serialize, TypeOK, TransactionType
<1>9. ASSUME NEW form \in PendingForms, Fetch(form)
      PROVE  TypeOK'
  <2>1. stored'.form \in PendingForms /\ stored'.of \in 0 .. Len(transactions) /\ stored'.of = 0
    BY <1>9 DEF Fetch, TypeOK
  <2> QED
    BY <1>9, <2>1 DEF Fetch, TypeOK, TransactionType
<1>10. CASE Restore
  <2> DEFINE f == stored.form
             t == TransactionOf(f, Len(arrays) + 1)
  <2>1. stored # Nil /\ Accepted(f) /\ f \in PbTransaction /\ stored.of \in 0 .. Len(transactions)
    BY <1>10, PendingAssumption DEF Restore, TypeOK
  <2>2. CommandsOf(f) \in Seq(Command)
    BY <2>1, RestoredTyped
  <2>3. /\ arrays' \in Seq(Seq(Command)) \ {<< >>}
        /\ Len(arrays') = Len(arrays) + 1
        /\ Len(arrays) \in Nat
        /\ DOMAIN arrays' = 1 .. Len(arrays) + 1
        /\ DOMAIN arrays = 1 .. Len(arrays)
    <3>1. arrays' = Append(arrays, CommandsOf(f))
      BY <1>10 DEF Restore
    <3>2. arrays \in Seq(Seq(Command))
      BY DEF TypeOK
    <3>3. arrays' \in Seq(Seq(Command)) /\ arrays' # << >> /\ Len(arrays') = Len(arrays) + 1
      BY <2>2, <3>1, <3>2, AppendProperties
    <3> QED
      BY <3>2, <3>3, LenProperties
  <2>4. t \in TransactionType' /\ (t.batchType = None => t.batchHashes = << >>)
    BY <2>1, <2>3, RestoredTyped DEF TransactionOf, IRTransaction, TransactionType
  <2>5. Make(t, "restored", stored.of)
    BY <1>10 DEF Restore
  <2>6. DOMAIN arrays \subseteq DOMAIN arrays'
    BY <2>3
  <2> HIDE DEF t
  <2>7. /\ transactions' \in Seq(TransactionType')
        /\ \A j \in DOMAIN transactions' :
             transactions'[j].batchType = None => transactions'[j].batchHashes = << >>
        /\ origin' \in Seq([how : {"built", "signed", "batched", "restored"}, of : Nat])
        /\ Len(origin') = Len(transactions')
        /\ \A j \in DOMAIN origin' : origin'[j].of < j
        /\ Len(transactions') = Len(transactions) + 1
    BY <2>1, <2>4, <2>5, <2>6, MakeTyped
  <2>8. builder' = builder /\ hashes' = hashes /\ stored' = stored
    BY <1>10 DEF Restore
  <2>9. stored.of \in 0 .. Len(transactions')
    BY <2>1, <2>7 DEF TypeOK
  <2>10. /\ builder \in [creator : Creators \cup {Nil}, createdAt : Nat \cup {Nil}, quorum : Nat,
                       commands : {1}]
         /\ hashes \in Seq(PbReducedPayload)
    BY DEF TypeOK
  <2> QED
    BY <2>1, <2>3, <2>7, <2>8, <2>9, <2>10 DEF TypeOK
<1>11. CASE RestoreRefused
  BY <1>11 DEF RestoreRefused, TypeOK, TransactionType
<1>14. CASE RestoreRaises
  BY <1>14 DEF RestoreRaises, TypeOK, TransactionType
<1>12. CASE UNCHANGED vars
  BY <1>12 DEF TypeOK, TransactionType
<1> QED
  BY <1>1, <1>2, <1>3, <1>4, <1>5, <1>6, <1>7, <1>8, <1>9, <1>10, <1>11, <1>12,
     <1>13, <1>14 DEF Next

\* Type correctness of the builder, the arrays and every transaction, for any
\* application and any pending transactions.
THEOREM TypeCorrect == Spec => []TypeOK
  BY TypeInit, TypeNext, PTL DEF Spec

\* What this library spells is read: nothing in it is refused, and no batch hash
\* of it is anything but a hash.
LEMMA OwnFormsAccepted ==
  ASSUME NEW f \in PbTransaction
  PROVE  Accepted(f)
<1> DEFINE r == f.payload.reducedPayload
<1>1. f.payload \in PbPayload /\ f.signatures \in Seq(Signature)
  BY DEF PbTransaction
<1>2. r \in PbReducedPayload /\ f.payload.batch \in PbBatchMeta \cup {Nil}
  BY <1>1 DEF PbPayload
<1>3. \A s \in DOMAIN f.signatures : f.signatures[s].by \in Signatory
  <2> SUFFICES ASSUME NEW s \in DOMAIN f.signatures
               PROVE  f.signatures[s].by \in Signatory
    OBVIOUS
  <2>1. f.signatures[s] \in Signature
    BY <1>1
  <2> QED
    BY <2>1 DEF Signature
<1>4. Account(r.creatorAccountId) # Nil
  <2>1. r.creatorAccountId \in Name \X {"@"} \X Name
    BY <1>2 DEF PbReducedPayload
  <2> QED
    BY <2>1, CodecAssumption DEF Account, ParsedId
<1>5. \A i \in DOMAIN CommandsOf(f) : CommandsOf(f)[i] # Nil
  <2> SUFFICES ASSUME NEW i \in DOMAIN r.commands
               PROVE  CommandOf(r.commands[i]) # Nil
    BY DEF CommandsOf
  <2>1. r.commands[i] \in CommandForm
    BY <1>2 DEF PbReducedPayload
  <2>2. PICK c \in Command : r.commands[i] = FormOf(c)
    BY <2>1 DEF CommandForm
  <2> QED
    <3>1. CommandOf(FormOf(c)) \in Command
      BY OwnCommandsRead
    <3> QED
      BY <2>2, <3>1, NilAssumption
<1>6. f.payload.batch # Nil =>
        /\ f.payload.batch.type \in {Atomic, Ordered}
        /\ f.payload.batch.reducedHashes \in Seq(PbReducedPayload)
  BY <1>2 DEF PbBatchMeta
<1>7. ~Raises(f)
  BY <1>6, PendingAssumption DEF Raises
<1> QED
  BY <1>3, <1>4, <1>5, <1>6, <1>7 DEF Accepted, Readable

\* Bytes made of a transaction are never refused and never raise an exception,
\* for any application and any pending transactions.
THEOREM OwnBytes == Spec => []OwnBytesRead
<1>1. TypeOK => OwnBytesRead
  BY OwnFormsAccepted DEF TypeOK, OwnBytesRead
<1> QED
  BY <1>1, TypeCorrect, PTL

-----------------------------------------------------------------------------
(* What a hash says, whoever adds, signs and restores what                   *)

\* Two transactions ask the same of a peer: all that they differ in is what is not
\* sent, a part of a millisecond and what 32 bits do not hold of a quorum.
AskAlike(t, u) ==
  /\ arrays[t.commands] = arrays[u.commands]
  /\ t.creator = u.creator
  /\ Milliseconds(t.createdAt) = Milliseconds(u.createdAt)
  /\ t.quorum % Width = u.quorum % Width

InOneBatch(t, u) == t.batchType = u.batchType /\ t.batchHashes = u.batchHashes

HashTells ==
  \A i, j \in DOMAIN transactions :
    LET t == transactions[i]
        u == transactions[j]
    IN  /\ BatchHash(t) = BatchHash(u) => AskAlike(t, u)
        /\ TransactionHash(t) = TransactionHash(u) => AskAlike(t, u) /\ InOneBatch(t, u)

\* Commands that are written as the same forms are the same.
LEMMA CommandListsDiffer ==
  ASSUME NEW a \in Seq(Command), NEW b \in Seq(Command),
         [i \in DOMAIN a |-> FormOf(a[i])] = [i \in DOMAIN b |-> FormOf(b[i])]
  PROVE  a = b
<1>1. DOMAIN a = DOMAIN b /\ \A i \in DOMAIN a : FormOf(a[i]) = FormOf(b[i])
  <2> DEFINE f == [i \in DOMAIN a |-> FormOf(a[i])]
             g == [i \in DOMAIN b |-> FormOf(b[i])]
  <2>1. f = g /\ DOMAIN f = DOMAIN a /\ DOMAIN g = DOMAIN b
    OBVIOUS
  <2>2. /\ \A i \in DOMAIN a : f[i] = FormOf(a[i])
        /\ \A i \in DOMAIN b : g[i] = FormOf(b[i])
    OBVIOUS
  <2> QED
    BY <2>1, <2>2
<1>2. \A i \in DOMAIN a : a[i] \in Command /\ b[i] \in Command
  BY <1>1, ElementOfSeq, LenProperties
<1>3. \A i \in DOMAIN a : a[i] = b[i]
  BY <1>1, <1>2, CommandsDiffer
<1>4. Len(a) = Len(b) /\ DOMAIN a = 1 .. Len(a)
  BY <1>1, LenProperties
<1> QED
  BY <1>3, <1>4, SeqEqual

\* Two transactions with one hash, or one batch hash, ask the same of a peer, and
\* those with one hash in the same batch: a signature is for one transaction and a
\* batch names its members, as far as different payloads have different hashes.
\* createPayload: leaves nothing out that a transaction says, and no transform:
\* writes two commands in one way.
THEOREM HashesTell == Spec => []HashTells
<1>1. TypeOK => HashTells
  <2> SUFFICES ASSUME TypeOK, NEW i \in DOMAIN transactions, NEW j \in DOMAIN transactions,
                      NEW t, NEW u, t = transactions[i], u = transactions[j]
               PROVE  /\ BatchHash(t) = BatchHash(u) => AskAlike(t, u)
                      /\ TransactionHash(t) = TransactionHash(u) =>
                           AskAlike(t, u) /\ InOneBatch(t, u)
    BY DEF HashTells
  <2>1. /\ t \in TransactionType /\ u \in TransactionType
        /\ t.batchType = None => t.batchHashes = << >>
        /\ u.batchType = None => u.batchHashes = << >>
    <3>1. transactions \in Seq(TransactionType)
      BY DEF TypeOK
    <3> HIDE DEF TransactionType
    <3>2. t \in TransactionType /\ u \in TransactionType
      BY <3>1, ElementOfSeq, LenProperties
    <3> QED
      BY <3>2 DEF TypeOK
  <2>2. arrays[t.commands] \in Seq(Command) /\ arrays[u.commands] \in Seq(Command)
    <3>1. arrays \in Seq(Seq(Command)) /\ t.commands \in DOMAIN arrays /\ u.commands \in DOMAIN arrays
      BY <2>1 DEF TypeOK, TransactionType
    <3> QED
      BY <3>1, ElementOfSeq, LenProperties
  <2>3. ASSUME ReducedPayload(t) = ReducedPayload(u)
        PROVE  AskAlike(t, u)
    <3>1. /\ [k \in DOMAIN arrays[t.commands] |-> FormOf(arrays[t.commands][k])] =
               [k \in DOMAIN arrays[u.commands] |-> FormOf(arrays[u.commands][k])]
          /\ Identifier(t.creator, "@") = Identifier(u.creator, "@")
          /\ Milliseconds(t.createdAt) = Milliseconds(u.createdAt)
          /\ t.quorum % Width = u.quorum % Width
      BY <2>3 DEF ReducedPayload
    <3>2. arrays[t.commands] = arrays[u.commands]
      BY <2>2, <3>1, CommandListsDiffer
    <3>3. t.creator = u.creator
      BY <2>1, <3>1, IdentifierReads DEF TransactionType, AccountId
    <3> QED
      BY <3>1, <3>2, <3>3 DEF AskAlike
  <2>4. ASSUME Payload(t) = Payload(u)
        PROVE  ReducedPayload(t) = ReducedPayload(u) /\ InOneBatch(t, u)
    <3> DEFINE Meta(v) == [type |-> v.batchType, reducedHashes |-> v.batchHashes]
    <3>1. /\ ReducedPayload(t) = ReducedPayload(u)
          /\ (IF t.batchType = None THEN Nil ELSE Meta(t)) =
               (IF u.batchType = None THEN Nil ELSE Meta(u))
      BY <2>4 DEF Payload
    <3>2. \A v \in TransactionType : v.batchType # None => Meta(v) # Nil
      BY PendingAssumption DEF TransactionType, BatchType, PbBatchMeta
    <3>3. Meta(t) = Meta(u) => InOneBatch(t, u)
      BY DEF InOneBatch
    <3> QED
      BY <2>1, <3>1, <3>2, <3>3 DEF InOneBatch
  <2> QED
    BY <2>3, <2>4 DEF BatchHash, TransactionHash
<1> QED
  BY <1>1, TypeCorrect, PTL

-----------------------------------------------------------------------------
(* Safety, for an application that adds no command to a builder it has built *)
(* from and gives every compareAndSet its old value, and for pending         *)
(* transactions that are spelled as this library spells them and signed by   *)
(* those who say so.                                                         *)

\* A form whose commands are written as they are read, and whose signatures
\* are over its payload.
Verified(f) ==
  LET commands == f.payload.reducedPayload.commands IN
  /\ \A i \in DOMAIN commands :
       FormOf(CommandOf(commands[i])) = commands[i] /\ Faithful(CommandOf(commands[i]))
  /\ \A s \in DOMAIN f.signatures : f.signatures[s].over = f.payload

Careful ==
  /\ ~Reuse
  /\ \A command \in Commands : Faithful(command)
  /\ \A f \in PendingForms : Accepted(f) => Verified(f)

\* A transaction is made from the builder's array only by build.
Frozen ==
  \A i \in DOMAIN transactions : transactions[i].commands = builder.commands => BuiltFrom

FaithfulArrays ==
  \A a \in DOMAIN arrays : \A i \in DOMAIN arrays[a] : Faithful(arrays[a][i])

StoredVerified == stored # Nil /\ Accepted(stored.form) => Verified(stored.form)

StoredIsForm == stored # Nil /\ stored.of > 0 => stored.form = Form(transactions[stored.of])

Safe == SignaturesVerify /\ SignaturesKept /\ BatchHashKept /\ RestoredHashIsSame

SafeInv == Frozen /\ FaithfulArrays /\ StoredVerified /\ StoredIsForm /\ Safe

(* The payload as an operator of the transaction and its commands            *)

ReducedOf(t, commands) ==
  [commands |-> [i \in DOMAIN commands |-> FormOf(commands[i])],
   creatorAccountId |-> Identifier(t.creator, "@"),
   createdTime |-> Milliseconds(t.createdAt),
   quorum |-> t.quorum % Width]

PayloadOf(t, commands) ==
  [reducedPayload |-> ReducedOf(t, commands),
   batch |-> IF t.batchType = None THEN Nil
             ELSE [type |-> t.batchType, reducedHashes |-> t.batchHashes]]

\* No step changes a transaction made before it, nor its commands.
LEMMA OldStay ==
  ASSUME TypeOK, Careful, Frozen, [Next]_vars, NEW i \in DOMAIN transactions
  PROVE  /\ i \in DOMAIN transactions'
         /\ transactions'[i] = transactions[i]
         /\ origin'[i] = origin[i]
         /\ transactions[i].commands \in DOMAIN arrays'
         /\ arrays'[transactions[i].commands] = arrays[transactions[i].commands]
<1>1. /\ transactions \in Seq(TransactionType)
      /\ origin \in Seq([how : {"built", "signed", "batched", "restored"}, of : Nat])
      /\ Len(origin) = Len(transactions)
      /\ arrays \in Seq(Seq(Command))
      /\ transactions[i].commands \in DOMAIN arrays
  <2>1. transactions \in Seq(TransactionType)
    BY DEF TypeOK
  <2>2. transactions[i] \in TransactionType
    BY <2>1
  <2> QED
    BY <2>1, <2>2 DEF TypeOK, TransactionType
<1>2. ASSUME NEW command \in Commands, AddCommand(command)
      PROVE  /\ transactions' = transactions /\ origin' = origin
             /\ transactions[i].commands \in DOMAIN arrays'
             /\ arrays'[transactions[i].commands] = arrays[transactions[i].commands]
  BY <1>1, <1>2 DEF AddCommand, Careful, Frozen
<1>3. ASSUME NEW t, NEW how, NEW of, Make(t, how, of)
      PROVE  /\ i \in DOMAIN transactions'
             /\ transactions'[i] = transactions[i]
             /\ origin'[i] = origin[i]
  BY <1>1, <1>3 DEF Make
<1>4. CASE Restore
  <2>1. /\ transactions[i].commands \in DOMAIN arrays'
        /\ arrays'[transactions[i].commands] = arrays[transactions[i].commands]
    BY <1>1, <1>4 DEF Restore
  <2> QED
    BY <1>3, <1>4, <2>1 DEF Restore
<1>5. CASE Build \/ (\E j \in DOMAIN transactions :
                       \/ \E signatories \in Signings : Sign(j, signatories)
                       \/ \E type \in BatchType : Batch(j, type))
  <2>1. arrays' = arrays /\ \E t, how, of : Make(t, how, of)
    BY <1>5 DEF Build, Sign, Batch
  <2> QED
    BY <1>1, <1>3, <2>1
<1>6. CASE transactions' = transactions /\ origin' = origin /\ arrays' = arrays
  BY <1>1, <1>6
<1> QED
  BY <1>2, <1>4, <1>5, <1>6
  DEF Next, WithCreatorAccountId, WithCreatedDate, WithQuorum, CollectBatchHash, Serialize, Fetch,
      RestoreRefused, RestoreRaises, vars

\* A verified form restores to a transaction with the payload of the form.
LEMMA RestoredPayload ==
  ASSUME NEW f \in PbTransaction, Accepted(f), Verified(f), NEW array
  PROVE  PayloadOf(TransactionOf(f, array), CommandsOf(f)) = f.payload
<1> DEFINE t == TransactionOf(f, array)
           r == f.payload.reducedPayload
<1>1. f.payload \in PbPayload
  BY DEF PbTransaction
<1>2. /\ r \in PbReducedPayload
      /\ f.payload.batch \in PbBatchMeta \cup {Nil}
      /\ f.payload = [reducedPayload |-> r, batch |-> f.payload.batch]
  BY <1>1 DEF PbPayload
<1>3. /\ r.commands \in Seq(CommandForm)
      /\ r.quorum \in 0 .. Width - 1
      /\ r.createdTime \in Nat
      /\ r = [commands |-> r.commands, creatorAccountId |-> r.creatorAccountId,
              createdTime |-> r.createdTime, quorum |-> r.quorum]
  BY <1>2 DEF PbReducedPayload, UInt64
<1>4. /\ DOMAIN CommandsOf(f) = DOMAIN r.commands
      /\ \A i \in DOMAIN r.commands : FormOf(CommandsOf(f)[i]) = r.commands[i]
  BY DEF CommandsOf, Verified
<1>5. [i \in DOMAIN CommandsOf(f) |-> FormOf(CommandsOf(f)[i])] = r.commands
  BY <1>3, <1>4
<1>6. Identifier(t.creator, "@") = r.creatorAccountId
  BY RestoredTyped DEF TransactionOf, IRTransaction
<1>7. t.quorum % Width = r.quorum
  <2>1. t.quorum = r.quorum
    BY DEF TransactionOf, IRTransaction
  <2> QED
    BY <2>1, <1>3, CutQuorum, RestoredTyped
<1>11. Milliseconds(t.createdAt) = r.createdTime
  <2>1. t.createdAt = DateOfTimestamp(r.createdTime)
    BY DEF TransactionOf, IRTransaction
  <2> QED
    BY <2>1, <1>3, SameMillisecond
<1>8. ReducedOf(t, CommandsOf(f)) = r
  BY <1>3, <1>5, <1>6, <1>7, <1>11 DEF ReducedOf
<1>9. (IF t.batchType = None THEN Nil ELSE [type |-> t.batchType, reducedHashes |-> t.batchHashes])
        = f.payload.batch
  <2>1. t.batchType = BatchTypeOf(f) /\ t.batchHashes = BatchHashesOf(f)
    BY DEF TransactionOf, IRTransaction
  <2>2. CASE f.payload.batch = Nil
    BY <2>1, <2>2 DEF BatchTypeOf
  <2>3. CASE f.payload.batch # Nil
    BY <2>1, <2>3, <1>2, TransactionAssumption DEF BatchTypeOf, BatchHashesOf, PbBatchMeta
  <2> QED
    BY <2>2, <2>3
<1> HIDE DEF t
<1>10. PayloadOf(t, CommandsOf(f)) = [reducedPayload |-> r, batch |-> f.payload.batch]
  BY <1>8, <1>9 DEF PayloadOf
<1> QED
  BY <1>2, <1>10 DEF t

\* The form of a transaction is verified if its signatures verify.
LEMMA WrittenVerified ==
  ASSUME TypeOK, SafeInv, NEW i \in DOMAIN transactions
  PROVE  Verified(Form(transactions[i]))
<1> DEFINE t == transactions[i]
           commands == arrays[t.commands]
<1>1. t.commands \in DOMAIN arrays /\ commands \in Seq(Command)
  <2>1. t \in TransactionType
    BY DEF TypeOK
  <2> QED
    BY <2>1 DEF TypeOK, TransactionType
<1>2. Form(t).payload.reducedPayload.commands = [k \in DOMAIN commands |-> FormOf(commands[k])]
  BY DEF Form, Payload, ReducedPayload
<1>3. ASSUME NEW k \in DOMAIN commands
      PROVE  CommandOf(FormOf(commands[k])) = commands[k] /\ Faithful(commands[k])
  <2>1. commands[k] \in Command
    BY <1>1
  <2>2. Faithful(commands[k])
    BY <1>1 DEF SafeInv, FaithfulArrays
  <2> QED
    BY <2>1, <2>2, CommandReads
<1>4. \A s \in DOMAIN t.signatures : t.signatures[s].over = Form(t).payload
  BY DEF SafeInv, Safe, SignaturesVerify, TransactionHash, Form
<1>5. Form(t).signatures = t.signatures
  BY DEF Form
<1> QED
  BY <1>2, <1>3, <1>4, <1>5 DEF Verified

(* The four properties, one transaction at a time                            *)

SafeAt(i) ==
  LET t    == transactions[i]
      from == origin[i].of
      t0   == transactions[from]
  IN
  /\ \A s \in DOMAIN t.signatures : t.signatures[s].over = PayloadOf(t, arrays[t.commands])
  /\ from > 0 => ReducedOf(t, arrays[t.commands]) = ReducedOf(t0, arrays[t0.commands])
  /\ from > 0 /\ origin[i].how = "restored" =>
       PayloadOf(t, arrays[t.commands]) = PayloadOf(t0, arrays[t0.commands])
  /\ from > 0 /\ origin[i].how # "batched" =>
       /\ Len(t0.signatures) <= Len(t.signatures)
       /\ \A s \in DOMAIN t0.signatures : t.signatures[s] = t0.signatures[s]

AllSafe == \A i \in DOMAIN transactions : SafeAt(i)

LEMMA SafeIsSafeAt == Safe <=> AllSafe
<1>1. \A i \in DOMAIN transactions :
        /\ Payload(transactions[i]) = PayloadOf(transactions[i], arrays[transactions[i].commands])
        /\ ReducedPayload(transactions[i]) =
             ReducedOf(transactions[i], arrays[transactions[i].commands])
  BY DEF Payload, ReducedPayload, PayloadOf, ReducedOf
<1>2. \A i : /\ Payload(transactions[origin[i].of]) =
                  PayloadOf(transactions[origin[i].of], arrays[transactions[origin[i].of].commands])
             /\ ReducedPayload(transactions[origin[i].of]) =
                  ReducedOf(transactions[origin[i].of], arrays[transactions[origin[i].of].commands])
  BY DEF Payload, ReducedPayload, PayloadOf, ReducedOf
<1>3. SignaturesVerify <=>
        \A i \in DOMAIN transactions : \A s \in DOMAIN transactions[i].signatures :
          transactions[i].signatures[s].over =
            PayloadOf(transactions[i], arrays[transactions[i].commands])
  BY <1>1 DEF SignaturesVerify, TransactionHash
<1>4. BatchHashKept <=>
        \A i \in DOMAIN transactions : origin[i].of > 0 =>
          ReducedOf(transactions[i], arrays[transactions[i].commands]) =
            ReducedOf(transactions[origin[i].of], arrays[transactions[origin[i].of].commands])
  BY <1>1, <1>2 DEF BatchHashKept, BatchHash
<1>5. RestoredHashIsSame <=>
        \A i \in DOMAIN transactions : origin[i].of > 0 /\ origin[i].how = "restored" =>
          PayloadOf(transactions[i], arrays[transactions[i].commands]) =
            PayloadOf(transactions[origin[i].of], arrays[transactions[origin[i].of].commands])
  BY <1>1, <1>2 DEF RestoredHashIsSame, TransactionHash
<1> QED
  BY <1>3, <1>4, <1>5 DEF Safe, AllSafe, SafeAt, SignaturesKept

\* What held of a transaction goes on holding.
LEMMA OldSafe ==
  ASSUME TypeOK, Careful, SafeInv, [Next]_vars, NEW i \in DOMAIN transactions
  PROVE  SafeAt(i)'
<1>1. SafeAt(i)
  BY SafeIsSafeAt DEF SafeInv, AllSafe
<1>2. /\ transactions'[i] = transactions[i]
      /\ origin'[i] = origin[i]
      /\ arrays'[transactions[i].commands] = arrays[transactions[i].commands]
  BY OldStay DEF SafeInv
<1>3. CASE origin[i].of > 0
  <2>1. origin[i].of \in DOMAIN transactions
    <3>1. /\ DOMAIN transactions = 1 .. Len(transactions)
          /\ DOMAIN origin = 1 .. Len(transactions)
          /\ Len(transactions) \in Nat
      BY DEF TypeOK
    <3>2. i \in DOMAIN origin
      BY <3>1
    <3>3. origin[i] \in [how : {"built", "signed", "batched", "restored"}, of : Nat]
      <4>1. origin \in Seq([how : {"built", "signed", "batched", "restored"}, of : Nat])
        BY DEF TypeOK
      <4>2. i \in 1 .. Len(origin)
        BY <3>2, <4>1, LenProperties
      <4> QED
        BY <4>1, <4>2, ElementOfSeq
    <3>4. origin[i].of \in Nat /\ origin[i].of < i
      BY <3>2, <3>3 DEF TypeOK
    <3> QED
      BY <1>3, <3>1, <3>4
  <2>2. /\ transactions'[origin[i].of] = transactions[origin[i].of]
        /\ arrays'[transactions[origin[i].of].commands] =
             arrays[transactions[origin[i].of].commands]
    BY <2>1, OldStay DEF SafeInv
  <2> QED
    BY <1>1, <1>2, <2>2 DEF SafeAt
<1>4. CASE ~(origin[i].of > 0)
  BY <1>1, <1>2, <1>4 DEF SafeAt
<1> QED
  BY <1>3, <1>4

\* A step that makes no transaction keeps the four properties.
LEMMA KeptSafe ==
  ASSUME TypeOK, Careful, SafeInv, [Next]_vars, DOMAIN transactions' = DOMAIN transactions
  PROVE  Safe'
<1>1. \A i \in DOMAIN transactions' : SafeAt(i)'
  BY OldSafe
<1>2. Safe' <=> AllSafe'
  BY SafeIsSafeAt, PTL
<1> QED
  BY <1>1, <1>2 DEF AllSafe

\* A step that makes one has to establish them of the new one only.
LEMMA NewSafe ==
  ASSUME TypeOK, Careful, SafeInv, [Next]_vars,
         NEW t, NEW how, NEW of \in 0 .. Len(transactions), Make(t, how, of),
         \A s \in DOMAIN t.signatures : t.signatures[s].over = PayloadOf(t, arrays'[t.commands]),
         of > 0 => ReducedOf(t, arrays'[t.commands]) =
                     ReducedOf(transactions[of], arrays[transactions[of].commands]),
         of > 0 /\ how = "restored" =>
           PayloadOf(t, arrays'[t.commands]) =
             PayloadOf(transactions[of], arrays[transactions[of].commands]),
         of > 0 /\ how # "batched" =>
           /\ Len(transactions[of].signatures) <= Len(t.signatures)
           /\ \A s \in DOMAIN transactions[of].signatures :
                t.signatures[s] = transactions[of].signatures[s]
  PROVE  Safe'
<1> DEFINE n == Len(transactions) + 1
<1>1. /\ Len(transactions) \in Nat
      /\ DOMAIN transactions = 1 .. Len(transactions)
      /\ DOMAIN transactions' = 1 .. n
      /\ transactions'[n] = t
      /\ origin'[n] = [how |-> how, of |-> of]
  BY DEF TypeOK, Make
<1>2. ASSUME NEW i, i = n
      PROVE  SafeAt(i)'
  <2>1. CASE of > 0
    <3>1. of \in DOMAIN transactions
      BY <1>1, <2>1
    <3>2. /\ transactions'[of] = transactions[of]
          /\ arrays'[transactions[of].commands] = arrays[transactions[of].commands]
      BY <3>1, OldStay DEF SafeInv
    <3> QED
      BY <1>1, <1>2, <2>1, <3>2 DEF SafeAt
  <2>2. CASE ~(of > 0)
    BY <1>1, <1>2, <2>2 DEF SafeAt
  <2> QED
    BY <2>1, <2>2
<1>3. \A i \in DOMAIN transactions' : SafeAt(i)'
  BY <1>1, <1>2, OldSafe
<1>4. Safe' <=> AllSafe'
  BY SafeIsSafeAt, PTL
<1> QED
  BY <1>3, <1>4 DEF AllSafe

\* The invariant of the arrays and of the stored bytes, and the four properties.
LEMMA SafeInit == Init => SafeInv
  BY DEF Init, SafeInv, Frozen, FaithfulArrays, StoredVerified, StoredIsForm, Safe,
     SignaturesVerify, SignaturesKept, BatchHashKept, RestoredHashIsSame

\* The form of a transaction does not change: what was stored stays its form.
LEMMA StoredKept ==
  ASSUME TypeOK, Careful, SafeInv, [Next]_vars, stored' = stored
  PROVE  StoredVerified' /\ StoredIsForm'
<1>1. StoredVerified'
  BY DEF SafeInv, StoredVerified
<1>2. ASSUME stored # Nil, stored.of > 0
      PROVE  stored.form = Form(transactions[stored.of])'
  <2>1. PICK i \in DOMAIN transactions : i = stored.of
    BY <1>2 DEF TypeOK
  <2>2. transactions'[i] = transactions[i] /\ arrays'[transactions[i].commands] = arrays[transactions[i].commands]
    BY OldStay DEF SafeInv
  <2>3. stored.form = Form(transactions[i])
    BY <1>2, <2>1 DEF SafeInv, StoredIsForm
  <2>4. Form(transactions[i])' = Form(transactions[i])
    BY <2>2 DEF Form, Payload, ReducedPayload
  <2> QED
    BY <2>1, <2>3, <2>4
<1>3. StoredIsForm'
  BY <1>2 DEF StoredIsForm
<1> QED
  BY <1>1, <1>3

\* What making a transaction from the builder's array, or from that of another
\* transaction, does to the invariant of the arrays.
LEMMA ArraysKept ==
  ASSUME TypeOK, SafeInv, NEW t, NEW how, NEW of, Make(t, how, of),
         arrays' = arrays, builder' = builder,
         \/ how = "built"
         \/ \E i \in DOMAIN transactions : t.commands = transactions[i].commands
  PROVE  Frozen' /\ FaithfulArrays'
<1>1. /\ transactions \in Seq(TransactionType)
      /\ origin \in Seq([how : {"built", "signed", "batched", "restored"}, of : Nat])
      /\ Len(origin) = Len(transactions)
  BY DEF TypeOK
<1>2. BuiltFrom \/ how = "built" => BuiltFrom'
  BY <1>1 DEF BuiltFrom, Make
<1>3. \A i \in DOMAIN transactions' :
        \/ i \in DOMAIN transactions /\ transactions'[i] = transactions[i]
        \/ transactions'[i] = t
  BY <1>1 DEF Make
<1> QED
  BY <1>2, <1>3 DEF SafeInv, Frozen, FaithfulArrays

LEMMA SafeNext == TypeOK /\ TypeOK' /\ Careful /\ SafeInv /\ [Next]_vars => SafeInv'
<1> SUFFICES ASSUME TypeOK, TypeOK', Careful, SafeInv, [Next]_vars
             PROVE  SafeInv'
  OBVIOUS
<1>1. CASE \/ \E creator \in Creators : WithCreatorAccountId(creator)
           \/ \E date \in Dates : WithCreatedDate(date)
           \/ \E quorum \in Quorums : WithQuorum(quorum)
           \/ \E i \in DOMAIN transactions : CollectBatchHash(i)
           \/ UNCHANGED vars
  <2>1. /\ arrays' = arrays /\ transactions' = transactions /\ origin' = origin /\ stored' = stored
        /\ builder'.commands = builder.commands
    BY <1>1 DEF WithCreatorAccountId, WithCreatedDate, WithQuorum, CollectBatchHash, vars, TypeOK
  <2>2. Frozen' /\ FaithfulArrays'
    BY <2>1 DEF SafeInv, Frozen, FaithfulArrays, BuiltFrom
  <2> QED
    BY <2>1, <2>2, StoredKept, KeptSafe DEF SafeInv
<1>2. ASSUME NEW command \in Commands, AddCommand(command)
      PROVE  SafeInv'
  <2>1. /\ transactions' = transactions /\ origin' = origin /\ stored' = stored /\ builder' = builder
        /\ arrays' = [arrays EXCEPT ![builder.commands] = Append(arrays[builder.commands], command)]
    BY <1>2 DEF AddCommand
  <2>2. arrays \in Seq(Seq(Command)) /\ builder.commands \in DOMAIN arrays /\ command \in Command
    BY TransactionAssumption DEF TypeOK
  <2>3. Frozen'
    BY <2>1 DEF SafeInv, Frozen, BuiltFrom
  <2>4. FaithfulArrays'
    <3> SUFFICES ASSUME NEW a \in DOMAIN arrays', NEW i \in DOMAIN arrays'[a]
                 PROVE  Faithful(arrays'[a][i])
      BY DEF FaithfulArrays
    <3>1. CASE a # builder.commands
      BY <2>1, <2>2, <3>1 DEF SafeInv, FaithfulArrays
    <3>2. CASE a = builder.commands
      <4>1. arrays'[a] = Append(arrays[a], command) /\ a \in DOMAIN arrays /\ arrays[a] \in Seq(Command)
        BY <2>1, <2>2, <3>2
      <4>2. \/ i \in DOMAIN arrays[a] /\ arrays'[a][i] = arrays[a][i]
            \/ arrays'[a][i] = command
        BY <2>2, <4>1, AppendProperties
      <4> QED
        BY <4>1, <4>2 DEF SafeInv, FaithfulArrays, Careful
    <3> QED
      BY <3>1, <3>2
  <2> QED
    BY <2>1, <2>3, <2>4, StoredKept, KeptSafe DEF SafeInv
<1>3. CASE Build
  <2>0. PICK date \in BuildDates :
          Make(IRTransaction(builder.creator, date, builder.commands, builder.quorum, << >>, << >>, None),
               "built", 0)
    BY <1>3 DEF Build
  <2> DEFINE t == IRTransaction(builder.creator, date, builder.commands, builder.quorum, << >>, << >>, None)
  <2>1. /\ Make(t, "built", 0) /\ t.signatures = << >>
        /\ arrays' = arrays /\ builder' = builder /\ stored' = stored
    BY <1>3, <2>0 DEF Build, IRTransaction
  <2>2. 0 \in 0 .. Len(transactions)
    BY DEF TypeOK
  <2> HIDE DEF t
  <2>3. Frozen' /\ FaithfulArrays'
    BY <2>1, ArraysKept
  <2>4. Safe'
    BY <2>1, <2>2, NewSafe
  <2> QED
    BY <2>1, <2>3, <2>4, StoredKept DEF SafeInv
<1>4. ASSUME NEW i \in DOMAIN transactions, NEW signatories \in Signings, Sign(i, signatories)
      PROVE  SafeInv'
  <2> DEFINE t0 == transactions[i]
             t  == Signed(t0, signatories)
             cs == arrays[t0.commands]
  <2>1. /\ Make(t, "signed", i) /\ t # Nil
        /\ arrays' = arrays /\ builder' = builder /\ stored' = stored
    BY <1>4 DEF Sign
  <2>2. t0 \in TransactionType /\ i \in 0 .. Len(transactions) /\ i > 0
    BY DEF TypeOK
  <2>3. /\ t = WithSignatures(t0, t0.signatures \o SignaturesOf(t0, signatories))
        /\ SignaturesOf(t0, signatories) \in Seq(Signature)
    BY <2>1, <2>2, SignedTyped
  <2>4. /\ t.creator = t0.creator /\ t.createdAt = t0.createdAt
        /\ t.commands = t0.commands /\ t.quorum = t0.quorum
        /\ t.batchType = t0.batchType /\ t.batchHashes = t0.batchHashes
        /\ t.signatures = t0.signatures \o SignaturesOf(t0, signatories)
    BY <2>3 DEF WithSignatures, IRTransaction
  <2>5. PayloadOf(t, cs) = PayloadOf(t0, cs) /\ ReducedOf(t, cs) = ReducedOf(t0, cs)
    BY <2>4 DEF PayloadOf, ReducedOf
  <2>6. Payload(t0) = PayloadOf(t0, cs)
    BY DEF Payload, PayloadOf, ReducedPayload, ReducedOf
  <2>7. t0.signatures \in Seq(Signature)
    BY <2>2 DEF TransactionType
  <2>8. \A s \in DOMAIN t0.signatures : t0.signatures[s].over = PayloadOf(t0, cs)
    BY <2>6 DEF SafeInv, Safe, SignaturesVerify, TransactionHash
  <2>9. \A s \in DOMAIN SignaturesOf(t0, signatories) :
          SignaturesOf(t0, signatories)[s].over = PayloadOf(t0, cs)
    BY <2>6 DEF SignaturesOf, TransactionHash
  <2> HIDE DEF t
  <2>10. \A s \in DOMAIN t.signatures : t.signatures[s].over = PayloadOf(t, arrays'[t.commands])
    <3> SUFFICES ASSUME NEW s \in DOMAIN t.signatures
                 PROVE  t.signatures[s].over = PayloadOf(t0, cs)
      BY <2>1, <2>4, <2>5
    <3> DEFINE n == Len(t0.signatures)
    <3>1. \/ s \in DOMAIN t0.signatures /\ t.signatures[s] = t0.signatures[s]
          \/ /\ s - n \in DOMAIN SignaturesOf(t0, signatories)
             /\ t.signatures[s] = SignaturesOf(t0, signatories)[s - n]
      BY <2>3, <2>4, <2>7, ConcatProperties, LenProperties
    <3> QED
      BY <3>1, <2>8, <2>9
  <2>11. /\ Len(t0.signatures) <= Len(t.signatures)
         /\ \A s \in DOMAIN t0.signatures : t.signatures[s] = t0.signatures[s]
    BY <2>3, <2>4, <2>7, ConcatProperties, LenProperties
  <2>12. Safe'
    BY <2>1, <2>2, <2>4, <2>5, <2>10, <2>11, NewSafe
  <2>13. Frozen' /\ FaithfulArrays'
    BY <2>1, <2>4, ArraysKept
  <2> QED
    BY <2>1, <2>12, <2>13, StoredKept DEF SafeInv
<1>5. ASSUME NEW i \in DOMAIN transactions, NEW type \in BatchType, Batch(i, type)
      PROVE  SafeInv'
  <2> DEFINE t0 == transactions[i]
             t  == Batched(t0, hashes, type)
  <2>1. /\ Make(t, "batched", i) /\ t # Nil
        /\ arrays' = arrays /\ builder' = builder /\ stored' = stored
    BY <1>5 DEF Batch
  <2>2. t0 \in TransactionType /\ i \in 0 .. Len(transactions) /\ hashes \in Seq(PbReducedPayload)
    BY DEF TypeOK
  <2>3. /\ t.signatures = << >> /\ t.creator = t0.creator /\ t.createdAt = t0.createdAt
        /\ t.commands = t0.commands /\ t.quorum = t0.quorum
    BY <2>1, <2>2, BatchedTyped
  <2> HIDE DEF t
  <2>4. ReducedOf(t, arrays'[t.commands]) = ReducedOf(t0, arrays[t0.commands])
    BY <2>1, <2>3 DEF ReducedOf
  <2>5. Safe'
    BY <2>1, <2>2, <2>3, <2>4, NewSafe
  <2>6. Frozen' /\ FaithfulArrays'
    BY <2>1, <2>3, ArraysKept
  <2> QED
    BY <2>1, <2>5, <2>6, StoredKept DEF SafeInv
<1>6. ASSUME NEW i \in DOMAIN transactions, Serialize(i)
      PROVE  SafeInv'
  <2>1. /\ stored' = [form |-> Form(transactions[i]), of |-> i]
        /\ arrays' = arrays /\ transactions' = transactions /\ origin' = origin /\ builder' = builder
    BY <1>6 DEF Serialize
  <2>2. StoredVerified'
    BY <2>1, WrittenVerified DEF StoredVerified
  <2>3. StoredIsForm'
    BY <2>1 DEF StoredIsForm, Form, Payload, ReducedPayload
  <2>4. Frozen' /\ FaithfulArrays'
    BY <2>1 DEF SafeInv, Frozen, FaithfulArrays, BuiltFrom
  <2> QED
    BY <2>1, <2>2, <2>3, <2>4, KeptSafe DEF SafeInv
<1>7. ASSUME NEW form \in PendingForms, Fetch(form)
      PROVE  SafeInv'
  <2>1. /\ stored' = [form |-> form, of |-> 0]
        /\ arrays' = arrays /\ transactions' = transactions /\ origin' = origin /\ builder' = builder
    BY <1>7 DEF Fetch
  <2>2. StoredVerified' /\ StoredIsForm'
    BY <2>1 DEF StoredVerified, StoredIsForm, Careful
  <2>3. Frozen' /\ FaithfulArrays'
    BY <2>1 DEF SafeInv, Frozen, FaithfulArrays, BuiltFrom
  <2> QED
    BY <2>1, <2>2, <2>3, KeptSafe DEF SafeInv
<1>8. CASE Restore
  <2> DEFINE f == stored.form
             n == Len(arrays) + 1
             t == TransactionOf(f, n)
  <2>1. /\ stored # Nil /\ Accepted(f) /\ arrays' = Append(arrays, CommandsOf(f))
        /\ Make(t, "restored", stored.of) /\ builder' = builder /\ stored' = stored
    BY <1>8 DEF Restore
  <2>2. f \in PbTransaction /\ Verified(f) /\ stored.of \in 0 .. Len(transactions)
    BY <2>1, PendingAssumption DEF TypeOK, SafeInv, StoredVerified
  <2>3. CommandsOf(f) \in Seq(Command)
    BY <2>1, <2>2, RestoredTyped
  <2>4. arrays \in Seq(Seq(Command)) /\ arrays # << >> /\ builder.commands = 1
    BY DEF TypeOK
  <2>5. /\ arrays'[n] = CommandsOf(f)
        /\ DOMAIN arrays' = 1 .. n
        /\ DOMAIN arrays = 1 .. n - 1
        /\ \A a \in DOMAIN arrays : arrays'[a] = arrays[a]
        /\ n > 1 /\ n \in Nat
    BY <2>1, <2>3, <2>4, AppendProperties, LenProperties
  <2>6. t.commands = n /\ t.signatures = f.signatures
    BY DEF TransactionOf, IRTransaction
  <2>7. PayloadOf(t, arrays'[t.commands]) = f.payload
    BY <2>1, <2>2, <2>5, <2>6, RestoredPayload
  <2>8. \A s \in DOMAIN t.signatures : t.signatures[s].over = PayloadOf(t, arrays'[t.commands])
    BY <2>2, <2>6, <2>7 DEF Verified
  <2>9. ASSUME stored.of > 0
        PROVE  /\ PayloadOf(t, arrays'[t.commands]) =
                    PayloadOf(transactions[stored.of], arrays[transactions[stored.of].commands])
               /\ t.signatures = transactions[stored.of].signatures
    <3>1. f = Form(transactions[stored.of])
      BY <2>1, <2>9 DEF SafeInv, StoredIsForm
    <3>2. f.payload = Payload(transactions[stored.of]) /\ f.signatures = transactions[stored.of].signatures
      BY <3>1 DEF Form
    <3>3. Payload(transactions[stored.of]) =
            PayloadOf(transactions[stored.of], arrays[transactions[stored.of].commands])
      BY DEF Payload, PayloadOf, ReducedPayload, ReducedOf
    <3> QED
      BY <2>6, <2>7, <3>2, <3>3
  <2>10. ASSUME stored.of > 0
         PROVE  ReducedOf(t, arrays'[t.commands]) =
                  ReducedOf(transactions[stored.of], arrays[transactions[stored.of].commands])
    BY <2>9, <2>10 DEF PayloadOf
  <2>11. t.signatures \in Seq(Signature) /\ Len(t.signatures) \in Nat
    BY <2>2, <2>6 DEF PbTransaction
  <2>12. FaithfulArrays'
    <3> SUFFICES ASSUME NEW a \in DOMAIN arrays', NEW i \in DOMAIN arrays'[a]
                 PROVE  Faithful(arrays'[a][i])
      BY DEF FaithfulArrays
    <3>1. CASE a = n
      BY <2>2, <2>5, <3>1 DEF CommandsOf, Verified
    <3>2. CASE a # n
      BY <2>5, <3>2 DEF SafeInv, FaithfulArrays
    <3> QED
      BY <3>1, <3>2
  <2> HIDE DEF f, n, t
  <2>13. Safe'
    <3> DEFINE of == stored.of
    <3>1. of > 0 =>
            /\ Len(transactions[of].signatures) <= Len(t.signatures)
            /\ \A s \in DOMAIN transactions[of].signatures :
                 t.signatures[s] = transactions[of].signatures[s]
      BY <2>9, <2>11
    <3>2. of \in 0 .. Len(transactions) /\ Make(t, "restored", of)
      BY <2>1, <2>2
    <3>3. of > 0 =>
            /\ PayloadOf(t, arrays'[t.commands]) =
                 PayloadOf(transactions[of], arrays[transactions[of].commands])
            /\ ReducedOf(t, arrays'[t.commands]) =
                 ReducedOf(transactions[of], arrays[transactions[of].commands])
      BY <2>9, <2>10
    <3> HIDE DEF of
    <3> QED
      BY <2>8, <3>1, <3>2, <3>3, NewSafe
  <2>14. Frozen'
    <3>1. /\ transactions \in Seq(TransactionType)
          /\ origin \in Seq([how : {"built", "signed", "batched", "restored"}, of : Nat])
          /\ Len(origin) = Len(transactions)
      BY DEF TypeOK
    <3>2. BuiltFrom => BuiltFrom'
      <4> SUFFICES ASSUME BuiltFrom PROVE BuiltFrom'
        OBVIOUS
      <4>1. PICK i \in DOMAIN origin : origin[i].how = "built"
        BY DEF BuiltFrom
      <4>2. i \in DOMAIN transactions /\ DOMAIN origin = DOMAIN transactions
        BY <3>1
      <4>3. origin'[i] = origin[i] /\ i \in DOMAIN transactions'
        BY <4>2, OldStay DEF SafeInv
      <4>4. DOMAIN origin' = DOMAIN transactions'
        BY DEF TypeOK
      <4> QED
        BY <4>1, <4>3, <4>4 DEF BuiltFrom
    <3>3. \A i \in DOMAIN transactions' :
            \/ i \in DOMAIN transactions /\ transactions'[i] = transactions[i]
            \/ transactions'[i] = t
      BY <2>1, <3>1 DEF Make
    <3> QED
      BY <2>1, <2>4, <2>5, <2>6, <3>2, <3>3 DEF SafeInv, Frozen
  <2> QED
    BY <2>1, <2>12, <2>13, <2>14, StoredKept DEF SafeInv
<1>9. CASE RestoreRefused \/ RestoreRaises
  <2>1. /\ stored' = Nil
        /\ arrays' = arrays /\ transactions' = transactions /\ origin' = origin /\ builder' = builder
    BY <1>9 DEF RestoreRefused, RestoreRaises
  <2>2. Frozen' /\ FaithfulArrays' /\ StoredVerified' /\ StoredIsForm'
    BY <2>1 DEF SafeInv, Frozen, FaithfulArrays, BuiltFrom, StoredVerified, StoredIsForm
  <2> QED
    BY <2>1, <2>2, KeptSafe DEF SafeInv
<1> QED
  BY <1>1, <1>2, <1>3, <1>4, <1>5, <1>6, <1>7, <1>8, <1>9 DEF Next

LEMMA SafeInvariant ==
  ASSUME Careful
  PROVE  Spec => []SafeInv
<1>1. Careful
  OBVIOUS
<1>2. TypeOK /\ TypeOK' /\ SafeInv /\ [Next]_vars => SafeInv'
  BY <1>1, SafeNext
<1> QED
  BY <1>2, SafeInit, TypeCorrect, PTL DEF Spec

\* Every signature of every transaction verifies, however transactions are
\* signed, batched, stored, restored and fetched.
THEOREM SignaturesHold ==
  ASSUME Careful
  PROVE  Spec => []SignaturesVerify
<1>1. SafeInv => SignaturesVerify
  BY DEF SafeInv, Safe
<1> QED
  BY <1>1, SafeInvariant, PTL

\* No signature is lost but by batching.
THEOREM SignaturesAreKept ==
  ASSUME Careful
  PROVE  Spec => []SignaturesKept
<1>1. SafeInv => SignaturesKept
  BY DEF SafeInv, Safe
<1> QED
  BY <1>1, SafeInvariant, PTL

\* Batching, signing, storing and restoring never change a batch hash.
THEOREM BatchHashesKept ==
  ASSUME Careful
  PROVE  Spec => []BatchHashKept
<1>1. SafeInv => BatchHashKept
  BY DEF SafeInv, Safe
<1> QED
  BY <1>1, SafeInvariant, PTL

\* A restored transaction has the hash of the one that was stored.
THEOREM RestoredHash ==
  ASSUME Careful
  PROVE  Spec => []RestoredHashIsSame
<1>1. SafeInv => RestoredHashIsSame
  BY DEF SafeInv, Safe
<1> QED
  BY <1>1, SafeInvariant, PTL
=============================================================================
