------------------------ MODULE CommandRoundTripProofs ------------------------
(***************************************************************************)
(* What transform: writes, IRCommandProtoFactory reads back as the same    *)
(* command, and the properties of CommandRoundTrip, for all names, keys,   *)
(* texts, permissions and numbers.                                         *)
(***************************************************************************)
EXTENDS CommandRoundTrip, TLAPS

(* What the library writes it reads as the same command.                    *)

\* The text of an identifier reads back as the identifier.
LEMMA IdentifierReads ==
  ASSUME NEW id \in [name : Name, domain : Name], NEW sep
  PROVE  /\ ParsedId(Identifier(id, sep), sep) = id
         /\ id # Nil
  BY CodecAssumption DEF ParsedId, Identifier

\* The text of a key reads back as the key.
LEMMA KeyReads ==
  ASSUME NEW key \in Key
  PROVE  KeyOf(Hex(key)) = key /\ IsHex(Hex(key)) /\ key # Nil
  BY CodecAssumption DEF KeyOf, Hex, IsHex, RawBytes

\* A positive amount plainly spelled reads back as itself.
LEMMA AmountReads ==
  ASSUME NEW amount \in TransferAmount
  PROVE  TransferAmountOf(amount) = amount /\ amount # Nil
<1>1. amount \in AmountText /\ amount.units \in Units \ {0} /\ amount.spelled = "plain"
  BY DEF TransferAmount, AmountText
<1>2. Units \subseteq Nat /\ Nil \notin AmountText
  BY CodecAssumption DEF AmountText
<1>3. Plain(amount) = amount
  BY <1>1 DEF Plain, AmountText
<1>4. amount.units > 0
  <2>1. amount.units \in Nat /\ amount.units # 0
    BY <1>1, <1>2
  <2> QED
    BY <2>1
<1>5. TransferAmountOf(amount) = amount
  BY <1>1, <1>3, <1>4 DEF TransferAmountOf
<1>6. amount # Nil
  BY <1>1, <1>2
<1> QED
  BY <1>5, <1>6

\* Names read as themselves.
LEMMA NameReads ==
  ASSUME NEW name \in Name
  PROVE  NameOf(name) = name /\ name # Nil
  BY CodecAssumption DEF NameOf

\* Permissions read as themselves.
LEMMA PermissionReads ==
  /\ \A code \in RolePermission : RolePermissionOf(code) = code /\ code # Nil
  /\ \A code \in GrantablePermission : GrantablePermissionOf(code) = code /\ code # Nil
<1>1. \A code \in GrantablePermission : code \in RolePermission
  BY DEF GrantablePermission, RolePermission
<1> QED
  BY <1>1, CodecAssumption DEF RolePermissionOf, GrantablePermissionOf

\* A compareAndSet without an old value is the one command that does not read
\* back as itself.
Faithful(c) == c.type = "compareAndSetAccountDetail" => c.oldValue # Nil

\* Every command the builder makes, but for a compareAndSet without an old
\* value, reads back from its protobuf form as the same command.
THEOREM CommandReads ==
  ASSUME NEW c \in Command, Faithful(c)
  PROVE  CommandOf(FormOf(c)) = c
<1>1. CASE c \in AddAssetQuantity \cup SubtractAssetQuantity
  <2>1. FormOf(c) = FormOfAssetQuantity(c)
    BY <1>1 DEF AddAssetQuantity, SubtractAssetQuantity, FormOf
  <2>2. CommandOf(FormOfAssetQuantity(c)) = AssetQuantityOf(FormOfAssetQuantity(c))
    BY <1>1 DEF AddAssetQuantity, SubtractAssetQuantity, CommandOf, FormOfAssetQuantity
  <2>3. AssetQuantityOf(FormOfAssetQuantity(c)) = c
    BY <1>1, IdentifierReads, AmountReads
    DEF AddAssetQuantity, SubtractAssetQuantity, FormOfAssetQuantity, AssetQuantityOf, IfAll, AssetId, Asset
  <2> QED  BY <2>1, <2>2, <2>3
<1>2. CASE c \in AddPeer
  <2>1. FormOf(c) = FormOfAddPeer(c)
    BY <1>2 DEF AddPeer, FormOf
  <2>2. CommandOf(FormOfAddPeer(c)) = AddPeerOf(FormOfAddPeer(c))
    BY <1>2 DEF AddPeer, CommandOf, FormOfAddPeer
  <2>3. AddPeerOf(FormOfAddPeer(c)) = c
    BY <1>2, NameReads, KeyReads
    DEF AddPeer, FormOfAddPeer, AddPeerOf, IfAll
  <2> QED  BY <2>1, <2>2, <2>3
<1>3. CASE c \in RemovePeer
  <2>1. FormOf(c) = FormOfRemovePeer(c)
    BY <1>3 DEF RemovePeer, FormOf
  <2>2. CommandOf(FormOfRemovePeer(c)) = RemovePeerOf(FormOfRemovePeer(c))
    BY <1>3 DEF RemovePeer, CommandOf, FormOfRemovePeer
  <2>3. RemovePeerOf(FormOfRemovePeer(c)) = c
    BY <1>3, KeyReads
    DEF RemovePeer, FormOfRemovePeer, RemovePeerOf, IfAll
  <2> QED  BY <2>1, <2>2, <2>3
<1>4. CASE c \in AddSignatory \cup RemoveSignatory
  <2>1. FormOf(c) = FormOfSignatory(c)
    BY <1>4 DEF AddSignatory, RemoveSignatory, FormOf
  <2>2. CommandOf(FormOfSignatory(c)) = SignatoryOf(FormOfSignatory(c))
    BY <1>4 DEF AddSignatory, RemoveSignatory, CommandOf, FormOfSignatory
  <2>3. SignatoryOf(FormOfSignatory(c)) = c
    BY <1>4, IdentifierReads, KeyReads
    DEF AddSignatory, RemoveSignatory, FormOfSignatory, SignatoryOf, IfAll, AccountId, Account
  <2> QED  BY <2>1, <2>2, <2>3
<1>5. CASE c \in AppendRole \cup DetachRole
  <2>1. FormOf(c) = FormOfRole(c)
    BY <1>5 DEF AppendRole, DetachRole, FormOf
  <2>2. CommandOf(FormOfRole(c)) = RoleOf(FormOfRole(c))
    BY <1>5 DEF AppendRole, DetachRole, CommandOf, FormOfRole
  <2>3. RoleOf(FormOfRole(c)) = c
    BY <1>5, IdentifierReads, NameReads
    DEF AppendRole, DetachRole, FormOfRole, RoleOf, IfAll, AccountId, Account
  <2> QED  BY <2>1, <2>2, <2>3
<1>6. CASE c \in CreateAccount
  <2>1. FormOf(c) = FormOfCreateAccount(c)
    BY <1>6 DEF CreateAccount, FormOf
  <2>2. CommandOf(FormOfCreateAccount(c)) = CreateAccountOf(FormOfCreateAccount(c))
    BY <1>6 DEF CreateAccount, CommandOf, FormOfCreateAccount
  <2>3. CreateAccountOf(FormOfCreateAccount(c)) = c
    BY <1>6, NameReads, KeyReads
    DEF CreateAccount, FormOfCreateAccount, CreateAccountOf, IfAll, AccountId
  <2> QED  BY <2>1, <2>2, <2>3
<1>7. CASE c \in CreateAsset
  <2>1. FormOf(c) = FormOfCreateAsset(c)
    BY <1>7 DEF CreateAsset, FormOf
  <2>2. CommandOf(FormOfCreateAsset(c)) = CreateAssetOf(FormOfCreateAsset(c))
    BY <1>7 DEF CreateAsset, CommandOf, FormOfCreateAsset
  <2>3. CreateAssetOf(FormOfCreateAsset(c)) = c
    BY <1>7, NameReads
    DEF CreateAsset, FormOfCreateAsset, CreateAssetOf, IfAll, AssetId
  <2> QED  BY <2>1, <2>2, <2>3
<1>8. CASE c \in CreateDomain
  <2>1. FormOf(c) = c
    BY <1>8 DEF CreateDomain, FormOf
  <2>2. CommandOf(c) = CreateDomainOf(c)
    BY <1>8 DEF CreateDomain, CommandOf
  <2>3. CreateDomainOf(c) = c
    BY <1>8, NameReads
    DEF CreateDomain, CreateDomainOf, IfAll
  <2> QED  BY <2>1, <2>2, <2>3
<1>9. CASE c \in CreateRole
  <2>1. FormOf(c) = c
    BY <1>9 DEF CreateRole, FormOf
  <2>2. CommandOf(c) = CreateRoleOf(c)
    BY <1>9 DEF CreateRole, CommandOf
  <2>3. CreateRoleOf(c) = c
    BY <1>9, NameReads, PermissionReads
    DEF CreateRole, CreateRoleOf, IfAll
  <2> QED  BY <2>1, <2>2, <2>3
<1>10. CASE c \in GrantPermission \cup RevokePermission
  <2>1. FormOf(c) = FormOfPermission(c)
    BY <1>10 DEF GrantPermission, RevokePermission, FormOf
  <2>2. CommandOf(FormOfPermission(c)) = PermissionCommandOf(FormOfPermission(c))
    BY <1>10 DEF GrantPermission, RevokePermission, CommandOf, FormOfPermission
  <2>3. PermissionCommandOf(FormOfPermission(c)) = c
    BY <1>10, IdentifierReads, PermissionReads
    DEF GrantPermission, RevokePermission, FormOfPermission, PermissionCommandOf, IfAll, AccountId, Account
  <2> QED  BY <2>1, <2>2, <2>3
<1>11. CASE c \in SetAccountDetail
  <2>1. FormOf(c) = FormOfSetAccountDetail(c)
    BY <1>11 DEF SetAccountDetail, FormOf
  <2>2. CommandOf(FormOfSetAccountDetail(c)) = SetAccountDetailOf(FormOfSetAccountDetail(c))
    BY <1>11 DEF SetAccountDetail, CommandOf, FormOfSetAccountDetail
  <2>3. SetAccountDetailOf(FormOfSetAccountDetail(c)) = c
    BY <1>11, IdentifierReads
    DEF SetAccountDetail, FormOfSetAccountDetail, SetAccountDetailOf, IfAll, AccountId, Account
  <2> QED  BY <2>1, <2>2, <2>3
<1>12. CASE c \in SetAccountQuorum
  <2>1. FormOf(c) = FormOfSetAccountQuorum(c)
    BY <1>12 DEF SetAccountQuorum, FormOf
  <2>2. CommandOf(FormOfSetAccountQuorum(c)) = SetAccountQuorumOf(FormOfSetAccountQuorum(c))
    BY <1>12 DEF SetAccountQuorum, CommandOf, FormOfSetAccountQuorum
  <2>3. SetAccountQuorumOf(FormOfSetAccountQuorum(c)) = c
    BY <1>12, IdentifierReads
    DEF SetAccountQuorum, FormOfSetAccountQuorum, SetAccountQuorumOf, IfAll, AccountId, Account
  <2> QED  BY <2>1, <2>2, <2>3
<1>13. CASE c \in TransferAsset
  <2>1. FormOf(c) = FormOfTransferAsset(c)
    BY <1>13 DEF TransferAsset, FormOf
  <2>2. CommandOf(FormOfTransferAsset(c)) = TransferAssetOf(FormOfTransferAsset(c))
    BY <1>13 DEF TransferAsset, CommandOf, FormOfTransferAsset
  <2>3. TransferAssetOf(FormOfTransferAsset(c)) = c
    BY <1>13, IdentifierReads, AmountReads
    DEF TransferAsset, FormOfTransferAsset, TransferAssetOf, IfAll, AccountId, AssetId, Account, Asset
  <2> QED  BY <2>1, <2>2, <2>3
<1>14. CASE c \in CompareAndSetAccountDetail
  <2>1. FormOf(c) = FormOfCompareAndSet(c)
    BY <1>14 DEF CompareAndSetAccountDetail, FormOf
  <2>2. CommandOf(FormOfCompareAndSet(c)) = CompareAndSetOf(FormOfCompareAndSet(c))
    BY <1>14 DEF CompareAndSetAccountDetail, CommandOf, FormOfCompareAndSet
  <2>3. CompareAndSetOf(FormOfCompareAndSet(c)) = c
    BY <1>14, IdentifierReads
    DEF CompareAndSetAccountDetail, FormOfCompareAndSet, CompareAndSetOf, IfAll, AccountId, Account, Faithful
  <2> QED  BY <2>1, <2>2, <2>3
<1> QED
  BY <1>1, <1>2, <1>3, <1>4, <1>5, <1>6, <1>7, <1>8, <1>9, <1>10, <1>11, <1>12, <1>13, <1>14
  DEF Command

\* A compareAndSet without an old value reads back as one whose old value is the
\* empty text.
WithEmptyOldValue(c) ==
  [type |-> "compareAndSetAccountDetail", accountId |-> c.accountId, key |-> c.key, value |-> c.value,
   oldValue |-> Empty]

LEMMA UnsetOldValueReads ==
  ASSUME NEW c \in Command, ~Faithful(c)
  PROVE  /\ c \in CompareAndSetAccountDetail
         /\ c.oldValue = Nil
         /\ CommandOf(FormOf(c)) = WithEmptyOldValue(c)
         /\ WithEmptyOldValue(c) \in CompareAndSetAccountDetail
<1>1. c \in CompareAndSetAccountDetail /\ c.oldValue = Nil
  BY DEF Faithful, Command, AddAssetQuantity, SubtractAssetQuantity, AddPeer, RemovePeer,
     AddSignatory, RemoveSignatory, AppendRole, DetachRole, CreateAccount, CreateAsset,
     CreateDomain, CreateRole, GrantPermission, RevokePermission, SetAccountDetail,
     SetAccountQuorum, TransferAsset
<1>2. FormOf(c) = FormOfCompareAndSet(c)
  BY <1>1 DEF CompareAndSetAccountDetail, FormOf
<1>3. CommandOf(FormOfCompareAndSet(c)) = CompareAndSetOf(FormOfCompareAndSet(c))
  BY <1>1 DEF CompareAndSetAccountDetail, CommandOf, FormOfCompareAndSet
<1>4. CompareAndSetOf(FormOfCompareAndSet(c)) = WithEmptyOldValue(c)
  BY <1>1, IdentifierReads
  DEF CompareAndSetAccountDetail, FormOfCompareAndSet, CompareAndSetOf, IfAll, Account, AccountId,
      WithEmptyOldValue
<1>5. WithEmptyOldValue(c) \in CompareAndSetAccountDetail
  BY <1>1, CodecAssumption DEF CompareAndSetAccountDetail, WithEmptyOldValue
<1> QED
  BY <1>1, <1>2, <1>3, <1>4, <1>5

\* The library reads every command it writes.
THEOREM OwnCommandsRead ==
  ASSUME NEW c \in Command
  PROVE  CommandOf(FormOf(c)) \in Command
<1>1. CASE Faithful(c)
  BY <1>1, CommandReads
<1>2. CASE ~Faithful(c)
  BY <1>2, UnsetOldValueReads DEF Command
<1> QED
  BY <1>1, <1>2

\* No two commands are written as the same form: what is hashed and signed is this
\* command and no other.  (That a compare-and-set without an old value is not read
\* back as it was does not make it look like the one it is read as.)
THEOREM CommandsDiffer ==
  ASSUME NEW c \in Command, NEW d \in Command, FormOf(c) = FormOf(d)
  PROVE  c = d
<1>1. CASE Faithful(c) /\ Faithful(d)
  BY <1>1, CommandReads
<1>2. ASSUME NEW x \in Command, NEW y \in Command, FormOf(x) = FormOf(y),
             ~ Faithful(x), Faithful(y)
      PROVE  FALSE
  <2>1. x \in CompareAndSetAccountDetail /\ x.oldValue = Nil /\ y = WithEmptyOldValue(x)
    BY <1>2, UnsetOldValueReads, CommandReads
  <2>2. FormOf(x) = FormOfCompareAndSet(x) /\ FormOf(y) = FormOfCompareAndSet(y)
    BY <2>1 DEF CompareAndSetAccountDetail, WithEmptyOldValue, FormOf
  <2>3. FormOfCompareAndSet(x).oldValue = Nil /\ FormOfCompareAndSet(y).oldValue = Empty
    BY <2>1 DEF FormOfCompareAndSet, WithEmptyOldValue
  <2> QED
    BY <1>2, <2>2, <2>3, CodecAssumption
<1>3. CASE ~ Faithful(c) /\ ~ Faithful(d)
  <2>1. /\ c \in CompareAndSetAccountDetail /\ d \in CompareAndSetAccountDetail
        /\ c.oldValue = Nil /\ d.oldValue = Nil
        /\ WithEmptyOldValue(c) = WithEmptyOldValue(d)
    BY <1>3, UnsetOldValueReads
  <2>2. c.accountId = d.accountId /\ c.key = d.key /\ c.value = d.value
    BY <2>1 DEF WithEmptyOldValue
  <2> QED
    BY <2>1, <2>2 DEF CompareAndSetAccountDetail
<1> QED
  BY <1>1, <1>2, <1>3

-----------------------------------------------------------------------------
(* What the factories accept is well formed, and is written as it was read.  *)

LEMMA AccountParsed ==
  ASSUME NEW text, Account(text) # Nil
  PROVE  /\ Account(text) \in AccountId
         /\ Identifier(Account(text), "@") = text
  BY DEF Account, ParsedId, Identifier, AccountId

LEMMA AssetParsed ==
  ASSUME NEW text, Asset(text) # Nil
  PROVE  /\ Asset(text) \in AssetId
         /\ Identifier(Asset(text), "#") = text
  BY DEF Asset, ParsedId, Identifier, AssetId

LEMMA NameParsed ==
  ASSUME NEW text, NameOf(text) # Nil
  PROVE  text \in Name
  BY DEF NameOf

LEMMA PermissionParsed ==
  ASSUME NEW code
  PROVE  /\ RolePermissionOf(code) # Nil => code \in RolePermission
         /\ GrantablePermissionOf(code) # Nil => code \in GrantablePermission
  BY DEF RolePermissionOf, GrantablePermissionOf

LEMMA KeyParsed ==
  ASSUME NEW text, KeyOf(text) # Nil
  PROVE  /\ KeyOf(text) \in Key
         /\ Hex(KeyOf(text)) = text
  BY CodecAssumption DEF KeyOf, Hex

LEMMA AmountParsed ==
  ASSUME NEW text, TransferAmountOf(text) # Nil
  PROVE  /\ TransferAmountOf(text) \in TransferAmount
         /\ text \in AmountText
         /\ TransferAmountOf(text).spelled = "plain"
         /\ text.spelled = "padded" \/ TransferAmountOf(text) = text
<1>1. text \in AmountText /\ text.units > 0 /\ TransferAmountOf(text) = Plain(text)
  BY DEF TransferAmountOf
<1> QED
  BY <1>1, CodecAssumption DEF Plain, AmountText, TransferAmount

(* What a command read from a form is, and how it is written again.          *)

LEMMA Reading ==
  ASSUME NEW f \in PbCommand, CommandOf(f) # Nil
  PROVE  /\ CommandOf(f) \in Command \cup KeylessAccount
         /\ \/ FormOf(CommandOf(f)) = f
            \/ Respelled(f) /\ ~Respelled(FormOf(CommandOf(f)))
<1>1. CASE f \in PbAddAssetQuantity \cup PbSubtractAssetQuantity
  <2>1. CommandOf(f) = AssetQuantityOf(f)
    BY <1>1 DEF PbAddAssetQuantity, PbSubtractAssetQuantity, CommandOf
  <2>2. AssetQuantityOf(f) \in AddAssetQuantity \cup SubtractAssetQuantity
    BY <1>1, <2>1, AssetParsed, AmountParsed DEF PbAddAssetQuantity, PbSubtractAssetQuantity, AddAssetQuantity, SubtractAssetQuantity, AssetQuantityOf, IfAll, AssetId
  <2>3. FormOf(AssetQuantityOf(f)) = FormOfAssetQuantity(AssetQuantityOf(f))
    BY <2>2 DEF AddAssetQuantity, SubtractAssetQuantity, FormOf
  <2>4. \/ FormOfAssetQuantity(AssetQuantityOf(f)) = f
        \/ Respelled(f) /\ ~Respelled(FormOfAssetQuantity(AssetQuantityOf(f)))
    BY <1>1, <2>1, AssetParsed, AmountParsed DEF PbAddAssetQuantity, PbSubtractAssetQuantity, FormOfAssetQuantity, AssetQuantityOf, IfAll, Respelled
  <2> QED  BY <2>1, <2>2, <2>3, <2>4 DEF Command
<1>2. CASE f \in PbAddPeer
  <2>1. CommandOf(f) = AddPeerOf(f)
    BY <1>2 DEF PbAddPeer, CommandOf
  <2>2. AddPeerOf(f) \in AddPeer
    BY <1>2, <2>1, NameParsed, KeyParsed DEF PbAddPeer, PbPeer, AddPeer, AddPeerOf, IfAll
  <2>3. FormOf(AddPeerOf(f)) = FormOfAddPeer(AddPeerOf(f))
    BY <2>2 DEF AddPeer, FormOf
  <2>4. \/ FormOfAddPeer(AddPeerOf(f)) = f
        \/ Respelled(f) /\ ~Respelled(FormOfAddPeer(AddPeerOf(f)))
    BY <1>2, <2>1, NameParsed, KeyParsed DEF PbAddPeer, PbPeer, FormOfAddPeer, AddPeerOf, IfAll, Respelled
  <2> QED  BY <2>1, <2>2, <2>3, <2>4 DEF Command
<1>3. CASE f \in PbRemovePeer
  <2>1. CommandOf(f) = RemovePeerOf(f)
    BY <1>3 DEF PbRemovePeer, CommandOf
  <2>2. RemovePeerOf(f) \in RemovePeer
    BY <1>3, <2>1, KeyParsed DEF PbRemovePeer, RemovePeer, RemovePeerOf, IfAll
  <2>3. FormOf(RemovePeerOf(f)) = FormOfRemovePeer(RemovePeerOf(f))
    BY <2>2 DEF RemovePeer, FormOf
  <2>4. \/ FormOfRemovePeer(RemovePeerOf(f)) = f
        \/ Respelled(f) /\ ~Respelled(FormOfRemovePeer(RemovePeerOf(f)))
    BY <1>3, <2>1, KeyParsed DEF PbRemovePeer, FormOfRemovePeer, RemovePeerOf, IfAll, Respelled
  <2> QED  BY <2>1, <2>2, <2>3, <2>4 DEF Command
<1>4. CASE f \in PbAddSignatory \cup PbRemoveSignatory
  <2>1. CommandOf(f) = SignatoryOf(f)
    BY <1>4 DEF PbAddSignatory, PbRemoveSignatory, CommandOf
  <2>2. SignatoryOf(f) \in AddSignatory \cup RemoveSignatory
    BY <1>4, <2>1, AccountParsed, KeyParsed DEF PbAddSignatory, PbRemoveSignatory, AddSignatory, RemoveSignatory, SignatoryOf, IfAll, AccountId
  <2>3. FormOf(SignatoryOf(f)) = FormOfSignatory(SignatoryOf(f))
    BY <2>2 DEF AddSignatory, RemoveSignatory, FormOf
  <2>4. \/ FormOfSignatory(SignatoryOf(f)) = f
        \/ Respelled(f) /\ ~Respelled(FormOfSignatory(SignatoryOf(f)))
    BY <1>4, <2>1, AccountParsed, KeyParsed DEF PbAddSignatory, PbRemoveSignatory, FormOfSignatory, SignatoryOf, IfAll, Respelled
  <2> QED  BY <2>1, <2>2, <2>3, <2>4 DEF Command
<1>5. CASE f \in PbAppendRole \cup PbDetachRole
  <2>1. CommandOf(f) = RoleOf(f)
    BY <1>5 DEF PbAppendRole, PbDetachRole, CommandOf
  <2>2. RoleOf(f) \in AppendRole \cup DetachRole
    BY <1>5, <2>1, AccountParsed, NameParsed DEF PbAppendRole, PbDetachRole, AppendRole, DetachRole, RoleOf, IfAll, AccountId
  <2>3. FormOf(RoleOf(f)) = FormOfRole(RoleOf(f))
    BY <2>2 DEF AppendRole, DetachRole, FormOf
  <2>4. \/ FormOfRole(RoleOf(f)) = f
        \/ Respelled(f) /\ ~Respelled(FormOfRole(RoleOf(f)))
    BY <1>5, <2>1, AccountParsed, NameParsed DEF PbAppendRole, PbDetachRole, FormOfRole, RoleOf, IfAll, Respelled
  <2> QED  BY <2>1, <2>2, <2>3, <2>4 DEF Command
<1>6. CASE f \in PbCreateAccount
  <2>1. CommandOf(f) = CreateAccountOf(f)
    BY <1>6 DEF PbCreateAccount, CommandOf
  <2>2. CreateAccountOf(f) \in CreateAccount \cup KeylessAccount
    BY <1>6, <2>1, NameParsed, KeyParsed, CodecAssumption DEF PbCreateAccount, CreateAccount, KeylessAccount, CreateAccountOf, IfAll, AccountId, IsHex, RawBytes, Hex, KeyOf
  <2>3. FormOf(CreateAccountOf(f)) = FormOfCreateAccount(CreateAccountOf(f))
    BY <2>2 DEF CreateAccount, KeylessAccount, FormOf
  <2>4. \/ FormOfCreateAccount(CreateAccountOf(f)) = f
        \/ Respelled(f) /\ ~Respelled(FormOfCreateAccount(CreateAccountOf(f)))
    BY <1>6, <2>1, NameParsed, KeyParsed, CodecAssumption DEF PbCreateAccount, FormOfCreateAccount, CreateAccountOf, IfAll, Respelled, IsHex, RawBytes, Hex, KeyOf
  <2> QED  BY <2>1, <2>2, <2>3, <2>4 DEF Command
<1>7. CASE f \in PbCreateAsset
  <2>1. CommandOf(f) = CreateAssetOf(f)
    BY <1>7 DEF PbCreateAsset, CommandOf
  <2>2. CreateAssetOf(f) \in CreateAsset
    BY <1>7, <2>1, NameParsed DEF PbCreateAsset, CreateAsset, CreateAssetOf, IfAll, AssetId
  <2>3. FormOf(CreateAssetOf(f)) = FormOfCreateAsset(CreateAssetOf(f))
    BY <2>2 DEF CreateAsset, FormOf
  <2>4. \/ FormOfCreateAsset(CreateAssetOf(f)) = f
        \/ Respelled(f) /\ ~Respelled(FormOfCreateAsset(CreateAssetOf(f)))
    BY <1>7, <2>1, NameParsed DEF PbCreateAsset, FormOfCreateAsset, CreateAssetOf, IfAll, Respelled
  <2> QED  BY <2>1, <2>2, <2>3, <2>4 DEF Command
<1>8. CASE f \in PbCreateDomain
  <2>1. CommandOf(f) = CreateDomainOf(f)
    BY <1>8 DEF PbCreateDomain, CommandOf
  <2>2. CreateDomainOf(f) \in CreateDomain
    BY <1>8, <2>1, NameParsed DEF PbCreateDomain, CreateDomain, CreateDomainOf, IfAll
  <2>3. FormOf(CreateDomainOf(f)) = CreateDomainOf(f)
    BY <2>2 DEF CreateDomain, FormOf
  <2>4. \/ CreateDomainOf(f) = f
        \/ Respelled(f) /\ ~Respelled(CreateDomainOf(f))
    BY <1>8, <2>1, NameParsed DEF PbCreateDomain, CreateDomainOf, IfAll, Respelled
  <2> QED  BY <2>1, <2>2, <2>3, <2>4 DEF Command
<1>9. CASE f \in PbCreateRole
  <2>1. CommandOf(f) = CreateRoleOf(f)
    BY <1>9 DEF PbCreateRole, CommandOf
  <2>2. CreateRoleOf(f) \in CreateRole
    BY <1>9, <2>1, NameParsed, PermissionParsed DEF PbCreateRole, CreateRole, CreateRoleOf, IfAll
  <2>3. FormOf(CreateRoleOf(f)) = CreateRoleOf(f)
    BY <2>2 DEF CreateRole, FormOf
  <2>4. \/ CreateRoleOf(f) = f
        \/ Respelled(f) /\ ~Respelled(CreateRoleOf(f))
    BY <1>9, <2>1, NameParsed, PermissionParsed DEF PbCreateRole, CreateRoleOf, IfAll, Respelled
  <2> QED  BY <2>1, <2>2, <2>3, <2>4 DEF Command
<1>10. CASE f \in PbGrantPermission \cup PbRevokePermission
  <2>1. CommandOf(f) = PermissionCommandOf(f)
    BY <1>10 DEF PbGrantPermission, PbRevokePermission, CommandOf
  <2>2. PermissionCommandOf(f) \in GrantPermission \cup RevokePermission
    BY <1>10, <2>1, AccountParsed, PermissionParsed DEF PbGrantPermission, PbRevokePermission, GrantPermission, RevokePermission, PermissionCommandOf, IfAll, AccountId
  <2>3. FormOf(PermissionCommandOf(f)) = FormOfPermission(PermissionCommandOf(f))
    BY <2>2 DEF GrantPermission, RevokePermission, FormOf
  <2>4. \/ FormOfPermission(PermissionCommandOf(f)) = f
        \/ Respelled(f) /\ ~Respelled(FormOfPermission(PermissionCommandOf(f)))
    BY <1>10, <2>1, AccountParsed, PermissionParsed DEF PbGrantPermission, PbRevokePermission, FormOfPermission, PermissionCommandOf, IfAll, Respelled
  <2> QED  BY <2>1, <2>2, <2>3, <2>4 DEF Command
<1>11. CASE f \in PbSetAccountDetail
  <2>1. CommandOf(f) = SetAccountDetailOf(f)
    BY <1>11 DEF PbSetAccountDetail, CommandOf
  <2>2. SetAccountDetailOf(f) \in SetAccountDetail
    BY <1>11, <2>1, AccountParsed DEF PbSetAccountDetail, SetAccountDetail, SetAccountDetailOf, IfAll, AccountId
  <2>3. FormOf(SetAccountDetailOf(f)) = FormOfSetAccountDetail(SetAccountDetailOf(f))
    BY <2>2 DEF SetAccountDetail, FormOf
  <2>4. \/ FormOfSetAccountDetail(SetAccountDetailOf(f)) = f
        \/ Respelled(f) /\ ~Respelled(FormOfSetAccountDetail(SetAccountDetailOf(f)))
    BY <1>11, <2>1, AccountParsed DEF PbSetAccountDetail, FormOfSetAccountDetail, SetAccountDetailOf, IfAll, Respelled
  <2> QED  BY <2>1, <2>2, <2>3, <2>4 DEF Command
<1>12. CASE f \in PbSetAccountQuorum
  <2>1. CommandOf(f) = SetAccountQuorumOf(f)
    BY <1>12 DEF PbSetAccountQuorum, CommandOf
  <2>2. SetAccountQuorumOf(f) \in SetAccountQuorum
    BY <1>12, <2>1, AccountParsed DEF PbSetAccountQuorum, SetAccountQuorum, SetAccountQuorumOf, IfAll, AccountId
  <2>3. FormOf(SetAccountQuorumOf(f)) = FormOfSetAccountQuorum(SetAccountQuorumOf(f))
    BY <2>2 DEF SetAccountQuorum, FormOf
  <2>4. \/ FormOfSetAccountQuorum(SetAccountQuorumOf(f)) = f
        \/ Respelled(f) /\ ~Respelled(FormOfSetAccountQuorum(SetAccountQuorumOf(f)))
    BY <1>12, <2>1, AccountParsed DEF PbSetAccountQuorum, FormOfSetAccountQuorum, SetAccountQuorumOf, IfAll, Respelled
  <2> QED  BY <2>1, <2>2, <2>3, <2>4 DEF Command
<1>13. CASE f \in PbTransferAsset
  <2>1. CommandOf(f) = TransferAssetOf(f)
    BY <1>13 DEF PbTransferAsset, CommandOf
  <2>2. TransferAssetOf(f) \in TransferAsset
    BY <1>13, <2>1, AccountParsed, AssetParsed, AmountParsed DEF PbTransferAsset, TransferAsset, TransferAssetOf, IfAll, AccountId, AssetId
  <2>3. FormOf(TransferAssetOf(f)) = FormOfTransferAsset(TransferAssetOf(f))
    BY <2>2 DEF TransferAsset, FormOf
  <2>4. \/ FormOfTransferAsset(TransferAssetOf(f)) = f
        \/ Respelled(f) /\ ~Respelled(FormOfTransferAsset(TransferAssetOf(f)))
    BY <1>13, <2>1, AccountParsed, AssetParsed, AmountParsed DEF PbTransferAsset, FormOfTransferAsset, TransferAssetOf, IfAll, Respelled
  <2> QED  BY <2>1, <2>2, <2>3, <2>4 DEF Command
<1>14. CASE f \in PbCompareAndSetAccountDetail
  <2>1. CommandOf(f) = CompareAndSetOf(f)
    BY <1>14 DEF PbCompareAndSetAccountDetail, CommandOf
  <2>2. CompareAndSetOf(f) \in CompareAndSetAccountDetail
    BY <1>14, <2>1, AccountParsed, CodecAssumption DEF PbCompareAndSetAccountDetail, CompareAndSetAccountDetail, CompareAndSetOf, IfAll, AccountId
  <2>3. FormOf(CompareAndSetOf(f)) = FormOfCompareAndSet(CompareAndSetOf(f))
    BY <2>2 DEF CompareAndSetAccountDetail, FormOf
  <2>4. \/ FormOfCompareAndSet(CompareAndSetOf(f)) = f
        \/ Respelled(f) /\ ~Respelled(FormOfCompareAndSet(CompareAndSetOf(f)))
    BY <1>14, <2>1, AccountParsed, CodecAssumption DEF PbCompareAndSetAccountDetail, FormOfCompareAndSet, CompareAndSetOf, IfAll, Respelled
  <2> QED  BY <2>1, <2>2, <2>3, <2>4 DEF Command
<1>15. CASE f \in Unset
  BY <1>15 DEF Unset, CommandOf
<1> QED
  BY <1>1, <1>2, <1>3, <1>4, <1>5, <1>6, <1>7, <1>8, <1>9, <1>10, <1>11, <1>12, <1>13, <1>14, <1>15
  DEF PbCommand

\* The same of a form the library wrote itself, which it always reads.
LEMMA OwnReading ==
  ASSUME NEW c \in Command \cup KeylessAccount
  PROVE  /\ CommandOf(FormOf(c)) \in Command \cup KeylessAccount
         /\ c \in Command => CommandOf(FormOf(c)) \in Command
         /\ \/ FormOf(CommandOf(FormOf(c))) = FormOf(c)
            \/ Respelled(FormOf(c)) /\ ~Respelled(FormOf(CommandOf(FormOf(c))))
<1>1. CASE c \in Command /\ Faithful(c)
  BY <1>1, CommandReads
<1>2. CASE c \in Command /\ ~Faithful(c)
  <2> DEFINE d == WithEmptyOldValue(c)
  <2>1. c \in CompareAndSetAccountDetail /\ c.oldValue = Nil /\ CommandOf(FormOf(c)) = d /\ d \in CompareAndSetAccountDetail
    BY <1>2, UnsetOldValueReads
  <2>2. FormOf(c) = FormOfCompareAndSet(c)
    BY <2>1 DEF CompareAndSetAccountDetail, FormOf
  <2>3. Respelled(FormOfCompareAndSet(c))
    BY <2>1 DEF Respelled, FormOfCompareAndSet, CompareAndSetAccountDetail
  <2>4. FormOf(d) = FormOfCompareAndSet(d)
    BY DEF FormOf, WithEmptyOldValue
  <2>5. ~Respelled(FormOfCompareAndSet(d))
    BY CodecAssumption DEF Respelled, FormOfCompareAndSet, WithEmptyOldValue
  <2> QED
    BY <2>1, <2>2, <2>3, <2>4, <2>5 DEF Command
<1>3. CASE c \in KeylessAccount
  <2>1. FormOf(c) = FormOfCreateAccount(c)
    BY <1>3 DEF KeylessAccount, FormOf
  <2>2. CommandOf(FormOfCreateAccount(c)) = CreateAccountOf(FormOfCreateAccount(c))
    BY <1>3 DEF KeylessAccount, CommandOf, FormOfCreateAccount
  <2>3. CreateAccountOf(FormOfCreateAccount(c)) = c
    BY <1>3, NameReads, CodecAssumption
    DEF KeylessAccount, AccountId, CreateAccountOf, FormOfCreateAccount, IfAll, Hex, IsHex, RawBytes, KeyOf
  <2>4. c \notin Command
    BY <1>3, CodecAssumption
    DEF KeylessAccount, Command, AddAssetQuantity, SubtractAssetQuantity, AddPeer, RemovePeer,
       AddSignatory, RemoveSignatory, AppendRole, DetachRole, CreateAccount, CreateAsset,
       CreateDomain, CreateRole, GrantPermission, RevokePermission, SetAccountDetail,
       SetAccountQuorum, TransferAsset, CompareAndSetAccountDetail
  <2> QED
    BY <2>1, <2>2, <2>3, <2>4, <1>3
<1> QED
  BY <1>1, <1>2, <1>3

-----------------------------------------------------------------------------
(* The inductive invariant: where a form and a command come from.            *)

FormFrom ==
  pbForm # Nil =>
    \/ pbForm \in PbCommand /\ trips = 0 /\ madeBy = "peer"
    \/ \E c \in Command \cup KeylessAccount :
         pbForm = FormOf(c) /\ (c \in Command \/ madeBy = "peer")

ReadFrom == pbForm # Nil /\ irCommand # Nil => irCommand = CommandOf(pbForm)

RoundTripInv == trips \in Nat /\ PartsChecked /\ FormFrom /\ ReadFrom

LEMMA RoundTripInvInit == TripInit => RoundTripInv
  BY DEF TripInit, RoundTripInv, PartsChecked, FormFrom, ReadFrom

\* What Read finds in the form, whoever wrote it.
LEMMA ReadChecked ==
  ASSUME RoundTripInv, Read
  PROVE  \/ CommandOf(pbForm) \in Command
         \/ CommandOf(pbForm) \in KeylessAccount /\ madeBy = "peer"
<1>1. CASE pbForm \in PbCommand /\ trips = 0 /\ madeBy = "peer"
  BY <1>1, Reading DEF Read
<1>2. CASE \E c \in Command \cup KeylessAccount :
             pbForm = FormOf(c) /\ (c \in Command \/ madeBy = "peer")
  <2>1. PICK c \in Command \cup KeylessAccount :
               pbForm = FormOf(c) /\ (c \in Command \/ madeBy = "peer")
    BY <1>2
  <2> QED
    BY <2>1, OwnReading
<1> QED
  BY <1>1, <1>2 DEF RoundTripInv, FormFrom, Read, Written

LEMMA RoundTripInvNext == RoundTripInv /\ [TripNext]_tripVars => RoundTripInv'
<1> SUFFICES ASSUME RoundTripInv, [TripNext]_tripVars
             PROVE  RoundTripInv'
  OBVIOUS
<1>1. CASE Write
  <2>1. irCommand \in Command \cup KeylessAccount /\ (irCommand \in Command \/ madeBy = "peer")
    BY <1>1 DEF Write, RoundTripInv, PartsChecked
  <2> QED
    BY <1>1, <2>1 DEF Write, RoundTripInv, PartsChecked, FormFrom, ReadFrom, MaxTrips
<1>2. CASE Read
  BY <1>2, ReadChecked DEF Read, Written, RoundTripInv, PartsChecked, FormFrom, ReadFrom
<1>3. CASE UNCHANGED tripVars
  BY <1>3 DEF tripVars, RoundTripInv, PartsChecked, FormFrom, ReadFrom
<1> QED
  BY <1>1, <1>2, <1>3 DEF TripNext, Refuse

LEMMA RoundTripInvariant == TripSpec => []RoundTripInv
  BY RoundTripInvInit, RoundTripInvNext, PTL DEF TripSpec

\* Reading makes only commands whose parts were checked, but for createAccount.
THEOREM OnlyCheckedParts == TripSpec => []PartsChecked
<1>1. RoundTripInv => PartsChecked
  BY DEF RoundTripInv
<1> QED
  BY <1>1, RoundTripInvariant, PTL

\* No command is lost between writing and reading: the library accepts every
\* form it writes.
THEOREM NoCommandLost == TripSpec => []OwnFormsParse
<1>1. RoundTripInv => OwnFormsParse
  <2> SUFFICES ASSUME RoundTripInv, Written, trips > 0
               PROVE  CommandOf(pbForm) # Nil
    BY DEF OwnFormsParse
  <2>1. PICK c \in Command \cup KeylessAccount : pbForm = FormOf(c)
    BY DEF RoundTripInv, FormFrom, Written
  <2>2. CommandOf(pbForm) \in Command \cup KeylessAccount
    BY <2>1, OwnReading
  <2> QED
    BY <2>2, NilAssumption
<1> QED
  BY <1>1, RoundTripInvariant, PTL

\* A form changes at most once, and only if it is one of the respelled ones: on
\* it every hash and every signature depends.
THEOREM FormsSettle == TripSpec => FormSettles
<1>1. RoundTripInv /\ [TripNext]_tripVars =>
        [pbForm # Nil /\ pbForm' # pbForm => Respelled(pbForm) /\ ~Respelled(pbForm')]_tripVars
  <2> SUFFICES ASSUME RoundTripInv, TripNext, pbForm # Nil, pbForm' # pbForm
               PROVE  Respelled(pbForm) /\ ~Respelled(pbForm')
    OBVIOUS
  <2>1. Write
    BY DEF TripNext, Read, Refuse, tripVars
  <2>2. pbForm' = FormOf(CommandOf(pbForm)) /\ CommandOf(pbForm) # Nil
    BY <2>1 DEF Write, RoundTripInv, ReadFrom
  <2>3. CASE pbForm \in PbCommand
    BY <2>2, <2>3, Reading
  <2>4. CASE \E c \in Command \cup KeylessAccount : pbForm = FormOf(c)
    BY <2>2, <2>4, OwnReading
  <2> QED
    BY <2>3, <2>4 DEF RoundTripInv, FormFrom
<1> QED
  BY <1>1, RoundTripInvariant, PTL DEF TripSpec, FormSettles
=============================================================================
