----------------------------- MODULE CommandCodec -----------------------------
(***************************************************************************)
(* The commands of a transaction and their protobuf forms: what            *)
(* IRTransactionBuilder makes, what the transform: of each command writes, *)
(* and what IRCommandProtoFactory (IRCommand+Proto.m) reads back.          *)
(***************************************************************************)
EXTENDS CommandMessages

-----------------------------------------------------------------------------
(* Values, their texts and the factories that read them.  A definition       *)
(* named Mutant... is a slip in the one that follows it; no specification    *)
(* uses it.                                                                  *)

AccountId == [name : Name, domain : Name]
AssetId   == [name : Name, domain : Name]

\* The amounts an application can hand to a command: positive, plainly spelled.
TransferAmount == [units : Units \ {0}, spelled : {"plain"}]

Identifier(id, sep) == <<id.name, sep, id.domain>>

\* A factory answers Nil for a text it does not accept.
ParsedId(text, sep) ==
  IF text \in Name \X {sep} \X Name
  THEN [name |-> text[1], domain |-> text[3]]
  ELSE Nil

Account(text) == ParsedId(text, "@")
Asset(text)   == ParsedId(text, "#")

NameOf(text) == IF text \in Name THEN text ELSE Nil

\* permissionWithValue:error: of the two factories
RolePermissionOf(code)      == IF code \in RolePermission THEN code ELSE Nil
GrantablePermissionOf(code) == IF code \in GrantablePermission THEN code ELSE Nil

\* An amount goes through a decimal number, whose text has no needless zero.
Plain(amount) == [units |-> amount.units, spelled |-> "plain"]

MutantTransferAmountOf(text) == IF text \in AmountText THEN Plain(text) ELSE Nil
TransferAmountOf(text) ==
  IF text \in AmountText /\ text.units > 0 THEN Plain(text) ELSE Nil

\* The text of no key at all is what an unset field reads as.
Hex(key)     == IF key = Nil THEN Empty ELSE <<"hex", key>>
IsHex(text)  == text \in {"hex"} \X RawBytes \/ text = Empty
KeyOf(text)  == IF text \in {"hex"} \X Key THEN text[2] ELSE Nil

\* A parsed command, unless one of its parts was refused.
IfAll(parts, command) == IF Nil \in parts THEN Nil ELSE command

-----------------------------------------------------------------------------
(* The commands the builder makes                                            *)

AddAssetQuantity      == [type : {"addAssetQuantity"}, assetId : AssetId, amount : TransferAmount]
SubtractAssetQuantity == [type : {"subtractAssetQuantity"}, assetId : AssetId, amount : TransferAmount]
AddPeer               == [type : {"addPeer"}, address : Name, publicKey : Key]
RemovePeer            == [type : {"removePeer"}, peerKey : Key]
AddSignatory          == [type : {"addSignatory"}, accountId : AccountId, publicKey : Key]
RemoveSignatory       == [type : {"removeSignatory"}, accountId : AccountId, publicKey : Key]
AppendRole            == [type : {"appendRole"}, accountId : AccountId, roleName : Name]
DetachRole            == [type : {"detachRole"}, accountId : AccountId, roleName : Name]
CreateAccount         == [type : {"createAccount"}, accountId : AccountId, publicKey : Key]
CreateAsset           == [type : {"createAsset"}, assetId : AssetId, precision : UInt32]
CreateDomain          == [type : {"createDomain"}, domainId : Name, defaultRole : Name]
CreateRole            == [type : {"createRole"}, roleName : Name,
                          permissions : {<< >>} \cup (RolePermission \X RolePermission)]
GrantPermission       == [type : {"grantPermission"}, accountId : AccountId, permission : GrantablePermission]
RevokePermission      == [type : {"revokePermission"}, accountId : AccountId, permission : GrantablePermission]
SetAccountDetail      == [type : {"setAccountDetail"}, accountId : AccountId, key : Text, value : Text]
SetAccountQuorum      == [type : {"setAccountQuorum"}, accountId : AccountId, quorum : UInt32]
TransferAsset         == [type : {"transferAsset"}, sourceAccountId : AccountId,
                          destinationAccountId : AccountId, assetId : AssetId,
                          transferDescription : Text, amount : TransferAmount]
\* oldValue is the only nullable argument.
CompareAndSetAccountDetail ==
  [type : {"compareAndSetAccountDetail"}, accountId : AccountId, key : Text, value : Text,
   oldValue : Text \cup {Nil}]

Command ==
  AddAssetQuantity \cup SubtractAssetQuantity \cup AddPeer \cup RemovePeer \cup
  AddSignatory \cup RemoveSignatory \cup AppendRole \cup DetachRole \cup CreateAccount \cup
  CreateAsset \cup CreateDomain \cup CreateRole \cup GrantPermission \cup RevokePermission \cup
  SetAccountDetail \cup SetAccountQuorum \cup TransferAsset \cup CompareAndSetAccountDetail

\* What reading a createAccount may give besides: an account without a key.
KeylessAccount == [type : {"createAccount"}, accountId : AccountId, publicKey : {Nil}]

ASSUME NilAssumption == Nil \notin Command \cup KeylessAccount

-----------------------------------------------------------------------------
(* transform: of each command.  A form is the message inside the Command     *)
(* message; its type is the case of the oneof.                               *)

FormOfAssetQuantity(c) ==
  [type |-> c.type, assetId |-> Identifier(c.assetId, "#"), amount |-> c.amount]

FormOfAddPeer(c) == [type |-> c.type, peer |-> [address |-> c.address, peerKey |-> Hex(c.publicKey)]]

FormOfRemovePeer(c) == [type |-> c.type, publicKey |-> Hex(c.peerKey)]

FormOfSignatory(c) ==
  [type |-> c.type, accountId |-> Identifier(c.accountId, "@"), publicKey |-> Hex(c.publicKey)]

FormOfRole(c) ==
  [type |-> c.type, accountId |-> Identifier(c.accountId, "@"), roleName |-> c.roleName]

FormOfCreateAccount(c) ==
  [type |-> c.type, accountName |-> c.accountId.name, domainId |-> c.accountId.domain,
   publicKey |-> Hex(c.publicKey)]

FormOfCreateAsset(c) ==
  [type |-> c.type, assetName |-> c.assetId.name, domainId |-> c.assetId.domain,
   precision |-> c.precision]

FormOfPermission(c) ==
  [type |-> c.type, accountId |-> Identifier(c.accountId, "@"), permission |-> c.permission]

FormOfSetAccountDetail(c) ==
  [type |-> c.type, accountId |-> Identifier(c.accountId, "@"), key |-> c.key, value |-> c.value]

FormOfSetAccountQuorum(c) ==
  [type |-> c.type, accountId |-> Identifier(c.accountId, "@"), quorum |-> c.quorum]

MutantFormOfTransferAsset(c) ==
  [type |-> c.type, srcAccountId |-> Identifier(c.sourceAccountId, "@"),
   destAccountId |-> Identifier(c.destinationAccountId, "#"), assetId |-> Identifier(c.assetId, "#"),
   amount |-> c.amount, description |-> c.transferDescription]
FormOfTransferAsset(c) ==
  [type |-> c.type, srcAccountId |-> Identifier(c.sourceAccountId, "@"),
   destAccountId |-> Identifier(c.destinationAccountId, "@"), assetId |-> Identifier(c.assetId, "#"),
   amount |-> c.amount, description |-> c.transferDescription]

\* oldValue has presence (it is in a oneof): nil leaves it out of the message.
FormOfCompareAndSet(c) ==
  [type |-> c.type, accountId |-> Identifier(c.accountId, "@"), key |-> c.key, value |-> c.value,
   oldValue |-> c.oldValue]

\* createDomain and createRole write their fields as they are.
FormOf(c) ==
  CASE c.type \in {"addAssetQuantity", "subtractAssetQuantity"} -> FormOfAssetQuantity(c)
    [] c.type = "addPeer"                                -> FormOfAddPeer(c)
    [] c.type = "removePeer"                             -> FormOfRemovePeer(c)
    [] c.type \in {"addSignatory", "removeSignatory"}    -> FormOfSignatory(c)
    [] c.type \in {"appendRole", "detachRole"}           -> FormOfRole(c)
    [] c.type = "createAccount"                          -> FormOfCreateAccount(c)
    [] c.type = "createAsset"                            -> FormOfCreateAsset(c)
    [] c.type \in {"createDomain", "createRole"}         -> c
    [] c.type \in {"grantPermission", "revokePermission"} -> FormOfPermission(c)
    [] c.type = "setAccountDetail"                       -> FormOfSetAccountDetail(c)
    [] c.type = "setAccountQuorum"                       -> FormOfSetAccountQuorum(c)
    [] c.type = "transferAsset"                          -> FormOfTransferAsset(c)
    [] c.type = "compareAndSetAccountDetail"                          -> FormOfCompareAndSet(c)

-----------------------------------------------------------------------------
(* IRCommandProtoFactory                                                     *)

AssetQuantityOf(f) ==
  IfAll({Asset(f.assetId), TransferAmountOf(f.amount)},
        [type |-> f.type, assetId |-> Asset(f.assetId), amount |-> TransferAmountOf(f.amount)])

AddPeerOf(f) ==
  IfAll({NameOf(f.peer.address), KeyOf(f.peer.peerKey)},
        [type |-> f.type, address |-> f.peer.address, publicKey |-> KeyOf(f.peer.peerKey)])

RemovePeerOf(f) ==
  IfAll({KeyOf(f.publicKey)}, [type |-> f.type, peerKey |-> KeyOf(f.publicKey)])

SignatoryOf(f) ==
  IfAll({Account(f.accountId), KeyOf(f.publicKey)},
        [type |-> f.type, accountId |-> Account(f.accountId), publicKey |-> KeyOf(f.publicKey)])

RoleOf(f) ==
  IfAll({Account(f.accountId), NameOf(f.roleName)},
        [type |-> f.type, accountId |-> Account(f.accountId), roleName |-> f.roleName])

\* The bytes of the key are checked, the key made of them is not.
CreateAccountOf(f) ==
  IF IsHex(f.publicKey)
  THEN IfAll({NameOf(f.accountName), NameOf(f.domainId)},
             [type |-> f.type, accountId |-> [name |-> f.accountName, domain |-> f.domainId],
              publicKey |-> KeyOf(f.publicKey)])
  ELSE Nil

CreateAssetOf(f) ==
  IfAll({NameOf(f.assetName), NameOf(f.domainId)},
        [type |-> f.type, assetId |-> [name |-> f.assetName, domain |-> f.domainId],
         precision |-> f.precision])

\* defaultRole reads as Empty, never as nil, when it is not set.
CreateDomainOf(f) == IfAll({NameOf(f.domainId), NameOf(f.defaultRole)}, f)

CreateRoleOf(f) ==
  IfAll({NameOf(f.roleName)} \cup {RolePermissionOf(f.permissions[i]) : i \in DOMAIN f.permissions}, f)

PermissionCommandOf(f) ==
  IfAll({Account(f.accountId), GrantablePermissionOf(f.permission)},
        [type |-> f.type, accountId |-> Account(f.accountId), permission |-> f.permission])

SetAccountDetailOf(f) ==
  IfAll({Account(f.accountId)},
        [type |-> f.type, accountId |-> Account(f.accountId), key |-> f.key, value |-> f.value])

SetAccountQuorumOf(f) ==
  IfAll({Account(f.accountId)},
        [type |-> f.type, accountId |-> Account(f.accountId), quorum |-> f.quorum])

TransferAssetOf(f) ==
  IfAll({Account(f.srcAccountId), Account(f.destAccountId), Asset(f.assetId),
         TransferAmountOf(f.amount)},
        [type |-> f.type, sourceAccountId |-> Account(f.srcAccountId),
         destinationAccountId |-> Account(f.destAccountId), assetId |-> Asset(f.assetId),
         transferDescription |-> f.description, amount |-> TransferAmountOf(f.amount)])

MutantCompareAndSetOf(f) ==
  IfAll({Account(f.accountId)},
        [type |-> f.type, accountId |-> Account(f.accountId), key |-> f.key, value |-> f.value,
         oldValue |-> f.value])

\* An oldValue that is not there reads as Empty.
CompareAndSetOf(f) ==
  IfAll({Account(f.accountId)},
        [type |-> f.type, accountId |-> Account(f.accountId), key |-> f.key, value |-> f.value,
         oldValue |-> IF f.oldValue = Nil THEN Empty ELSE f.oldValue])

CommandOf(f) ==
  CASE f.type \in {"addAssetQuantity", "subtractAssetQuantity"} -> AssetQuantityOf(f)
    [] f.type = "addPeer"                                -> AddPeerOf(f)
    [] f.type = "removePeer"                             -> RemovePeerOf(f)
    [] f.type \in {"addSignatory", "removeSignatory"}    -> SignatoryOf(f)
    [] f.type \in {"appendRole", "detachRole"}           -> RoleOf(f)
    [] f.type = "createAccount"                          -> CreateAccountOf(f)
    [] f.type = "createAsset"                            -> CreateAssetOf(f)
    [] f.type = "createDomain"                           -> CreateDomainOf(f)
    [] f.type = "createRole"                             -> CreateRoleOf(f)
    [] f.type \in {"grantPermission", "revokePermission"} -> PermissionCommandOf(f)
    [] f.type = "setAccountDetail"                       -> SetAccountDetailOf(f)
    [] f.type = "setAccountQuorum"                       -> SetAccountQuorumOf(f)
    [] f.type = "transferAsset"                          -> TransferAssetOf(f)
    [] f.type = "compareAndSetAccountDetail"                          -> CompareAndSetOf(f)
    [] OTHER                                             -> Nil      \* an unknown command
=============================================================================
