---------------------------- MODULE CommandMessages ----------------------------
(***************************************************************************)
(* The messages of commands.proto: what a transaction that comes from a    *)
(* peer, or from bytes kept on the device, may hold as its commands.       *)
(*                                                                         *)
(* A message is the record of its fields, with the case of the oneof it    *)
(* sits in as its type.  A text that nobody set reads as Empty, and a      *)
(* submessage that nobody set as one with empty fields; only the fields of *)
(* a oneof have presence, and Nil stands for the absence.                  *)
(***************************************************************************)
EXTENDS Primitive

PbAddAssetQuantity      == [type : {"addAssetQuantity"}, assetId : IdText("#"), amount : AmountField]
PbAddPeer               == [type : {"addPeer"}, peer : PbPeer]
PbRemovePeer            == [type : {"removePeer"}, publicKey : HexText]
PbAddSignatory          == [type : {"addSignatory"}, accountId : IdText("@"), publicKey : HexText]
PbCreateAsset           == [type : {"createAsset"}, assetName : NameText, domainId : NameText,
                            precision : UInt32]
PbCreateAccount         == [type : {"createAccount"}, accountName : NameText, domainId : NameText,
                            publicKey : HexText]
PbSetAccountDetail      == [type : {"setAccountDetail"}, accountId : IdText("@"), key : Text,
                            value : Text]
PbCreateDomain          == [type : {"createDomain"}, domainId : NameText, defaultRole : NameText]
PbRemoveSignatory       == [type : {"removeSignatory"}, accountId : IdText("@"), publicKey : HexText]
PbSetAccountQuorum      == [type : {"setAccountQuorum"}, accountId : IdText("@"), quorum : UInt32]
PbTransferAsset         == [type : {"transferAsset"}, srcAccountId : IdText("@"),
                            destAccountId : IdText("@"), assetId : IdText("#"),
                            description : Text, amount : AmountField]
PbAppendRole            == [type : {"appendRole"}, accountId : IdText("@"), roleName : NameText]
PbDetachRole            == [type : {"detachRole"}, accountId : IdText("@"), roleName : NameText]
\* No permission, or two: a bound.
PbCreateRole            == [type : {"createRole"}, roleName : NameText,
                            permissions : {<< >>} \cup (RolePermissionField \X RolePermissionField)]
PbGrantPermission       == [type : {"grantPermission"}, accountId : IdText("@"),
                            permission : GrantablePermissionField]
PbRevokePermission      == [type : {"revokePermission"}, accountId : IdText("@"),
                            permission : GrantablePermissionField]
PbSubtractAssetQuantity == [type : {"subtractAssetQuantity"}, assetId : IdText("#"),
                            amount : AmountField]
PbCompareAndSetAccountDetail ==
  [type : {"compareAndSetAccountDetail"}, accountId : IdText("@"), key : Text, value : Text,
   oldValue : Text \cup {Nil}]

\* Unset is the case of a command this library does not know, too.
PbCommand ==
  PbAddAssetQuantity \cup PbSubtractAssetQuantity \cup PbAddPeer \cup PbRemovePeer \cup
  PbAddSignatory \cup PbRemoveSignatory \cup PbAppendRole \cup PbDetachRole \cup
  PbCreateAccount \cup PbCreateAsset \cup PbCreateDomain \cup PbCreateRole \cup
  PbGrantPermission \cup PbRevokePermission \cup PbSetAccountDetail \cup PbSetAccountQuorum \cup
  PbTransferAsset \cup PbCompareAndSetAccountDetail \cup Unset
=============================================================================
