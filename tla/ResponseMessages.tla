---------------------------- MODULE ResponseMessages ----------------------------
(***************************************************************************)
(* The messages a peer answers with: those of qry_responses.proto, of      *)
(* block.proto and of endpoint.proto.                                      *)
(*                                                                         *)
(* The answer to a query and the one about a commit are of one of several  *)
(* cases, named by the type; a text and a submessage nobody set read as    *)
(* empty ones, but where Nil stands for the absence of one.  Free texts    *)
(* are in Text, Empty among them.                                          *)
(***************************************************************************)
EXTENDS Primitive

CONSTANTS
  PbTransaction,  \* the transaction messages (those of transaction.proto)
  Acceptable,     \* those the library makes a transaction of
  Stray,          \* and of these, those that set the error of the caller all the same
  Raising         \* those that raise an exception while they are read: all of their
                  \* parts are readable, but a batch hash is no hexadecimal text

-----------------------------------------------------------------------------
(* qry_responses.proto.  An enumeration goes by its numbers, and a field of it *)
(* may hold one more.                                                        *)

ErrorReason      == 0 .. 8
ErrorReasonField == 0 .. 9

PbAsset        == [assetId : IdText("#"), domainId : NameText, precision : UInt32]
PbAccount      == [accountId : IdText("@"), domainId : NameText, quorum : UInt32, jsonData : Text]
PbAccountAsset == [assetId : IdText("#"), accountId : IdText("@"), balance : AmountField]
PbBatchInfo    == [firstTxHash : HexText, batchSize : UInt32]

PbAccountAssetResponse    == [type : {"accountAssets"}, accountAssets : Seq(PbAccountAsset),
                              totalNumber : UInt32, nextAssetId : IdText("#")]
PbAccountDetailResponse   == [type : {"accountDetail"}, detail : Text, totalNumber : UInt64,
                              nextRecordId : PbAccountDetailRecordId \cup {Nil}]
PbAccountResponse         == [type : {"account"}, account : PbAccount, accountRoles : Seq(NameText)]
PbAssetResponse           == [type : {"asset"}, asset : PbAsset]
PbRolesResponse           == [type : {"roles"}, roles : Seq(NameText)]
PbRolePermissionsResponse == [type : {"rolePermissions"}, permissions : Seq(RolePermissionField)]
PbErrorResponse           == [type : {"error"}, reason : ErrorReasonField, message : Text,
                              errorCode : UInt32]
PbSignatoriesResponse     == [type : {"signatories"}, keys : Seq(HexText)]
PbTransactionsResponse    == [type : {"transactions"}, transactions : Seq(PbTransaction)]
PbTransactionsPageResponse ==
  [type : {"transactionsPage"}, transactions : Seq(PbTransaction), allTransactionsSize : UInt32,
   nextTxHash : HexText]
PbPendingTransactionsPageResponse ==
  [type : {"pendingPage"}, transactions : Seq(PbTransaction), allTransactionsSize : UInt32,
   nextBatchInfo : PbBatchInfo]
PbPeersResponse           == [type : {"peers"}, peers : Seq(PbPeer)]

-----------------------------------------------------------------------------
(* block.proto, and the answers that hold a block                            *)

PbBlockPayload ==
  [transactions : Seq(PbTransaction), txNumber : UInt32, height : UInt64, prevBlockHash : HexText,
   createdTime : UInt64, rejectedTransactionsHashes : Seq(HexText)]
PbBlockV1 == [payload : PbBlockPayload, signatures : Seq(PbSignature)]
PbBlock   == [blockV1 : PbBlockV1]

PbBlockResponse      == [type : {"block"}, block : PbBlock]
PbBlockErrorResponse == [type : {"blockError"}, message : Text]
PbBlockQueryResponse == PbBlockResponse \cup PbBlockErrorResponse \cup Unset

PbQueryResponse ==
  [queryHash : HexText,
   response : PbAccountAssetResponse \cup PbAccountDetailResponse \cup PbAccountResponse \cup
              PbErrorResponse \cup PbSignatoriesResponse \cup PbTransactionsResponse \cup
              PbAssetResponse \cup PbRolesResponse \cup PbRolePermissionsResponse \cup
              PbTransactionsPageResponse \cup PbPendingTransactionsPageResponse \cup
              PbBlockResponse \cup PbPeersResponse \cup Unset]

-----------------------------------------------------------------------------
(* endpoint.proto                                                            *)

TxStatus      == 0 .. 9
TxStatusField == 0 .. 10

PbToriiResponse ==
  [txStatus : TxStatusField, txHash : HexText, errOrCmdName : Text, failedCmdIndex : UInt64,
   errorCode : UInt32]

ASSUME TransactionAssumption ==
  /\ Stray \subseteq Acceptable /\ Acceptable \subseteq PbTransaction
  /\ Raising \subseteq PbTransaction /\ Raising \cap Acceptable = {}
=============================================================================
