----------------------------- MODULE QueryMessages -----------------------------
(***************************************************************************)
(* The messages of queries.proto: what a peer reads a query from.          *)
(*                                                                         *)
(* A query is the record of its fields, with its case of the oneof it sits *)
(* in as its type.  Nil stands for the absence of a field that has         *)
(* presence: a submessage, or the only field of a oneof.                   *)
(***************************************************************************)
EXTENDS Primitive

PbTxPaginationMeta    == [pageSize : UInt32, firstTxHash : HexText \cup {Nil}]
PbAssetPaginationMeta == [pageSize : UInt32, firstAssetId : IdText("#") \cup {Nil}]
PbAccountDetailPaginationMeta ==
  [pageSize : UInt32, firstRecordId : PbAccountDetailRecordId \cup {Nil}]

PbGetAccount             == [type : {"getAccount"}, accountId : IdText("@")]
PbGetBlock               == [type : {"getBlock"}, height : UInt64]
PbGetSignatories         == [type : {"getSignatories"}, accountId : IdText("@")]
PbGetAccountTransactions == [type : {"getAccountTransactions"}, accountId : IdText("@"),
                             paginationMeta : PbTxPaginationMeta \cup {Nil}]
PbGetAccountAssetTransactions ==
  [type : {"getAccountAssetTransactions"}, accountId : IdText("@"), assetId : IdText("#"),
   paginationMeta : PbTxPaginationMeta \cup {Nil}]
PbGetTransactions        == [type : {"getTransactions"}, txHashes : Seq(HexText)]
PbGetAccountAssets       == [type : {"getAccountAssets"}, accountId : IdText("@"),
                             paginationMeta : PbAssetPaginationMeta \cup {Nil}]
PbGetAccountDetail       == [type : {"getAccountDetail"}, accountId : IdText("@") \cup {Nil},
                             key : Text \cup {Nil}, writer : Text \cup {Nil},
                             paginationMeta : PbAccountDetailPaginationMeta \cup {Nil}]
PbGetAssetInfo           == [type : {"getAssetInfo"}, assetId : IdText("#")]
PbGetRoles               == [type : {"getRoles"}]
PbGetRolePermissions     == [type : {"getRolePermissions"}, roleId : NameText]
PbGetPendingTransactions == [type : {"getPendingTransactions"},
                             paginationMeta : PbTxPaginationMeta \cup {Nil}]
PbGetPeers               == [type : {"getPeers"}]

PbQueryPayloadMeta ==
  [createdTime : UInt64, creatorAccountId : IdText("@"), queryCounter : UInt64]

\* The submessages of Query_Payload, one of which is set
PbQueryPayload ==
  [meta : PbQueryPayloadMeta,
   query : PbGetAccount \cup PbGetSignatories \cup PbGetAccountTransactions \cup
           PbGetAccountAssetTransactions \cup PbGetTransactions \cup PbGetAccountAssets \cup
           PbGetAccountDetail \cup PbGetRoles \cup PbGetRolePermissions \cup PbGetAssetInfo \cup
           PbGetPendingTransactions \cup PbGetBlock \cup PbGetPeers]

(* A query and a query of blocks.  What a signature is is up to the module   *)
(* that signs.                                                               *)

PbQuery(signature)       == [payload : PbQueryPayload, signature : signature \cup {Nil}]
PbBlocksQuery(signature) == [meta : PbQueryPayloadMeta, signature : signature \cup {Nil}]
=============================================================================
