--------------------------- MODULE QueryRequestProofs ---------------------------
(* Proofs about the requests of QueryRequest, for any queries, any number of    *)
(* requests and any use of the builder.                                        *)
EXTENDS QueryRequest, TLAPS

-----------------------------------------------------------------------------
(* What a query is made of is a message of queries.proto                     *)

LEMMA HashIsText ==
  ASSUME NEW h \in Hash
  PROVE  Hex(h) = <<"hex", h>> /\ Hex(h) \in HexText /\ Hex(h) # Nil
BY CodecAssumption, NilIsNoForm DEF Hash, Hex, HexText, RawBytes

LEMMA IdentifierIsText ==
  ASSUME NEW id \in [name : Name, domain : Name], NEW sep
  PROVE  Identifier(id, sep) \in IdText(sep)
BY DEF Identifier, IdText

LEMMA TxPageIsMessage ==
  ASSUME NEW page \in Pagination \cup {Nil}
  PROVE  IF page = Nil THEN TxPaginationMeta(page) = Nil
         ELSE TxPaginationMeta(page) \in PbTxPaginationMeta
BY HashIsText DEF TxPaginationMeta, Pagination, PbTxPaginationMeta

LEMMA AssetPageIsMessage ==
  ASSUME NEW page \in AssetPagination \cup {Nil}
  PROVE  IF page = Nil THEN AssetPaginationMeta(page) = Nil
         ELSE AssetPaginationMeta(page) \in PbAssetPaginationMeta
BY IdentifierIsText DEF AssetPaginationMeta, AssetPagination, PbAssetPaginationMeta, AssetId

-----------------------------------------------------------------------------
(* The forms of two queries differ if they ask for different things          *)

\* An identifier tells its name and its domain.
LEMMA IdentifierTells ==
  ASSUME NEW a \in [name : Name, domain : Name], NEW b \in [name : Name, domain : Name], NEW sep,
         Identifier(a, sep) = Identifier(b, sep)
  PROVE  a = b
<1>1. a.name = b.name /\ a.domain = b.domain
  BY DEF Identifier
<1> QED BY <1>1

\* A page of transactions is told by its message, and so is the absence of one.
LEMMA TxPageTells ==
  ASSUME NEW a \in Pagination \cup {Nil}, NEW b \in Pagination \cup {Nil},
         TxPaginationMeta(a) = TxPaginationMeta(b)
  PROVE  a = b
<1>1. ASSUME NEW p \in Pagination
      PROVE  TxPaginationMeta(p) \in PbTxPaginationMeta
  BY TxPageIsMessage, NilIsNoForm
<1>2. CASE a = Nil \/ b = Nil
  BY <1>1, <1>2, NilIsNoForm DEF TxPaginationMeta
<1>3. CASE a # Nil /\ b # Nil
  <2>1. a.pageSize = b.pageSize
    BY <1>3 DEF TxPaginationMeta
  <2>2. ASSUME NEW h \in Hash PROVE Hex(h) # Nil /\ Hex(h) = <<"hex", h>>
    BY HashIsText
  <2>3. a.firstItemHash = b.firstItemHash
    BY <1>3, <2>2 DEF TxPaginationMeta, Pagination
  <2> QED BY <1>3, <2>1, <2>3 DEF Pagination
<1> QED BY <1>2, <1>3

\* A page of assets is told by its message.
LEMMA AssetPageTells ==
  ASSUME NEW a \in AssetPagination \cup {Nil}, NEW b \in AssetPagination \cup {Nil},
         AssetPaginationMeta(a) = AssetPaginationMeta(b)
  PROVE  a = b
<1>1. ASSUME NEW id \in AssetId PROVE Identifier(id, "#") # Nil
  BY IdentifierIsText, NilIsNoForm DEF AssetId
<1>2. ASSUME NEW p \in AssetPagination
      PROVE  AssetPaginationMeta(p) \in PbAssetPaginationMeta
  BY AssetPageIsMessage, NilIsNoForm
<1>3. CASE a = Nil \/ b = Nil
  BY <1>2, <1>3, NilIsNoForm DEF AssetPaginationMeta
<1>4. CASE a # Nil /\ b # Nil
  <2>1. a.pageSize = b.pageSize
    BY <1>4 DEF AssetPaginationMeta
  <2>2. a.startingAssetId \in AssetId \cup {Nil} /\ b.startingAssetId \in AssetId \cup {Nil}
    BY <1>4 DEF AssetPagination
  <2>3. a.startingAssetId = b.startingAssetId
    <3>1. CASE a.startingAssetId = Nil \/ b.startingAssetId = Nil
      BY <1>1, <1>4, <2>2, <3>1 DEF AssetPaginationMeta
    <3>2. CASE a.startingAssetId # Nil /\ b.startingAssetId # Nil
      <4>1. Identifier(a.startingAssetId, "#") = Identifier(b.startingAssetId, "#")
        BY <1>4, <3>2 DEF AssetPaginationMeta
      <4> QED BY <2>2, <3>2, <4>1, IdentifierTells DEF AssetId
    <3> QED BY <3>1, <3>2
  <2> QED BY <1>4, <2>1, <2>3 DEF AssetPagination
<1> QED BY <1>3, <1>4

\* A list of hashes is told by the texts of its hashes.
LEMMA HashesTell ==
  ASSUME NEW a \in Seq(Hash), NEW b \in Seq(Hash),
         [i \in DOMAIN a |-> Hex(a[i])] = [i \in DOMAIN b |-> Hex(b[i])]
  PROVE  a = b
<1>1. DOMAIN a = DOMAIN b
  OBVIOUS
<1>2. ASSUME NEW i \in DOMAIN a PROVE a[i] = b[i]
  <2>1. Hex(a[i]) = Hex(b[i])
    BY <1>1
  <2>2. a[i] \in Hash /\ b[i] \in Hash
    BY <1>1
  <2> QED BY <2>1, <2>2, HashIsText
<1> QED BY <1>1, <1>2

\* The type of a query is the case of its form.
LEMMA FormHasType ==
  ASSUME NEW q \in Query
  PROVE  QueryForm(q).type = q.type
BY DEF Query, GetAccount, GetSignatories, GetAccountTransactions, GetAccountAssetTransactions,
       GetTransactions, GetAccountAssets, GetAccountDetail, GetAccountDetailPage, GetRoles,
       GetRolePermissions, GetAssetInfo, GetPendingTransactions, GetPeers, QueryForm,
       FormOfAccountQuery, FormOfGetAccountTransactions, FormOfGetAccountAssetTransactions,
       FormOfGetTransactions, FormOfGetAccountAssets, FormOfGetAccountDetail,
       FormOfGetRolePermissions, FormOfGetAssetInfo, FormOfGetPendingTransactions

\* Which query a type is the type of.
LEMMA AnyQuery ==
  ASSUME NEW q \in Query
  PROVE  /\ q.type = "getAccount"                  => q \in GetAccount
         /\ q.type = "getSignatories"              => q \in GetSignatories
         /\ q.type = "getAccountTransactions"      => q \in GetAccountTransactions
         /\ q.type = "getAccountAssetTransactions" => q \in GetAccountAssetTransactions
         /\ q.type = "getTransactions"             => q \in GetTransactions
         /\ q.type = "getAccountAssets"            => q \in GetAccountAssets
         /\ q.type = "getAccountDetail"            => q \in GetAccountDetail \cup GetAccountDetailPage
         /\ q.type = "getRoles"                    => q \in GetRoles
         /\ q.type = "getRolePermissions"          => q \in GetRolePermissions
         /\ q.type = "getAssetInfo"                => q \in GetAssetInfo
         /\ q.type = "getPendingTransactions"      => q \in GetPendingTransactions
         /\ q.type = "getPeers"                    => q \in GetPeers
         /\ q.type \in {"getAccount", "getSignatories", "getAccountTransactions",
                       "getAccountAssetTransactions", "getTransactions", "getAccountAssets",
                       "getAccountDetail", "getRoles", "getRolePermissions", "getAssetInfo",
                       "getPendingTransactions", "getPeers"}
BY DEF Query, GetAccount, GetSignatories, GetAccountTransactions, GetAccountAssetTransactions,
       GetTransactions, GetAccountAssets, GetAccountDetail, GetAccountDetailPage, GetRoles,
       GetRolePermissions, GetAssetInfo, GetPendingTransactions, GetPeers

\* The details of an account: an account that may be left out, and a page or
\* what a writer has under a key.
LEMMA DetailTells ==
  ASSUME NEW a \in GetAccountDetail \cup GetAccountDetailPage,
         NEW b \in GetAccountDetail \cup GetAccountDetailPage,
         FormOfGetAccountDetail(a) = FormOfGetAccountDetail(b)
  PROVE  a = b
<1> USE DEF GetAccountDetail, GetAccountDetailPage
<1>1. a.type = b.type /\ a.writer = b.writer /\ a.key = b.key
  BY DEF FormOfGetAccountDetail
<1>2. a.accountId = b.accountId
  <2>1. ASSUME NEW id \in AccountId PROVE Identifier(id, "@") # Nil
    BY IdentifierIsText, NilIsNoForm DEF AccountId
  <2>2. a.accountId \in AccountId \cup {Nil} /\ b.accountId \in AccountId \cup {Nil}
    OBVIOUS
  <2>3. CASE a.accountId = Nil \/ b.accountId = Nil
    BY <2>1, <2>2, <2>3 DEF FormOfGetAccountDetail
  <2>4. CASE a.accountId # Nil /\ b.accountId # Nil
    <3>1. Identifier(a.accountId, "@") = Identifier(b.accountId, "@")
      BY <2>4 DEF FormOfGetAccountDetail
    <3> QED BY <2>2, <2>4, <3>1, IdentifierTells DEF AccountId
  <2> QED BY <2>3, <2>4
<1>3. a.pagination = b.pagination
  <2> DEFINE Message(page) == [pageSize |-> page.pageSize, firstRecordId |-> page.nextRecordId]
  <2>1. ASSUME NEW page \in AccountDetailPagination PROVE Message(page) # Nil
    <3>1. Message(page) \in PbAccountDetailPaginationMeta
      BY DEF AccountDetailPagination, AccountDetailRecordId, PbAccountDetailPaginationMeta,
             PbAccountDetailRecordId
    <3> QED BY <3>1, NilIsNoForm
  <2>2. /\ a.pagination \in AccountDetailPagination \cup {Nil}
        /\ b.pagination \in AccountDetailPagination \cup {Nil}
    OBVIOUS
  <2>3. CASE a.pagination = Nil \/ b.pagination = Nil
    BY <2>1, <2>2, <2>3 DEF FormOfGetAccountDetail
  <2>4. CASE a.pagination # Nil /\ b.pagination # Nil
    <3>1. Message(a.pagination) = Message(b.pagination)
      BY <2>4 DEF FormOfGetAccountDetail
    <3>2. /\ a.pagination.pageSize = b.pagination.pageSize
          /\ a.pagination.nextRecordId = b.pagination.nextRecordId
      BY <3>1
    <3> QED BY <2>2, <2>4, <3>2 DEF AccountDetailPagination
  <2> QED BY <2>3, <2>4
<1> QED BY <1>1, <1>2, <1>3

\* Any two queries with the same form ask for the same, whatever is in the arrays.
LEMMA QueriesTell ==
  ASSUME lists \in [Lists -> Seq(Hash)], NEW a \in Query, NEW b \in Query,
         QueryForm(a) = QueryForm(b)
  PROVE  Asked(a) = Asked(b)
<1>1. a.type = b.type
  BY FormHasType
<1>2. CASE a.type \in {"getAccount", "getSignatories"}
  <2>1. a \in GetAccount \cup GetSignatories /\ b \in GetAccount \cup GetSignatories
    BY <1>1, <1>2, AnyQuery
  <2>2. Identifier(a.accountId, "@") = Identifier(b.accountId, "@")
    BY <1>1, <1>2 DEF QueryForm, FormOfAccountQuery
  <2>3. a.accountId = b.accountId
    BY <2>1, <2>2, IdentifierTells DEF GetAccount, GetSignatories, AccountId
  <2>4. a = b
    BY <1>1, <2>1, <2>3 DEF GetAccount, GetSignatories
  <2> QED BY <2>4 DEF Asked
<1>3. CASE a.type = "getAccountTransactions"
  <2>1. a \in GetAccountTransactions /\ b \in GetAccountTransactions
    BY <1>1, <1>3, AnyQuery
  <2>2. /\ Identifier(a.accountId, "@") = Identifier(b.accountId, "@")
        /\ TxPaginationMeta(a.pagination) = TxPaginationMeta(b.pagination)
    BY <1>1, <1>3 DEF QueryForm, FormOfGetAccountTransactions
  <2>3. a.accountId = b.accountId
    BY <2>1, <2>2, IdentifierTells DEF GetAccountTransactions, AccountId
  <2>4. a.pagination = b.pagination
    BY <2>1, <2>2, TxPageTells DEF GetAccountTransactions
  <2>5. a = b
    BY <2>1, <2>3, <2>4 DEF GetAccountTransactions
  <2> QED BY <2>5 DEF Asked
<1>4. CASE a.type = "getAccountAssetTransactions"
  <2>1. a \in GetAccountAssetTransactions /\ b \in GetAccountAssetTransactions
    BY <1>1, <1>4, AnyQuery
  <2>2. /\ Identifier(a.accountId, "@") = Identifier(b.accountId, "@")
        /\ Identifier(a.assetId, "#") = Identifier(b.assetId, "#")
        /\ TxPaginationMeta(a.pagination) = TxPaginationMeta(b.pagination)
    BY <1>1, <1>4 DEF QueryForm, FormOfGetAccountAssetTransactions
  <2>3. a.accountId = b.accountId /\ a.assetId = b.assetId
    BY <2>1, <2>2, IdentifierTells DEF GetAccountAssetTransactions, AccountId, AssetId
  <2>4. a.pagination = b.pagination
    BY <2>1, <2>2, TxPageTells DEF GetAccountAssetTransactions
  <2>5. a = b
    BY <2>1, <2>3, <2>4 DEF GetAccountAssetTransactions
  <2> QED BY <2>5 DEF Asked
<1>5. CASE a.type = "getTransactions"
  <2>1. a \in GetTransactions /\ b \in GetTransactions
    BY <1>1, <1>5, AnyQuery
  <2> DEFINE x == lists[a.transactionHashes]
             y == lists[b.transactionHashes]
  <2>2. [i \in DOMAIN x |-> Hex(x[i])] = [i \in DOMAIN y |-> Hex(y[i])]
    BY <1>1, <1>5 DEF QueryForm, FormOfGetTransactions
  <2>3. x \in Seq(Hash) /\ y \in Seq(Hash)
    BY <2>1 DEF GetTransactions
  <2>4. x = y
    <3> HIDE DEF x, y
    <3> QED BY <2>2, <2>3, HashesTell
  <2> QED BY <1>1, <2>1, <2>4 DEF Asked
<1>6. CASE a.type = "getAccountAssets"
  <2>1. a \in GetAccountAssets /\ b \in GetAccountAssets
    BY <1>1, <1>6, AnyQuery
  <2>2. /\ Identifier(a.accountId, "@") = Identifier(b.accountId, "@")
        /\ AssetPaginationMeta(a.pagination) = AssetPaginationMeta(b.pagination)
    BY <1>1, <1>6 DEF QueryForm, FormOfGetAccountAssets
  <2>3. a.accountId = b.accountId
    BY <2>1, <2>2, IdentifierTells DEF GetAccountAssets, AccountId
  <2>4. a.pagination = b.pagination
    BY <2>1, <2>2, AssetPageTells DEF GetAccountAssets
  <2>5. a = b
    BY <2>1, <2>3, <2>4 DEF GetAccountAssets
  <2> QED BY <2>5 DEF Asked
<1>7. CASE a.type = "getAccountDetail"
  <2>1. /\ a \in GetAccountDetail \cup GetAccountDetailPage
        /\ b \in GetAccountDetail \cup GetAccountDetailPage
    BY <1>1, <1>7, AnyQuery
  <2>2. FormOfGetAccountDetail(a) = FormOfGetAccountDetail(b)
    BY <1>1, <1>7 DEF QueryForm
  <2>3. a = b
    BY <2>1, <2>2, DetailTells
  <2> QED BY <2>3 DEF Asked
<1>8. CASE a.type \in {"getRoles", "getPeers"}
  <2>1. a \in GetRoles \cup GetPeers /\ b \in GetRoles \cup GetPeers
    BY <1>1, <1>8, AnyQuery
  <2>2. a = b
    BY <1>1, <2>1 DEF GetRoles, GetPeers
  <2> QED BY <2>2 DEF Asked
<1>9. CASE a.type = "getRolePermissions"
  <2>1. a \in GetRolePermissions /\ b \in GetRolePermissions
    BY <1>1, <1>9, AnyQuery
  <2>2. a.roleName = b.roleName
    BY <1>1, <1>9 DEF QueryForm, FormOfGetRolePermissions
  <2>3. a = b
    BY <2>1, <2>2 DEF GetRolePermissions
  <2> QED BY <2>3 DEF Asked
<1>10. CASE a.type = "getAssetInfo"
  <2>1. a \in GetAssetInfo /\ b \in GetAssetInfo
    BY <1>1, <1>10, AnyQuery
  <2>2. Identifier(a.assetId, "#") = Identifier(b.assetId, "#")
    BY <1>1, <1>10 DEF QueryForm, FormOfGetAssetInfo
  <2>3. a.assetId = b.assetId
    BY <2>1, <2>2, IdentifierTells DEF GetAssetInfo, AssetId
  <2>4. a = b
    BY <2>1, <2>3 DEF GetAssetInfo
  <2> QED BY <2>4 DEF Asked
<1>11. CASE a.type = "getPendingTransactions"
  <2>1. a \in GetPendingTransactions /\ b \in GetPendingTransactions
    BY <1>1, <1>11, AnyQuery
  <2>2. TxPaginationMeta(a.pagination) = TxPaginationMeta(b.pagination)
    BY <1>1, <1>11 DEF QueryForm, FormOfGetPendingTransactions
  <2>3. a.pagination = b.pagination
    BY <2>1, <2>2, TxPageTells DEF GetPendingTransactions
  <2>4. a = b
    BY <2>1, <2>3 DEF GetPendingTransactions
  <2> QED BY <2>4 DEF Asked
<1> QED
  BY <1>2, <1>3, <1>4, <1>5, <1>6, <1>7, <1>8, <1>9, <1>10, <1>11, AnyQuery

-----------------------------------------------------------------------------
(* Type correctness                                                          *)

\* The form of every query is one of the messages a payload may hold.
LEMMA QueryIsMessage ==
  ASSUME lists \in [Lists -> Seq(Hash)], NEW q \in Query,
         NEW m, m \in PbQueryPayloadMeta
  PROVE  [meta |-> m, query |-> QueryForm(q)] \in PbQueryPayload
<1> DEFINE Fits(form) == [meta |-> m, query |-> form] \in PbQueryPayload
<1>1. CASE q.type = "getAccount"
  <2>1. q \in GetAccount
    BY <1>1, AnyQuery
  <2>2. QueryForm(q) \in PbGetAccount
    BY <1>1, <2>1, IdentifierIsText
       DEF QueryForm, FormOfAccountQuery, GetAccount, PbGetAccount, AccountId
  <2> QED BY <2>2 DEF PbQueryPayload
<1>2. CASE q.type = "getSignatories"
  <2>1. q \in GetSignatories
    BY <1>2, AnyQuery
  <2>2. QueryForm(q) \in PbGetSignatories
    BY <1>2, <2>1, IdentifierIsText
       DEF QueryForm, FormOfAccountQuery, GetSignatories, PbGetSignatories, AccountId
  <2> QED BY <2>2 DEF PbQueryPayload
<1>3. CASE q.type = "getAccountTransactions"
  <2>1. q \in GetAccountTransactions
    BY <1>3, AnyQuery
  <2>2. QueryForm(q) \in PbGetAccountTransactions
    BY <1>3, <2>1, IdentifierIsText, TxPageIsMessage
       DEF QueryForm, FormOfGetAccountTransactions, GetAccountTransactions,
           PbGetAccountTransactions, AccountId
  <2> QED BY <2>2 DEF PbQueryPayload
<1>4. CASE q.type = "getAccountAssetTransactions"
  <2>1. q \in GetAccountAssetTransactions
    BY <1>4, AnyQuery
  <2>2. QueryForm(q) \in PbGetAccountAssetTransactions
    BY <1>4, <2>1, IdentifierIsText, TxPageIsMessage
       DEF QueryForm, FormOfGetAccountAssetTransactions, GetAccountAssetTransactions,
           PbGetAccountAssetTransactions, AccountId, AssetId
  <2> QED BY <2>2 DEF PbQueryPayload
<1>5. CASE q.type = "getTransactions"
  <2>1. q \in GetTransactions
    BY <1>5, AnyQuery
  <2> DEFINE hashes == lists[q.transactionHashes]
  <2>2. hashes \in Seq(Hash)
    BY <2>1 DEF GetTransactions
  <2>3. QueryForm(q) =
          [type |-> "getTransactions", txHashes |-> [i \in DOMAIN hashes |-> Hex(hashes[i])]]
    BY <1>5 DEF QueryForm, FormOfGetTransactions
  <2> HIDE DEF hashes
  <2>4. \A i \in DOMAIN hashes : Hex(hashes[i]) \in HexText
    BY <2>2, HashIsText
  <2>5. [i \in DOMAIN hashes |-> Hex(hashes[i])] \in Seq(HexText)
    BY <2>2, <2>4
  <2>6. QueryForm(q) \in PbGetTransactions
    BY <2>3, <2>5 DEF PbGetTransactions
  <2> QED BY <2>6 DEF PbQueryPayload
<1>6. CASE q.type = "getAccountAssets"
  <2>1. q \in GetAccountAssets
    BY <1>6, AnyQuery
  <2>2. QueryForm(q) \in PbGetAccountAssets
    BY <1>6, <2>1, IdentifierIsText, AssetPageIsMessage
       DEF QueryForm, FormOfGetAccountAssets, GetAccountAssets, PbGetAccountAssets, AccountId
  <2> QED BY <2>2 DEF PbQueryPayload
<1>7. CASE q.type = "getAccountDetail"
  <2>1. q \in GetAccountDetail \cup GetAccountDetailPage
    BY <1>7, AnyQuery
  <2>2. QueryForm(q) \in PbGetAccountDetail
    BY <1>7, <2>1, IdentifierIsText
       DEF QueryForm, FormOfGetAccountDetail, GetAccountDetail, GetAccountDetailPage,
           PbGetAccountDetail, AccountId, AccountDetailPagination, AccountDetailRecordId,
           PbAccountDetailPaginationMeta, PbAccountDetailRecordId
  <2> QED BY <2>2 DEF PbQueryPayload
<1>8. CASE q.type \in {"getRoles", "getPeers"}
  <2>1. QueryForm(q) \in PbGetRoles \cup PbGetPeers
    BY <1>8 DEF QueryForm, PbGetRoles, PbGetPeers
  <2> QED BY <2>1 DEF PbQueryPayload
<1>9. CASE q.type = "getRolePermissions"
  <2>1. q \in GetRolePermissions
    BY <1>9, AnyQuery
  <2>2. QueryForm(q) \in PbGetRolePermissions
    BY <1>9, <2>1 DEF QueryForm, FormOfGetRolePermissions, GetRolePermissions,
                      PbGetRolePermissions, NameText
  <2> QED BY <2>2 DEF PbQueryPayload
<1>10. CASE q.type = "getAssetInfo"
  <2>1. q \in GetAssetInfo
    BY <1>10, AnyQuery
  <2>2. QueryForm(q) \in PbGetAssetInfo
    BY <1>10, <2>1, IdentifierIsText
       DEF QueryForm, FormOfGetAssetInfo, GetAssetInfo, PbGetAssetInfo, AssetId
  <2> QED BY <2>2 DEF PbQueryPayload
<1>11. CASE q.type = "getPendingTransactions"
  <2>1. q \in GetPendingTransactions
    BY <1>11, AnyQuery
  <2>2. QueryForm(q) \in PbGetPendingTransactions
    BY <1>11, <2>1, TxPageIsMessage
       DEF QueryForm, FormOfGetPendingTransactions, GetPendingTransactions,
           PbGetPendingTransactions
  <2> QED BY <2>2 DEF PbQueryPayload
<1> QED
  BY <1>1, <1>2, <1>3, <1>4, <1>5, <1>6, <1>7, <1>8, <1>9, <1>10, <1>11, AnyQuery

LEMMA MetaIsMessage ==
  ASSUME NEW r, r.creator \in Creators, r.createdAt \in Nat, r.queryCounter \in Nat
  PROVE  Meta(r) \in PbQueryPayloadMeta
<1>1. Milliseconds(r.createdAt) \in Nat
  BY QueryAssumption DEF Milliseconds
<1>2. Identifier(r.creator, "@") \in IdText("@")
  BY QueryAssumption, IdentifierIsText DEF AccountId
<1> QED BY <1>1, <1>2 DEF Meta, PbQueryPayloadMeta, UInt64

\* What a request would have signed is a message, and so is what it sends.
LEMMA RequestIsMessage ==
  ASSUME lists \in [Lists -> Seq(Hash)], NEW r,
         r.creator \in Creators, r.createdAt \in Nat, r.queryCounter \in Nat,
         r.query \in Queries \cup {Nil}
  PROVE  /\ Payload(r) \in Signable \cup {Nil}
         /\ r.peerSignature \in Signature \cup {Nil} => Form(r) \in Sent
<1>1. Meta(r) \in PbQueryPayloadMeta
  BY MetaIsMessage
<1>2. CASE r.query = Foreign
  BY <1>2, QueryAssumption DEF Payload, Form, Sent
<1>3. CASE r.query = Nil
  <2>1. Payload(r) = Meta(r)
    BY <1>3, QueryAssumption DEF Payload
  <2>2. Form(r) = Nil \/ Form(r) = [meta |-> Meta(r), signature |-> r.peerSignature]
    BY <1>3, <2>1 DEF Form
  <2> QED BY <1>1, <2>1, <2>2 DEF Signable, Sent, PbBlocksQuery
<1>4. CASE r.query \in Query
  <2>1. Payload(r) = [meta |-> Meta(r), query |-> QueryForm(r.query)]
    BY <1>4, QueryAssumption DEF Payload
  <2>2. Payload(r) \in PbQueryPayload
    BY <1>1, <1>4, <2>1, QueryIsMessage
  <2>3. Form(r) = Nil \/ Form(r) = [payload |-> Payload(r), signature |-> r.peerSignature]
    BY <1>4, QueryAssumption DEF Form
  <2> QED BY <2>2, <2>3 DEF Signable, Sent, PbQuery
<1> QED BY <1>2, <1>3, <1>4, QueryAssumption

LEMMA RequestsSend ==
  (lists \in [Lists -> Seq(Hash)] /\ requests \in Seq(RequestType)) => SendsMessages
<1> SUFFICES ASSUME lists \in [Lists -> Seq(Hash)], requests \in Seq(RequestType),
                    NEW i \in DOMAIN requests
             PROVE  Form(requests[i]) \in Sent
  BY DEF SendsMessages
<1>1. requests[i] \in RequestType
  OBVIOUS
<1> QED BY <1>1, RequestIsMessage DEF RequestType

\* And so they do after any step that keeps the types of the arrays and requests.
LEMMA RequestsStillSend ==
  (lists \in [Lists -> Seq(Hash)] /\ requests \in Seq(RequestType))' => SendsMessages'
BY RequestsSend, PTL

\* A new request takes nothing from the earlier ones.
LEMMA MakeAppends ==
  ASSUME TypeOK, NEW r, NEW of \in Nat, Make(r, of)
  PROVE  /\ requests' = Append(requests, r)
         /\ Len(requests') = Len(requests) + 1
         /\ Len(origin') = Len(requests) + 1
         /\ DOMAIN requests' = 1 .. Len(requests) + 1
         /\ DOMAIN origin' = 1 .. Len(requests) + 1
         /\ DOMAIN requests = 1 .. Len(requests)
         /\ DOMAIN origin = 1 .. Len(requests)
         /\ \A i \in 1 .. Len(requests) :
              requests'[i] = requests[i] /\ origin'[i] = origin[i]
         /\ requests'[Len(requests) + 1] = r
         /\ origin'[Len(requests) + 1] =
              [of |-> of, at |-> now, dated |-> dated, lists |-> lists, payload |-> Payload(r)]
BY DEF TypeOK, Make

LEMMA MakeKeepsTypes ==
  ASSUME TypeOK, NEW r, NEW of \in Nat, Make(r, of), UNCHANGED <<builder, lists, now, dated>>,
         of = Len(requests) + 1 \/ of \in Built,
         r.query = Nil <=> builder.kind = "blocks",
         r \in [creator : Creators, createdAt : Nat, query : Queries \cup {Nil},
               queryCounter : Nat \ {0},
               peerSignature : {Nil} \cup [by : Signatory, over : {Payload(r)} \ {Nil}]]
  PROVE  TypeOK'
<1> DEFINE n == Len(requests) + 1
<1>1. /\ n \in Nat \ {0}
      /\ DOMAIN requests' = 1 .. n /\ DOMAIN origin' = 1 .. n
      /\ DOMAIN requests = 1 .. n - 1 /\ DOMAIN origin = 1 .. n - 1
      /\ \A i \in 1 .. n - 1 : requests'[i] = requests[i] /\ origin'[i] = origin[i]
      /\ requests'[n] = r
      /\ origin'[n] = [of |-> of, at |-> now, dated |-> dated, lists |-> lists,
                       payload |-> Payload(r)]
      /\ Len(origin') = Len(requests')
  BY MakeAppends DEF TypeOK
<1> HIDE DEF n
<1>2. Payload(r) \in Signable \cup {Nil}
  BY RequestIsMessage DEF TypeOK
<1>3. requests' \in Seq(RequestType)
  <2>1. r \in RequestType
    BY <1>2 DEF RequestType, Signature
  <2> QED BY <2>1 DEF TypeOK, Make
<1>4. origin' \in Seq(OriginType)
  <2>1. [of |-> of, at |-> now, dated |-> dated, lists |-> lists, payload |-> Payload(r)]
          \in OriginType
    BY <1>2 DEF OriginType, TypeOK
  <2> QED BY <2>1 DEF TypeOK, Make
<1>5. \A i \in DOMAIN requests' : requests'[i].query = Nil <=> builder'.kind = "blocks"
  BY <1>1 DEF TypeOK
<1>6. Built \subseteq Built' /\ (of = n => n \in Built')
  BY <1>1 DEF Built
<1>7. \A i \in DOMAIN origin' : origin'[i].of \in 1 .. i /\ origin'[i].of \in Built'
  <2>1. of \in 1 .. n /\ of \in Built'
    <3>1. CASE of = Len(requests) + 1
      BY <1>1, <1>6, <3>1 DEF n
    <3>2. CASE of \in Built
      <4>1. of \in 1 .. n - 1
        BY <1>1, <3>2 DEF Built
      <4> QED BY <1>1, <1>6, <3>2, <4>1
    <3> QED BY <3>1, <3>2
  <2>2. \A i \in 1 .. n - 1 : origin'[i].of \in 1 .. i /\ origin'[i].of \in Built'
    BY <1>1, <1>6 DEF TypeOK
  <2>3. origin'[n].of = of
    BY <1>1
  <2> QED BY <1>1, <2>1, <2>2, <2>3
<1> QED BY <1>1, <1>3, <1>4, <1>5, <1>7, RequestsStillSend DEF TypeOK

\* The builder may be filled in any way that leaves it a builder.
LEMMA FillKeepsTypes ==
  ASSUME TypeOK, NEW filled, Fill(filled), dated' \in BOOLEAN,
         filled \in [kind : {"query", "blocks"}, creator : Creators \cup {Nil},
                    createdAt : Nat \cup {Nil}, query : Queries \cup {Nil},
                    queryCounter : Nat \ {0}],
         filled.kind = builder.kind,
         filled.kind = "blocks" => filled.query = Nil
  PROVE  TypeOK'
BY RequestsStillSend DEF TypeOK, Fill, Built

\* What build: makes is a request of the builder's kind.
LEMMA BuildMakes ==
  ASSUME TypeOK, Build
  PROVE  /\ Request \in [creator : Creators, createdAt : Nat, query : Queries \cup {Nil},
                         queryCounter : Nat \ {0}, peerSignature : {Nil}]
         /\ Request.query = Nil <=> builder.kind = "blocks"
         /\ Make(Request, Len(requests) + 1)
         /\ Len(requests) + 1 \in Nat
         /\ UNCHANGED <<builder, lists, now, dated>>
<1>1. DateOfBuild \in Nat
  BY DEF DateOfBuild, TypeOK
<1> QED
  BY <1>1 DEF Build, Buildable, Request, QueryRequest, TypeOK

\* What signing makes is the request it signs but for the signature, which is
\* over what the request is now, and it is of the same built request.
LEMMA SignMakes ==
  ASSUME TypeOK, NEW i \in DOMAIN requests, NEW signatory \in Signatory \cup {Broken},
         Sign(i, signatory)
  PROVE  /\ signatory \in Signatory
         /\ Payload(requests[i]) # Nil
         /\ Signed(requests[i], signatory) =
              [requests[i] EXCEPT !.peerSignature =
                 [by |-> signatory, over |-> Payload(requests[i])]]
         /\ Payload(Signed(requests[i], signatory)) = Payload(requests[i])
         /\ Make(Signed(requests[i], signatory), origin[i].of)
         /\ origin[i].of \in Nat /\ origin[i].of \in Built
         /\ requests[i] \in RequestType
         /\ i \in DOMAIN origin
         /\ UNCHANGED <<builder, lists, now, dated>>
<1>1. requests[i] \in RequestType /\ i \in DOMAIN origin
  BY DEF TypeOK
<1>2. SignatureBy(requests[i], signatory) # Nil
  BY DEF Sign, Signed
<1>3. /\ Payload(requests[i]) # Nil /\ signatory \in Signatory
      /\ SignatureBy(requests[i], signatory) = [by |-> signatory, over |-> Payload(requests[i])]
  BY <1>2 DEF SignatureBy
<1>4. Signed(requests[i], signatory) =
        [requests[i] EXCEPT !.peerSignature = [by |-> signatory, over |-> Payload(requests[i])]]
  BY <1>1, <1>2, <1>3 DEF Signed, QueryRequest, RequestType
<1>5. Payload(Signed(requests[i], signatory)) = Payload(requests[i])
  <2> DEFINE s == Signed(requests[i], signatory)
  <2>1. /\ s.creator = requests[i].creator /\ s.createdAt = requests[i].createdAt
        /\ s.query = requests[i].query /\ s.queryCounter = requests[i].queryCounter
    BY <1>1, <1>4 DEF RequestType
  <2> HIDE DEF s
  <2>2. Payload(s) = Payload(requests[i])
    BY <2>1 DEF Payload, Meta
  <2> QED BY <2>2 DEF s
<1>6. /\ Make(Signed(requests[i], signatory), origin[i].of)
      /\ UNCHANGED <<builder, lists, now, dated>>
  BY DEF Sign
<1>7. origin[i].of \in Nat /\ origin[i].of \in Built
  BY <1>1 DEF TypeOK, OriginType
<1> QED BY <1>1, <1>3, <1>4, <1>5, <1>6, <1>7

LEMMA TypesStep ==
  ASSUME TypeOK, [Next]_vars
  PROVE  TypeOK'
<1>1. ASSUME NEW creator \in Creators, WithCreatorAccountId(creator) PROVE TypeOK'
  BY <1>1, FillKeepsTypes DEF WithCreatorAccountId, TypeOK
<1>2. ASSUME NEW date \in Dates, WithCreatedDate(date) PROVE TypeOK'
  BY <1>2, FillKeepsTypes, QueryAssumption DEF WithCreatedDate, TypeOK
<1>3. ASSUME NEW counter \in Counters, WithQueryCounter(counter) PROVE TypeOK'
  <2>1. (IF counter > 0 THEN counter ELSE DefaultQueryCounter) \in Nat \ {0}
    BY QueryAssumption DEF DefaultQueryCounter
  <2> QED BY <1>3, <2>1, FillKeepsTypes DEF WithQueryCounter, TypeOK
<1>4. ASSUME NEW query \in Queries, WithQuery(query) PROVE TypeOK'
  BY <1>4, FillKeepsTypes DEF WithQuery, TypeOK
<1>5. CASE Build
  BY <1>5, BuildMakes, MakeKeepsTypes
<1>6. ASSUME NEW i \in DOMAIN requests, NEW signatory \in Signatory \cup {Broken},
             Sign(i, signatory)
      PROVE  TypeOK'
  <2> DEFINE s == Signed(requests[i], signatory)
  <2>1. s \in [creator : Creators, createdAt : Nat, query : Queries \cup {Nil},
               queryCounter : Nat \ {0},
               peerSignature : {Nil} \cup [by : Signatory, over : {Payload(s)} \ {Nil}]]
    BY <1>6, SignMakes DEF RequestType
  <2>2. s.query = Nil <=> builder.kind = "blocks"
    BY <1>6, SignMakes DEF RequestType, TypeOK
  <2>3. /\ Make(s, origin[i].of) /\ origin[i].of \in Nat /\ origin[i].of \in Built
        /\ UNCHANGED <<builder, lists, now, dated>>
    BY <1>6, SignMakes
  <2> QED BY <2>1, <2>2, <2>3, MakeKeepsTypes
<1>7. ASSUME NEW list \in Lists, NEW hash \in Hash, AddHash(list, hash) PROVE TypeOK'
  BY <1>7, RequestsStillSend DEF AddHash, TypeOK, Built
<1>8. CASE Tick
  BY <1>8, RequestsStillSend DEF Tick, TypeOK, Built
<1>9. CASE UNCHANGED vars
  BY <1>9, RequestsStillSend DEF vars, TypeOK, Built
<1> QED BY <1>1, <1>2, <1>3, <1>4, <1>5, <1>6, <1>7, <1>8, <1>9 DEF Next

LEMMA TypesInit ==
  Init => TypeOK
<1> SUFFICES ASSUME Init PROVE TypeOK
  OBVIOUS
<1>1. /\ builder \in [kind : {"query", "blocks"}, creator : Creators \cup {Nil},
                      createdAt : Nat \cup {Nil}, query : Queries \cup {Nil},
                      queryCounter : Nat \ {0}]
      /\ builder.kind = "blocks" => builder.query = Nil
  BY DEF Init, DefaultQueryCounter
<1>2. requests \in Seq(RequestType) /\ origin \in Seq(OriginType) /\ Len(origin) = Len(requests)
  BY DEF Init
<1>3. DOMAIN requests = {} /\ DOMAIN origin = {}
  BY DEF Init
<1>4. lists \in [Lists -> Seq(Hash)]
  <2>1. << >> \in Seq(Hash)
    OBVIOUS
  <2>2. lists = [l \in Lists |-> << >>]
    BY DEF Init
  <2> QED BY <2>1, <2>2
<1>5. now \in Nat /\ dated \in BOOLEAN
  BY DEF Init
<1> QED BY <1>1, <1>2, <1>3, <1>4, <1>5, RequestsSend DEF TypeOK

\* Requests and builders have their types; no request has the counter 0, whatever
\* withQueryCounter: was given.
THEOREM TypeCorrect == Spec => []TypeOK
BY TypesInit, TypesStep, PTL DEF Spec

\* Two requests with the same query in their payloads ask for the same
\* (transform: of the twelve queries).
THEOREM QueriesAreTold == Spec => []QueriesDiffer
<1>1. TypeOK => QueriesDiffer
  <2> SUFFICES ASSUME TypeOK, NEW i \in DOMAIN requests, NEW j \in DOMAIN requests,
                      {requests[i].query, requests[j].query} \subseteq Query,
                      QueryForm(requests[i].query) = QueryForm(requests[j].query)
               PROVE  Asked(requests[i].query) = Asked(requests[j].query)
    BY DEF QueriesDiffer
  <2>1. lists \in [Lists -> Seq(Hash)]
    BY DEF TypeOK
  <2> QED BY <2>1, QueriesTell
<1> QED BY <1>1, TypeCorrect, PTL

-----------------------------------------------------------------------------
(* What a request asks                                                       *)

\* The parts of a request that its payload is made of
Parts(r) == <<r.creator, r.createdAt, r.query, r.queryCounter>>

\* What holds of each request: arrays have only grown since it was made; it has
\* the payload it was made with, or its array was added to; its signature is over
\* that payload; it has the parts of the built request it comes from; and if it is
\* that one and no date was set, it bears the time it was made at.
Good(i) ==
  /\ \A l \in Lists : Len(origin[i].lists[l]) <= Len(lists[l])
  /\ \/ Payload(requests[i]) = origin[i].payload
     \/ AddedTo(requests[i], origin[i].lists)
  /\ requests[i].peerSignature # Nil =>
       /\ requests[i].peerSignature.over = origin[i].payload
       /\ origin[i].payload # Nil
  /\ Parts(requests[i]) = Parts(requests[origin[i].of])
  /\ i \in Built /\ ~origin[i].dated => requests[i].createdAt = origin[i].at

Inv ==
  /\ TypeOK
  /\ ~dated => builder.createdAt = Nil
  /\ \A i \in DOMAIN requests : Good(i)

\* A request whose array does not change has the payload it would have had before.
LEMMA NextPayload ==
  ASSUME NEW i, NEW r, requests'[i] = r, r.query \in Queries \cup {Nil},
         r.query \in GetTransactions =>
           lists'[r.query.transactionHashes] = lists[r.query.transactionHashes]
  PROVE  Payload(requests[i])' = Payload(r)
<1>1. CASE r.query \in Query
  <2>1. QueryForm(requests[i].query)' = QueryForm(r.query)
    <3>1. CASE r.query.type = "getTransactions"
      BY <1>1, <3>1, AnyQuery DEF QueryForm, FormOfGetTransactions
    <3>2. CASE r.query.type # "getTransactions"
      BY <3>2 DEF QueryForm, FormOfAccountQuery, FormOfGetAccountTransactions,
        FormOfGetAccountAssetTransactions, FormOfGetAccountAssets, FormOfGetAccountDetail,
        FormOfGetRolePermissions, FormOfGetAssetInfo, FormOfGetPendingTransactions
    <3> QED BY <3>1, <3>2
  <2> QED BY <2>1 DEF Payload, Meta
<1>2. CASE r.query \in {Nil, Foreign}
  BY <1>2 DEF Payload, Meta
<1> QED BY <1>1, <1>2, QueryAssumption

\* A step that makes no request and leaves the arrays leaves each request good.
LEMMA GoodStays ==
  ASSUME UNCHANGED <<lists, requests, origin>>, NEW i, Good(i)
  PROVE  Good(i)'
BY DEF Good, Payload, Meta, QueryForm, FormOfAccountQuery, FormOfGetAccountTransactions,
  FormOfGetAccountAssetTransactions, FormOfGetTransactions, FormOfGetAccountAssets,
  FormOfGetAccountDetail, FormOfGetRolePermissions, FormOfGetAssetInfo,
  FormOfGetPendingTransactions, AddedTo, Built, Parts

\* Adding a hash to an array lengthens it: no array is ever again what it was.
LEMMA GoodAfterAddHash ==
  ASSUME TypeOK, NEW list \in Lists, NEW hash \in Hash, AddHash(list, hash),
         NEW i \in DOMAIN requests, Good(i)
  PROVE  Good(i)'
<1>1. i \in DOMAIN origin
  BY DEF TypeOK
<1>2. requests[i] \in RequestType /\ origin[i] \in OriginType
  BY <1>1 DEF TypeOK
<1>3. requests[i].query \in Queries \cup {Nil} /\ origin[i].lists \in [Lists -> Seq(Hash)]
  BY <1>2 DEF RequestType, OriginType
<1>4. UNCHANGED <<requests, origin>>
  BY DEF AddHash
<1>5. /\ \A l \in Lists : l # list => lists'[l] = lists[l]
      /\ Len(lists'[list]) = Len(lists[list]) + 1
      /\ \A l \in Lists : Len(lists[l]) \in Nat /\ Len(origin[i].lists[l]) \in Nat
      /\ \A l \in Lists : Len(origin[i].lists[l]) <= Len(lists[l])
  BY <1>3 DEF AddHash, TypeOK, Good
<1>6. \A l \in Lists : Len(origin[i].lists[l]) <= Len(lists'[l])
  BY <1>5
<1>7. Payload(requests[i])' = origin[i].payload \/ AddedTo(requests[i], origin[i].lists)'
  <2>1. CASE requests[i].query \in GetTransactions /\ requests[i].query.transactionHashes = list
    <3>1. lists'[list] # origin[i].lists[list]
      BY <1>5
    <3> QED BY <1>4, <2>1, <3>1 DEF AddedTo
  <2>2. CASE ~(requests[i].query \in GetTransactions /\ requests[i].query.transactionHashes = list)
    <3>1. requests[i].query \in GetTransactions =>
            lists'[requests[i].query.transactionHashes] = lists[requests[i].query.transactionHashes]
      BY <1>5, <2>2 DEF GetTransactions
    <3>2. Payload(requests[i])' = Payload(requests[i])
      BY <1>3, <1>4, <3>1, NextPayload
    <3>3. AddedTo(requests[i], origin[i].lists) => AddedTo(requests[i], origin[i].lists)'
      BY <1>4, <3>1 DEF AddedTo
    <3> QED BY <3>2, <3>3 DEF Good
  <2> QED BY <2>1, <2>2
<1>8. Built' = Built
  BY <1>4 DEF Built
<1> QED BY <1>4, <1>6, <1>7, <1>8 DEF Good, Parts

\* Making a request: it is enough that the new one is good.
LEMMA GoodAfterMake ==
  ASSUME TypeOK, NEW r, NEW of \in Nat, Make(r, of), UNCHANGED lists,
         r.query \in Queries \cup {Nil},
         \A i \in DOMAIN requests : Good(i),
         r.peerSignature # Nil => r.peerSignature.over = Payload(r) /\ Payload(r) # Nil,
         \/ of = Len(requests) + 1 /\ (~dated => r.createdAt = now)
         \/ of \in Built /\ Parts(r) = Parts(requests[of])
  PROVE  \A i \in DOMAIN requests' : Good(i)'
<1>0. PICK n \in Nat : n = Len(requests) + 1
  BY DEF TypeOK
<1>1. /\ n \in Nat \ {0}
      /\ DOMAIN requests' = 1 .. n /\ DOMAIN origin' = 1 .. n
      /\ DOMAIN requests = 1 .. n - 1 /\ DOMAIN origin = 1 .. n - 1
      /\ \A i \in 1 .. n - 1 : requests'[i] = requests[i] /\ origin'[i] = origin[i]
      /\ requests'[n] = r
      /\ origin'[n] = [of |-> of, at |-> now, dated |-> dated, lists |-> lists,
                       payload |-> Payload(r)]
  BY <1>0, MakeAppends DEF TypeOK
<1>2. \A l \in Lists : Len(lists[l]) \in Nat
  BY DEF TypeOK
<1>3. of = n \/ of \in 1 .. n - 1
  BY <1>0, <1>1 DEF Built
<1>4. ASSUME NEW i \in 1 .. n - 1 PROVE Good(i)'
  <2>1. Good(i) /\ requests'[i] = requests[i] /\ origin'[i] = origin[i]
    BY <1>1
  <2>2. Payload(requests[i])' = Payload(requests[i])
    <3>1. requests[i] \in RequestType
      BY <1>1 DEF TypeOK
    <3>2. requests[i].query \in Queries \cup {Nil}
      BY <3>1 DEF RequestType
    <3> QED BY <2>1, <3>2, NextPayload
  <2>3. AddedTo(requests[i], origin[i].lists)' <=> AddedTo(requests[i], origin[i].lists)
    BY <2>1 DEF AddedTo
  <2>4. origin[i].of \in 1 .. n - 1
    <3>1. origin[i].of \in 1 .. i
      BY <1>1 DEF TypeOK
    <3> QED BY <3>1
  <2>5. i \in Built' <=> i \in Built
    BY <1>1, <2>1 DEF Built
  <2> QED BY <1>1, <2>1, <2>2, <2>3, <2>4, <2>5 DEF Good, Parts
<1>5. Good(n)'
  <2>1. \A l \in Lists : Len(origin'[n].lists[l]) <= Len(lists'[l])
    BY <1>1, <1>2
  <2>2. Payload(requests[n])' = origin'[n].payload
    <3>1. Payload(requests[n])' = Payload(r)
      BY <1>1, NextPayload
    <3> QED BY <1>1, <3>1
  <2>3. requests'[n].peerSignature # Nil =>
          requests'[n].peerSignature.over = origin'[n].payload /\ origin'[n].payload # Nil
    BY <1>1
  <2>4. Parts(requests'[n]) = Parts(requests'[origin'[n].of])
    BY <1>1, <1>3 DEF Built
  <2>5. n \in Built' /\ ~origin'[n].dated => requests'[n].createdAt = origin'[n].at
    BY <1>1, <1>3 DEF Built
  <2> QED BY <2>1, <2>2, <2>3, <2>4, <2>5 DEF Good, Parts
<1> QED BY <1>1, <1>4, <1>5

LEMMA InvStep ==
  ASSUME Inv, [Next]_vars
  PROVE  Inv'
<1> USE DEF Inv
<1>1. TypeOK'
  BY TypesStep
<1>2. ASSUME UNCHANGED <<lists, requests, origin>>, ~dated' => builder'.createdAt = Nil
      PROVE  Inv'
  BY <1>1, <1>2, GoodStays
<1>3. ASSUME NEW creator \in Creators, WithCreatorAccountId(creator) PROVE Inv'
  BY <1>2, <1>3 DEF WithCreatorAccountId, Fill, TypeOK
<1>4. ASSUME NEW date \in Dates, WithCreatedDate(date) PROVE Inv'
  BY <1>2, <1>4 DEF WithCreatedDate, Fill
<1>5. ASSUME NEW counter \in Counters, WithQueryCounter(counter) PROVE Inv'
  BY <1>2, <1>5 DEF WithQueryCounter, Fill, TypeOK
<1>6. ASSUME NEW query \in Queries, WithQuery(query) PROVE Inv'
  BY <1>2, <1>6 DEF WithQuery, Fill, TypeOK
<1>7. CASE Build
  <2>1. PICK r : r = Request
    OBVIOUS
  <2>2. /\ Make(r, Len(requests) + 1) /\ Len(requests) + 1 \in Nat
        /\ UNCHANGED <<builder, lists, now, dated>>
        /\ r.query \in Queries \cup {Nil} /\ r.peerSignature = Nil
    BY <1>7, <2>1, BuildMakes
  <2>3. ~dated => r.createdAt = now
    BY <2>1 DEF Request, QueryRequest, DateOfBuild
  <2>4. \A i \in DOMAIN requests' : Good(i)'
    BY <2>2, <2>3, GoodAfterMake
  <2> QED BY <1>1, <2>2, <2>4
<1>8. ASSUME NEW i \in DOMAIN requests, NEW signatory \in Signatory \cup {Broken},
             Sign(i, signatory)
      PROVE  Inv'
  <2>1. PICK r : r = Signed(requests[i], signatory)
    OBVIOUS
  <2>2. PICK of \in Nat : of = origin[i].of
    BY <1>8, SignMakes
  <2>3. /\ Make(r, of) /\ of \in Built
        /\ UNCHANGED <<builder, lists, now, dated>>
        /\ Payload(r) = Payload(requests[i]) /\ Payload(r) # Nil
        /\ requests[i] \in RequestType
        /\ r = [requests[i] EXCEPT !.peerSignature =
                  [by |-> signatory, over |-> Payload(requests[i])]]
    BY <1>8, <2>1, <2>2, SignMakes
  <2>4. /\ r.query \in Queries \cup {Nil}
        /\ r.peerSignature.over = Payload(r)
        /\ Parts(r) = Parts(requests[i])
    BY <2>3 DEF RequestType, Parts
  <2>5. Parts(r) = Parts(requests[of])
    BY <2>2, <2>4 DEF Good
  <2>6. \A j \in DOMAIN requests' : Good(j)'
    BY <2>3, <2>4, <2>5, GoodAfterMake
  <2> QED BY <1>1, <2>3, <2>6
<1>9. ASSUME NEW list \in Lists, NEW hash \in Hash, AddHash(list, hash) PROVE Inv'
  <2>1. UNCHANGED <<builder, dated, requests>>
    BY <1>9 DEF AddHash
  <2>2. \A i \in DOMAIN requests : Good(i)'
    BY <1>9, GoodAfterAddHash
  <2> QED BY <1>1, <2>1, <2>2
<1>10. CASE Tick
  BY <1>2, <1>10 DEF Tick
<1>11. CASE UNCHANGED vars
  BY <1>2, <1>11 DEF vars
<1> QED
  BY <1>3, <1>4, <1>5, <1>6, <1>7, <1>8, <1>9, <1>10, <1>11 DEF Next

LEMMA InvInit ==
  Init => Inv
<1> SUFFICES ASSUME Init PROVE Inv
  OBVIOUS
<1>1. builder.createdAt = Nil /\ DOMAIN requests = {}
  BY DEF Init
<1> QED BY <1>1, TypesInit DEF Inv

LEMMA Invariance == Spec => []Inv
BY InvInit, InvStep, PTL DEF Spec

\* The signature a request is sent with is over the payload it is sent with, or
\* the application added to an array that it gave to getTransactions.
THEOREM SignaturesStayGood == Spec => []StaleOnlyByCaller
<1>1. Inv => StaleOnlyByCaller
  <2> SUFFICES ASSUME Inv, NEW i \in DOMAIN requests, requests[i].peerSignature # Nil,
                      ~AddedTo(requests[i], origin[i].lists)
               PROVE  requests[i].peerSignature.over = SignedPart(Form(requests[i]))
    BY DEF StaleOnlyByCaller
  <2>1. /\ requests[i].peerSignature.over = Payload(requests[i])
        /\ Payload(requests[i]) # Nil
    BY DEF Inv, Good
  <2> QED BY <2>1 DEF Form, SignedPart
<1> QED BY <1>1, Invariance, PTL

\* A request and all that is signed of it have the payload that was built, or the
\* application added to an array that it gave to getTransactions.
THEOREM PayloadsAreAsBuilt == Spec => []AsksAsBuilt
<1>1. Inv => AsksAsBuilt
  <2> SUFFICES ASSUME Inv, NEW i \in DOMAIN requests
               PROVE  \/ Payload(requests[i]) = origin[origin[i].of].payload
                      \/ AddedTo(requests[i], origin[origin[i].of].lists)
    BY DEF AsksAsBuilt
  <2>1. PICK b : b = origin[i].of
    OBVIOUS
  <2>2. i \in DOMAIN origin /\ DOMAIN origin = DOMAIN requests
    BY DEF Inv, TypeOK
  <2>3. b \in DOMAIN requests /\ Good(b) /\ Good(i)
    BY <2>1, <2>2 DEF Inv, TypeOK, Built
  <2>4. Parts(requests[i]) = Parts(requests[b])
    BY <2>1, <2>3 DEF Good
  <2>5. Payload(requests[i]) = Payload(requests[b])
    BY <2>4 DEF Payload, Meta, Parts
  <2>6. AddedTo(requests[b], origin[b].lists) => AddedTo(requests[i], origin[b].lists)
    BY <2>4 DEF AddedTo, Parts
  <2> QED BY <2>1, <2>3, <2>5, <2>6 DEF Good
<1> QED BY <1>1, Invariance, PTL

\* A builder that was never given a date dates each request by its own build:.
THEOREM DatesAreOfBuild == Spec => []DatedAtBuild
<1>1. Inv => DatedAtBuild
  <2> SUFFICES ASSUME Inv, NEW i \in Built, ~origin[i].dated
               PROVE  Meta(requests[i]).createdTime = Milliseconds(origin[i].at)
    BY DEF DatedAtBuild
  <2>1. i \in DOMAIN requests
    BY DEF Inv, TypeOK, Built
  <2>2. requests[i].createdAt = origin[i].at
    BY <2>1 DEF Inv, Good
  <2> QED BY <2>2 DEF Meta
<1> QED BY <1>1, Invariance, PTL
=============================================================================
