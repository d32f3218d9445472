-------------------------- MODULE NetworkServiceProofs --------------------------
(***************************************************************************)
(* Type correctness and safety of NetworkService, for any number of calls  *)
(* and any messages of a peer.                                             *)
(***************************************************************************)
EXTENDS NetworkService, TLAPS

\* A list all parts of which are of a kind is a list of that kind.
LEMMA ListOf ==
  ASSUME NEW U, NEW l \in Seq(U), NEW S, \A i \in DOMAIN l : l[i] \in S
  PROVE  l \in Seq(S)
OBVIOUS

\* The same of a list made part by part.
LEMMA MappedListOf ==
  ASSUME NEW U, NEW l \in Seq(U), NEW S, NEW f, f = [i \in DOMAIN l |-> f[i]],
         \A i \in DOMAIN l : f[i] \in S
  PROVE  f \in Seq(S)
<1>1. Len(l) \in Nat /\ DOMAIN l = 1 .. Len(l)
  OBVIOUS
<1>2. f \in [1 .. Len(l) -> S]
  BY <1>1
<1> QED
  BY <1>1, <1>2

-----------------------------------------------------------------------------
(* Readers                                                                   *)

\* What every reader that comes back owes its caller: an object with no unchecked
\* part, or nil and an error.
Sound(read) ==
  /\ ~ read.raises
  /\ read.value \in QueryObject \cup {Nil}
  /\ read.error \in BOOLEAN
  /\ read.value = Nil => read.error

LEMMA ReadIfAllSound ==
  ASSUME NEW parts, NEW value, Nil \notin parts => value \in QueryObject
  PROVE  Sound(ReadIfAll(parts, value))
  BY ObjectAssumption DEF Sound, ReadIfAll, Read, Refused

LEMMA ReadSound ==
  ASSUME NEW value \in QueryObject
  PROVE  Sound(Read(value))
  BY ObjectAssumption DEF Sound, Read

LEMMA RefusedSound == Sound(Refused)
  BY DEF Sound, Refused

\* Transactions are all read, or one of them is refused, or has a bad batch hash.
LEMMA ReadTransactionsSound ==
  ASSUME NEW transactions, NEW parts, NEW value,
         /\ \A i \in DOMAIN transactions : transactions[i] \in Acceptable
         /\ Nil \notin parts
         => value \in QueryObject
  PROVE  LET read == ReadTransactions(transactions, parts, value) IN
         Sound(read) \/ (read = Raised /\ HasBadBatchHash(transactions))
PROOF
  <1>1. CASE RaisesAmong(transactions)
    BY <1>1 DEF ReadTransactions, RaisesAmong, HasBadBatchHash
  <1>2. CASE ~ RaisesAmong(transactions)
    <2>1. ASSUME Nil \notin Parts(TransactionOf, transactions) \cup parts
          PROVE  value \in QueryObject
      <3>1. \A i \in DOMAIN transactions : transactions[i] \in Acceptable
        BY <2>1 DEF Parts, TransactionOf
      <3> QED
        BY <2>1, <3>1
    <2> QED
      BY <1>2, <2>1, ReadIfAllSound DEF ReadTransactions
  <1> QED
    BY <1>1, <1>2

\* The parts of messages.
LEMMA PartsRead ==
  ASSUME NEW text
  PROVE  /\ Account(text) \in AccountId \cup {Nil}
         /\ Asset(text) \in AssetId \cup {Nil}
         /\ NameOf(text) # Nil => text \in Name
         /\ KeyOf(text) \in Key \cup {Nil}
         /\ RolePermissionOf(text) # Nil => text \in RolePermission
         /\ TransactionOf(text) # Nil => text \in Acceptable
         /\ BytesOf(text) # Nil => text \in Bytes
  BY DEF Account, Asset, ParsedId, AccountId, AssetId, NameOf, KeyOf,
         RolePermissionOf, TransactionOf, BytesOf, IsHex, Bytes

LEMMA AccountAssetRead ==
  ASSUME NEW a
  PROVE  AccountAssetOf(a) \in AccountAsset \cup {Nil}
PROOF
  <1>1. BalanceOf(a.balance) \in [units : Units, spelled : {"plain"}] \cup {Nil}
    BY DEF BalanceOf, AmountText, Plain
  <1>2. Account(a.accountId) \in AccountId \cup {Nil} /\ Asset(a.assetId) \in AssetId \cup {Nil}
    BY PartsRead
  <1> QED
    BY <1>1, <1>2 DEF AccountAssetOf, IfAll, AccountAsset

LEMMA PeerRead ==
  ASSUME NEW p
  PROVE  PeerOf(p) \in Peer \cup {Nil}
  BY PartsRead DEF PeerOf, IfAll, Peer

LEMMA PeerSignatureRead ==
  ASSUME NEW s
  PROVE  PeerSignatureOf(s) \in PeerSignature \cup {Nil}
  BY PartsRead DEF PeerSignatureOf, IfAll, PeerSignature

-----------------------------------------------------------------------------
(* The answers to queries, one case for each kind                            *)

\* Which message a type is the type of.
LEMMA AnyAnswerOf ==
  ASSUME NEW m \in PbQueryResponse, NEW r, r = m.response
  PROVE  /\ r.type = "asset"            => r \in PbAssetResponse
         /\ r.type = "account"          => r \in PbAccountResponse
         /\ r.type = "error"            => r \in PbErrorResponse
         /\ r.type = "roles"            => r \in PbRolesResponse
         /\ r.type = "signatories"      => r \in PbSignatoriesResponse
         /\ r.type = "transactions"     => r \in PbTransactionsResponse
         /\ r.type = "accountAssets"    => r \in PbAccountAssetResponse
         /\ r.type = "accountDetail"    => r \in PbAccountDetailResponse
         /\ r.type = "rolePermissions"  => r \in PbRolePermissionsResponse
         /\ r.type = "transactionsPage" => r \in PbTransactionsPageResponse
         /\ r.type = "pendingPage"      => r \in PbPendingTransactionsPageResponse
         /\ r.type = "peers"            => r \in PbPeersResponse
  BY DEF PbQueryResponse, PbAssetResponse, PbAccountResponse, PbErrorResponse, PbRolesResponse,
         PbSignatoriesResponse, PbTransactionsResponse, PbAccountAssetResponse,
         PbAccountDetailResponse, PbRolePermissionsResponse, PbTransactionsPageResponse,
         PbPendingTransactionsPageResponse, PbPeersResponse, PbBlockResponse, Unset

LEMMA QueryReads ==
  ASSUME NEW m \in Answers
  PROVE  LET read == QueryResponseOf(m) IN
         /\ read.value \in QueryObject \cup {Nil}
         /\ read.error \in BOOLEAN
         /\ read.raises => LosesAnswer(m)
         /\ read.value = Nil /\ ~ read.raises => read.error \/ HidesError(m)
PROOF
  <1> USE PartsRead
  <1>0. PICK r, hash : r = m.response /\ hash = m.queryHash
    OBVIOUS
  <1>a. m \in PbQueryResponse
    BY MessageAssumption
  <1>b. IsHex(hash) => hash \in Bytes
    BY DEF IsHex, Bytes
  <1> SUFFICES \/ Sound(QueryResponseOf(m))
               \/ QueryResponseOf(m) = Silent /\ HidesError(m)
               \/ QueryResponseOf(m) = Raised /\ LosesAnswer(m)
    <2>1. /\ Silent.value = Nil /\ Silent.error = FALSE /\ Silent.raises = FALSE
          /\ Raised.value = Nil /\ Raised.error = FALSE /\ Raised.raises = TRUE
      BY DEF Silent, Raised
    <2> QED
      BY <2>1 DEF Sound
  <1>1. CASE ~ IsHex(hash)
    BY <1>0, <1>1, RefusedSound DEF QueryResponseOf
  <1>2. CASE IsHex(hash) /\ r.type = "asset"
    <2>1. QueryResponseOf(m) = AssetResponse(r, hash)
      BY <1>0, <1>2 DEF QueryResponseOf
    <2>2. r.asset.precision \in UInt32
      BY <1>0, <1>a, <1>2, AnyAnswerOf DEF PbAssetResponse, PbAsset
    <2> DEFINE value == [type |-> r.type, queryHash |-> hash, assetId |-> Asset(r.asset.assetId),
                         precision |-> r.asset.precision]
    <2>3. Nil \notin {Asset(r.asset.assetId)} => value \in QueryObject
      BY <1>b, <1>2, <2>2 DEF AssetObject, QueryObject
    <2> QED
      BY <2>1, <2>3, ReadIfAllSound DEF AssetResponse
  <1>3. CASE IsHex(hash) /\ r.type = "account"
    <2>1. QueryResponseOf(m) = AccountResponse(r, hash)
      BY <1>0, <1>3 DEF QueryResponseOf
    <2>2. /\ r.account.quorum \in UInt32 /\ r.account.jsonData \in Text
          /\ r.accountRoles \in Seq(NameText)
      BY <1>0, <1>a, <1>3, AnyAnswerOf DEF PbAccountResponse, PbAccount
    <2> DEFINE parts == {Account(r.account.accountId)} \cup Parts(NameOf, r.accountRoles)
               value == [type |-> r.type, queryHash |-> hash,
                         accountId |-> Account(r.account.accountId), quorum |-> r.account.quorum,
                         details |-> r.account.jsonData, roles |-> r.accountRoles]
    <2>3. ASSUME Nil \notin parts
          PROVE  value \in QueryObject
      <3>1. \A i \in DOMAIN r.accountRoles : r.accountRoles[i] \in Name
        BY <2>3 DEF Parts
      <3>2. r.accountRoles \in Seq(Name)
        BY <3>1, <2>2, ListOf
      <3>3. value \in AccountObject
        BY <1>b, <1>3, <2>2, <2>3, <3>2 DEF AccountObject
      <3> QED
        BY <3>3 DEF QueryObject
    <2> QED
      BY <2>1, <2>3, ReadIfAllSound DEF AccountResponse
  <1>4. CASE IsHex(hash) /\ r.type = "error"
    <2>1. QueryResponseOf(m) = ErrorResponse(r, hash)
      BY <1>0, <1>4 DEF QueryResponseOf
    <2>2. r.message \in Text /\ r.errorCode \in UInt32
      BY <1>0, <1>a, <1>4, AnyAnswerOf DEF PbErrorResponse
    <2>3. r.reason \in ErrorReason =>
            [type |-> r.type, queryHash |-> hash, reason |-> r.reason, message |-> r.message,
             code |-> r.errorCode] \in QueryObject
      BY <1>b, <1>4, <2>2 DEF ErrorObject, QueryObject
    <2> QED
      BY <2>1, <2>3, ReadSound, RefusedSound DEF ErrorResponse
  <1>5. CASE IsHex(hash) /\ r.type = "roles"
    <2>1. QueryResponseOf(m) = RolesResponse(r, hash)
      BY <1>0, <1>5 DEF QueryResponseOf
    <2>2. r.roles \in Seq(NameText)
      BY <1>0, <1>a, <1>5, AnyAnswerOf DEF PbRolesResponse
    <2>3. ASSUME Nil \notin Parts(NameOf, r.roles)
          PROVE  [type |-> r.type, queryHash |-> hash, roles |-> r.roles] \in QueryObject
      <3>1. \A i \in DOMAIN r.roles : r.roles[i] \in Name
        BY <2>3 DEF Parts
      <3>2. r.roles \in Seq(Name)
        BY <3>1, <2>2, ListOf
      <3>3. [type |-> r.type, queryHash |-> hash, roles |-> r.roles] \in RolesObject
        BY <1>b, <1>5, <3>2 DEF RolesObject
      <3> QED
        BY <3>3 DEF QueryObject
    <2> QED
      BY <2>1, <2>3, ReadIfAllSound DEF RolesResponse
  <1>6. CASE IsHex(hash) /\ r.type = "signatories"
    <2>1. QueryResponseOf(m) = SignatoriesResponse(r, hash)
      BY <1>0, <1>6 DEF QueryResponseOf
    <2>2. r.keys \in Seq(HexText)
      BY <1>0, <1>a, <1>6, AnyAnswerOf DEF PbSignatoriesResponse
    <2> DEFINE each == [i \in DOMAIN r.keys |-> KeyOf(r.keys[i])]
    <2>3. ASSUME Nil \notin Parts(KeyOf, r.keys)
          PROVE  [type |-> r.type, queryHash |-> hash, publicKeys |-> Each(KeyOf, r.keys)] \in QueryObject
      <3>1. \A i \in DOMAIN r.keys : each[i] \in Key
        BY <2>3 DEF Parts
      <3>2. each \in Seq(Key)
        BY <3>1, <2>2, MappedListOf
      <3>3. Each(KeyOf, r.keys) = each
        BY DEF Each
      <3>4. [type |-> r.type, queryHash |-> hash, publicKeys |-> each] \in SignatoriesObject
        BY <1>b, <1>6, <3>2 DEF SignatoriesObject
      <3> QED
        BY <3>3, <3>4 DEF QueryObject
    <2> QED
      BY <2>1, <2>3, ReadIfAllSound DEF SignatoriesResponse
  <1>7. CASE IsHex(hash) /\ r.type = "transactions"
    <2>1. QueryResponseOf(m) = TransactionsResponse(r, hash)
      BY <1>0, <1>7 DEF QueryResponseOf
    <2>2. r.transactions \in Seq(PbTransaction)
      BY <1>0, <1>a, <1>7, AnyAnswerOf DEF PbTransactionsResponse
    <2>3. ASSUME \A i \in DOMAIN r.transactions : r.transactions[i] \in Acceptable
          PROVE  [type |-> r.type, queryHash |-> hash, transactions |-> r.transactions] \in QueryObject
      <3>2. r.transactions \in Seq(Acceptable)
        BY <2>3, <2>2, ListOf
      <3>3. [type |-> r.type, queryHash |-> hash, transactions |-> r.transactions] \in TransactionsObject
        BY <1>b, <1>7, <3>2 DEF TransactionsObject
      <3> QED
        BY <3>3 DEF QueryObject
    <2> QED
      BY <1>0, <1>7, <2>1, <2>3, ReadTransactionsSound DEF TransactionsResponse, LosesAnswer
  <1>8. CASE IsHex(hash) /\ r.type = "accountAssets"
    <2>1. QueryResponseOf(m) = AccountAssetsResponse(r, hash)
      BY <1>0, <1>8 DEF QueryResponseOf
    <2>2. r.accountAssets \in Seq(PbAccountAsset) /\ r.totalNumber \in UInt32
      BY <1>0, <1>a, <1>8, AnyAnswerOf DEF PbAccountAssetResponse
    <2> DEFINE refused    == Nil \in Parts(AccountAssetOf, r.accountAssets)
               unreadable == r.nextAssetId # Empty /\ Asset(r.nextAssetId) = Nil
    <2>3. CASE refused
      BY <2>1, <2>3, RefusedSound DEF AccountAssetsResponse
    <2>4. CASE ~ refused /\ unreadable
      BY <1>0, <1>8, <2>1, <2>4 DEF AccountAssetsResponse, HidesError
    <2>5. CASE ~ refused /\ ~ unreadable
      <3> DEFINE assets == [i \in DOMAIN r.accountAssets |-> AccountAssetOf(r.accountAssets[i])]
                 next   == IF r.nextAssetId = Empty THEN Nil ELSE Asset(r.nextAssetId)
                 value  == [type |-> r.type, queryHash |-> hash, accountAssets |-> assets,
                            totalCount |-> r.totalNumber, nextAssetId |-> next]
      <3>1. \A i \in DOMAIN r.accountAssets : assets[i] \in AccountAsset
        BY <2>5, AccountAssetRead DEF Parts
      <3>2. assets \in Seq(AccountAsset)
        BY <3>1, <2>2, MappedListOf
      <3>3. Each(AccountAssetOf, r.accountAssets) = assets
        BY DEF Each
      <3>4. next \in AssetId \cup {Nil}
        OBVIOUS
      <3>5. value \in AccountAssetsObject
        BY <1>b, <1>8, <2>2, <3>2, <3>4 DEF AccountAssetsObject
      <3>6. QueryResponseOf(m) = Read(value)
        BY <2>1, <2>5, <3>3 DEF AccountAssetsResponse
      <3> QED
        BY <3>5, <3>6, ReadSound DEF QueryObject
    <2> QED
      BY <2>3, <2>4, <2>5
  <1>9. CASE IsHex(hash) /\ r.type = "accountDetail"
    <2>1. QueryResponseOf(m) = AccountDetailResponse(r, hash)
      BY <1>0, <1>9 DEF QueryResponseOf
    <2>2. /\ r.detail \in Text /\ r.totalNumber \in UInt64
          /\ r.nextRecordId \in RecordId \cup {Nil}
      BY <1>0, <1>a, <1>9, AnyAnswerOf
         DEF PbAccountDetailResponse, PbAccountDetailRecordId, RecordId
    <2>3. [type |-> r.type, queryHash |-> hash, detail |-> r.detail,
           totalCount |-> r.totalNumber, nextRecordId |-> r.nextRecordId] \in QueryObject
      BY <1>b, <1>9, <2>2 DEF AccountDetailObject, QueryObject
    <2> QED
      BY <2>1, <2>3, ReadSound DEF AccountDetailResponse
  <1>10. CASE IsHex(hash) /\ r.type = "rolePermissions"
    <2>1. QueryResponseOf(m) = RolePermissionsResponse(r, hash)
      BY <1>0, <1>10 DEF QueryResponseOf
    <2>2. r.permissions \in Seq(RolePermissionField)
      BY <1>0, <1>a, <1>10, AnyAnswerOf DEF PbRolePermissionsResponse
    <2>3. ASSUME Nil \notin Parts(RolePermissionOf, r.permissions)
          PROVE  [type |-> r.type, queryHash |-> hash, permissions |-> r.permissions] \in QueryObject
      <3>1. \A i \in DOMAIN r.permissions : r.permissions[i] \in RolePermission
        BY <2>3 DEF Parts
      <3>2. r.permissions \in Seq(RolePermission)
        BY <3>1, <2>2, ListOf
      <3>3. [type |-> r.type, queryHash |-> hash, permissions |-> r.permissions] \in RolePermissionsObject
        BY <1>b, <1>10, <3>2 DEF RolePermissionsObject
      <3> QED
        BY <3>3 DEF QueryObject
    <2> QED
      BY <2>1, <2>3, ReadIfAllSound DEF RolePermissionsResponse
  <1>11. CASE IsHex(hash) /\ r.type = "transactionsPage"
    <2>1. QueryResponseOf(m) = TransactionsPageResponse(r, hash)
      BY <1>0, <1>11 DEF QueryResponseOf
    <2>2. r.transactions \in Seq(PbTransaction) /\ r.allTransactionsSize \in UInt32
      BY <1>0, <1>a, <1>11, AnyAnswerOf DEF PbTransactionsPageResponse
    <2> DEFINE parts == {BytesOf(r.nextTxHash)}
               next  == IF r.nextTxHash = Empty THEN Nil ELSE r.nextTxHash
               value == [type |-> r.type, queryHash |-> hash, transactions |-> r.transactions,
                         totalCount |-> r.allTransactionsSize, nextTransactionHash |-> next]
    <2>3. ASSUME (\A i \in DOMAIN r.transactions : r.transactions[i] \in Acceptable) /\ Nil \notin parts
          PROVE  value \in QueryObject
      <3>2. r.transactions \in Seq(Acceptable)
        BY <2>3, <2>2, ListOf
      <3>3. next \in Bytes \cup {Nil}
        BY <2>3
      <3>4. value \in TransactionsPageObject
        BY <1>b, <1>11, <2>2, <3>2, <3>3 DEF TransactionsPageObject
      <3> QED
        BY <3>4 DEF QueryObject
    <2> QED
      BY <1>0, <1>11, <2>1, <2>3, ReadTransactionsSound DEF TransactionsPageResponse, LosesAnswer
  <1>12. CASE IsHex(hash) /\ r.type = "pendingPage"
    <2>1. QueryResponseOf(m) = PendingTransactionsPageResponse(r, hash)
      BY <1>0, <1>12 DEF QueryResponseOf
    <2>2. /\ r.transactions \in Seq(PbTransaction) /\ r.allTransactionsSize \in UInt32
          /\ r.nextBatchInfo.firstTxHash \in HexText /\ r.nextBatchInfo.batchSize \in UInt32
      BY <1>0, <1>a, <1>12, AnyAnswerOf DEF PbPendingTransactionsPageResponse, PbBatchInfo
    <2> DEFINE next  == IF r.nextBatchInfo.batchSize > 0
                        THEN [nextHash |-> r.nextBatchInfo.firstTxHash,
                              batchSize |-> r.nextBatchInfo.batchSize]
                        ELSE Nil
               value == [type |-> r.type, queryHash |-> hash, transactions |-> r.transactions,
                         totalCount |-> r.allTransactionsSize, nextBatch |-> next]
    <2>3. ASSUME \A i \in DOMAIN r.transactions : r.transactions[i] \in Acceptable
          PROVE  value \in QueryObject
      <3>2. r.transactions \in Seq(Acceptable)
        BY <2>3, <2>2, ListOf
      <3>3. next \in BatchInfo \cup {Nil}
        BY <2>2 DEF BatchInfo
      <3>4. value \in PendingPageObject
        BY <1>b, <1>12, <2>2, <3>2, <3>3 DEF PendingPageObject
      <3> QED
        BY <3>4 DEF QueryObject
    <2> QED
      BY <1>0, <1>12, <2>1, <2>3, ReadTransactionsSound DEF PendingTransactionsPageResponse, LosesAnswer
  <1>13. CASE IsHex(hash) /\ r.type = "peers"
    <2>1. QueryResponseOf(m) = PeersResponse(r, hash)
      BY <1>0, <1>13 DEF QueryResponseOf
    <2>2. r.peers \in Seq(PbPeer)
      BY <1>0, <1>a, <1>13, AnyAnswerOf DEF PbPeersResponse
    <2> DEFINE each == [i \in DOMAIN r.peers |-> PeerOf(r.peers[i])]
    <2>3. ASSUME Nil \notin Parts(PeerOf, r.peers)
          PROVE  [type |-> r.type, queryHash |-> hash, peers |-> Each(PeerOf, r.peers)] \in QueryObject
      <3>1. \A i \in DOMAIN r.peers : each[i] \in Peer
        BY <2>3, PeerRead DEF Parts
      <3>2. each \in Seq(Peer)
        BY <3>1, <2>2, MappedListOf
      <3>3. Each(PeerOf, r.peers) = each
        BY DEF Each
      <3>4. [type |-> r.type, queryHash |-> hash, peers |-> each] \in PeersObject
        BY <1>b, <1>13, <3>2 DEF PeersObject
      <3> QED
        BY <3>3, <3>4 DEF QueryObject
    <2> QED
      BY <2>1, <2>3, ReadIfAllSound DEF PeersResponse
  <1>14. CASE IsHex(hash)
              /\ r.type \notin {"asset", "account", "error", "roles", "signatories", "transactions",
                                "accountAssets", "accountDetail", "rolePermissions",
                                "transactionsPage", "pendingPage", "peers"}
    <2>1. QueryResponseOf(m) = Refused
      BY <1>0, <1>14 DEF QueryResponseOf
    <2> QED
      BY <2>1, RefusedSound
  <1> QED
    BY <1>1, <1>2, <1>3, <1>4, <1>5, <1>6, <1>7, <1>8, <1>9, <1>10, <1>11, <1>12, <1>13, <1>14

\* A commit is refused with an error, or read, or raises; a block that cannot be
\* read, or that leaves an error behind, is both.
LEMMA CommitReads ==
  ASSUME NEW m \in Commits
  PROVE  LET read == BlockQueryResponseOf(m) IN
         /\ read.value \in CommitObject \cup {Nil}
         /\ read.error \in BOOLEAN
         /\ read.raises => LosesCommit(m)
         /\ read.value = Nil /\ ~ read.raises => read.error
         /\ read.value # Nil /\ read.error => KeepsError(read.value)
PROOF
  <1>0. m \in PbBlockQueryResponse
    BY MessageAssumption
  <1>r. CASE m.type = "block" /\ BlockRaises(m.block)
    <2>1. BlockQueryResponseOf(m) = Raised
      BY <1>r DEF BlockQueryResponseOf
    <2>2. LosesCommit(m)
      BY <1>r DEF BlockRaises, RaisesAmong, LosesCommit, HasBadBatchHash
    <2> QED
      BY <2>1, <2>2 DEF Raised
  <1>1. CASE m.type = "block" /\ ~ BlockRaises(m.block)
    <2>0. PICK signatures, b, block :
            /\ signatures = m.block.blockV1.signatures /\ b = m.block.blockV1.payload
            /\ block = BlockOf(m.block)
      OBVIOUS
    <2>a. /\ signatures \in Seq(PbSignature) /\ b.transactions \in Seq(PbTransaction)
          /\ b.rejectedTransactionsHashes \in Seq(HexText)
          /\ b.height \in UInt64 /\ b.createdTime \in UInt64
      <3>1. m \in PbBlockResponse
        BY <1>0, <1>1 DEF PbBlockQueryResponse, PbBlockErrorResponse, Unset
      <3> QED
        BY <2>0, <3>1 DEF PbBlockResponse, PbBlock, PbBlockV1, PbBlockPayload
    <2>1. block \in Block \cup {Nil}
      <3> DEFINE refused ==
                   \/ Nil \in Parts(PeerSignatureOf, signatures)
                   \/ Nil \in Parts(TransactionOf, b.transactions)
                   \/ Nil \in Parts(BytesOf, b.rejectedTransactionsHashes)
                   \/ ~ IsHex(b.prevBlockHash)
      <3>1. CASE refused
        BY <2>0, <3>1 DEF BlockOf
      <3>2. CASE ~ refused
        <4> DEFINE each == [i \in DOMAIN signatures |-> PeerSignatureOf(signatures[i])]
        <4>1. \A i \in DOMAIN signatures : each[i] \in PeerSignature
          BY <3>2, PeerSignatureRead DEF Parts
        <4>2. each \in Seq(PeerSignature)
          BY <4>1, <2>a, MappedListOf
        <4>3. Each(PeerSignatureOf, signatures) = each
          BY DEF Each
        <4>4. \A i \in DOMAIN b.transactions : b.transactions[i] \in Acceptable
          BY <3>2, PartsRead DEF Parts
        <4>5. b.transactions \in Seq(Acceptable)
          BY <4>4, <2>a, ListOf
        <4>6. \A i \in DOMAIN b.rejectedTransactionsHashes :
                b.rejectedTransactionsHashes[i] \in Bytes
          BY <3>2, PartsRead DEF Parts
        <4>7. b.rejectedTransactionsHashes \in Seq(Bytes)
          BY <4>6, <2>a, ListOf
        <4>8. b.prevBlockHash \in Bytes
          BY <3>2 DEF IsHex, Bytes
        <4>9. block =
                [height |-> b.height, previousBlockHash |-> b.prevBlockHash,
                 createdAt |-> b.createdTime, transactions |-> b.transactions,
                 rejectedTransactionHashes |-> b.rejectedTransactionsHashes,
                 peerSignatures |-> each]
          BY <2>0, <3>2, <4>3 DEF BlockOf
        <4> QED
          BY <2>a, <4>2, <4>5, <4>7, <4>8, <4>9 DEF Block
      <3> QED
        BY <3>1, <3>2
    <2>2. BlockQueryResponseOf(m) =
            [value |-> [block |-> block, error |-> Nil], error |-> block = Nil \/ LeavesError(block),
             raises |-> FALSE]
      BY <1>1, <2>0 DEF BlockQueryResponseOf
    <2>3. [block |-> block, error |-> Nil] \in CommitObject
      BY <2>1 DEF CommitObject
    <2> DEFINE read == BlockQueryResponseOf(m)
    <2>4. /\ read.value = [block |-> block, error |-> Nil]
          /\ read.error = (block = Nil \/ LeavesError(block))
          /\ read.raises = FALSE
      BY <2>2
    <2>5. read.error => KeepsError(read.value)
      <3>1. read.value.error = Nil /\ read.value.block = block
        BY <2>4
      <3> QED
        BY <2>4, <3>1 DEF KeepsError
    <2>6. read.value \in CommitObject /\ read.value # Nil
      BY <2>3, <2>4, ObjectAssumption
    <2>7. read.error \in BOOLEAN
      BY <2>4 DEF LeavesError
    <2> QED
      BY <2>4, <2>5, <2>6, <2>7
  <1>2. CASE m.type = "blockError"
    <2>0. m.message \in Text
      BY <1>0, <1>2 DEF PbBlockQueryResponse, PbBlockResponse, PbBlockErrorResponse, Unset
    <2>1. BlockQueryResponseOf(m) = Read([block |-> Nil, error |-> [message |-> m.message]])
      BY <1>2 DEF BlockQueryResponseOf
    <2>2. [block |-> Nil, error |-> [message |-> m.message]] \in CommitObject
      BY <2>0 DEF CommitObject
    <2>3. /\ BlockQueryResponseOf(m).value = [block |-> Nil, error |-> [message |-> m.message]]
          /\ BlockQueryResponseOf(m).error = FALSE /\ BlockQueryResponseOf(m).raises = FALSE
      BY <2>1 DEF Read
    <2> QED
      BY <2>2, <2>3, ObjectAssumption
  <1>3. CASE m.type \notin {"block", "blockError"}
    BY <1>3 DEF BlockQueryResponseOf, Refused
  <1> QED
    BY <1>r, <1>1, <1>2, <1>3

\* A status is read or refused with an error.
LEMMA StatusReads ==
  ASSUME NEW m \in Statuses
  PROVE  LET read == StatusResponseOf(m) IN
         /\ read.value \in StatusObject \cup {Nil}
         /\ read.error \in BOOLEAN
         /\ read.value = Nil <=> read.error
PROOF
  <1> DEFINE value ==
        [status |-> m.txStatus, transactionHash |-> m.txHash,
         statusDescription |-> IF m.errOrCmdName = Empty THEN Nil
                               ELSE [name |-> m.errOrCmdName, code |-> m.errorCode]]
  <1>1. m.errOrCmdName \in Text /\ m.errorCode \in UInt32
    BY MessageAssumption DEF PbToriiResponse
  <1>2. CASE IsHex(m.txHash) /\ m.txStatus \in TxStatus
    <2>1. value \in StatusObject
      BY <1>1, <1>2 DEF StatusObject, IsHex, Bytes
    <2>2. StatusResponseOf(m) = Read(value)
      BY <1>2 DEF StatusResponseOf
    <2> QED
      BY <2>1, <2>2, ObjectAssumption DEF Read
  <1>3. CASE ~ (IsHex(m.txHash) /\ m.txStatus \in TxStatus)
    BY <1>3 DEF StatusResponseOf, Refused
  <1> QED
    BY <1>2, <1>3

-----------------------------------------------------------------------------
(* The invariant.  A step is about one call, and what is said of a call does *)
(* not depend on another; of the service it only needs that it does not come *)
(* back.                                                                     *)

Good(c) ==
  /\ kind[c] = "none" => call[c] = "none" /\ fulfils[c] = 0 /\ events[c] = << >> /\ sent[c] = << >>
  /\ fulfils[c] \in {0, 1}
  /\ fulfils[c] = 0 <=> result[c] = Pending
  /\ call[c] \in {"open", "cancelled"} =>
       fulfils[c] = 0 /\ \A i \in DOMAIN events[c] : ~ events[c][i].done
  /\ \A i \in DOMAIN events[c] : events[c][i].done => i = Len(events[c])
  /\ kind[c] \in Sends =>
       /\ result[c] \in {Pending, Error("local"), Error("rpc"), Hashes(asked[c])}
       /\ result[c] = Error("local") => call[c] = "none" /\ sent[c] = << >>
       /\ call[c] # "none" => sent[c] = asked[c]
  /\ result[c] = Nil => reply[c] # Nil /\ HidesError(reply[c])
  /\ kind[c] \in Promises /\ call[c] = "closed" => result[c] # Pending \/ Abandoned(c)
  /\ unheard[c] # Nil => LosesCommit(unheard[c])
  /\ \A i \in DOMAIN events[c] :
       /\ events[c][i].response = Nil /\ events[c][i].error = Nil => events[c][i].done
       /\ events[c][i].response # Nil /\ events[c][i].error # Nil =>
            kind[c] = "commits" /\ KeepsError(events[c][i].response)

Inv == TypeOK /\ \A c \in Call : Good(c)

Row(c) == <<kind[c], asked[c], sent[c], call[c], result[c], fulfils[c], events[c], reply[c],
            unheard[c]>>

OthersStay(c) == \A d \in Call \ {c} : Row(d)' = Row(d)

\* What a step about call c does to the other calls, it does to none.
LEMMA OneCall ==
  ASSUME Inv, NEW c \in Call, OthersStay(c), UNCHANGED service, TypeOK', Good(c)'
  PROVE  Inv'
PROOF
  <1> SUFFICES ASSUME NEW d \in Call PROVE Good(d)'
    BY DEF Inv
  <1>1. CASE d = c
    BY <1>1
  <1>2. CASE d # c
    <2>1. /\ kind'[d] = kind[d] /\ asked'[d] = asked[d] /\ sent'[d] = sent[d] /\ call'[d] = call[d]
          /\ result'[d] = result[d] /\ fulfils'[d] = fulfils[d] /\ events'[d] = events[d]
          /\ reply'[d] = reply[d] /\ unheard'[d] = unheard[d] /\ service' = service
      BY <1>2 DEF OthersStay, Row
    <2>2. Good(d)
      BY DEF Inv
    <2> QED
      BY <2>1, <2>2 DEF Good, Abandoned
  <1> QED
    BY <1>1, <1>2

\* The constants that stand for no answer are none of the answers.
LEMMA AnswersDiffer ==
  /\ \A e \in Errors : Error(e) \in Settled \ {Pending, Nil}
  /\ \A transactions \in Seq(Transactions) : Hashes(transactions) \in Settled \ {Pending, Nil}
  /\ \A value \in QueryObject \cup StatusObject : Response(value) \in Settled \ {Pending, Nil}
  /\ \A transactions \in Seq(Transactions) : \A e \in Errors : Hashes(transactions) # Error(e)
  /\ Error("local") # Error("rpc")
  /\ Pending # Nil /\ Nil \notin Errors
  BY ResultAssumption DEF Settled, Error, Hashes, Response, Errors

LEMMA InitGood == Init => Inv
  BY ResultAssumption DEF Init, Inv, TypeOK, Good, CallStates

\* What the block of a stream hears is added to what it heard.
LEMMA ToldMore ==
  ASSUME events \in [Call -> Seq(Events)], NEW c \in Call, NEW event \in Events, Tell(c, event)
  PROVE  /\ events' \in [Call -> Seq(Events)]
         /\ events'[c] = Append(events[c], event)
         /\ \A d \in Call \ {c} : events'[d] = events[d]
  BY DEF Tell

\* The last event and those before it.
LEMMA Appended ==
  ASSUME NEW s \in Seq(Events), NEW event \in Events
  PROVE  /\ Len(Append(s, event)) = Len(s) + 1
         /\ \A i \in DOMAIN Append(s, event) :
              \/ i \in DOMAIN s /\ Append(s, event)[i] = s[i]
              \/ i = Len(s) + 1 /\ Append(s, event)[i] = event
  OBVIOUS

\* Transactions that are sent.
LEMMA SubmitGood ==
  ASSUME Inv, NEW c \in Call, NEW k \in Sends, NEW transactions \in Seq(Transactions),
         Submit(c, k, transactions)
  PROVE  Inv'
PROOF
  <1> USE DEF Submit, Begin, Open, NotFulfilled, NotTold
  <1>1. TypeOK'
    BY DEF Inv, TypeOK, CallStates, Promises
  <1>2. OthersStay(c)
    BY DEF Inv, TypeOK, OthersStay, Row
  <1>3. Good(c)'
    <2>1. /\ kind'[c] = k /\ asked'[c] = transactions /\ sent'[c] = transactions
          /\ call'[c] = "open" /\ result'[c] = result[c] /\ fulfils'[c] = fulfils[c]
          /\ events'[c] = events[c] /\ reply'[c] = reply[c] /\ unheard'[c] = unheard[c]
      BY DEF Inv, TypeOK
    <2>2. Good(c) /\ kind[c] = "none"
      BY DEF Inv
    <2> QED
      BY <2>1, <2>2, AnswersDiffer DEF Good, Sends, Errors
  <1>4. UNCHANGED service
    OBVIOUS
  <1> QED
    BY <1>1, <1>2, <1>3, <1>4, OneCall

\* Transactions of which one cannot be sent.
LEMMA SubmitFailsGood ==
  ASSUME Inv, NEW c \in Call, NEW k \in Sends, NEW transactions \in Seq(Transactions),
         SubmitFails(c, k, transactions)
  PROVE  Inv'
PROOF
  <1> USE DEF SubmitFails, Fulfil, Begin, Open, NotFulfilled, NotTold
  <1>0. fulfils[c] = 0
    BY DEF Inv, Good
  <1>1. TypeOK'
    BY <1>0, AnswersDiffer DEF Inv, TypeOK, CallStates, Promises, Errors
  <1>2. OthersStay(c)
    BY DEF Inv, TypeOK, OthersStay, Row
  <1>3. Good(c)'
    <2>1. /\ kind'[c] = k /\ asked'[c] = transactions /\ sent'[c] = sent[c]
          /\ call'[c] = call[c] /\ result'[c] = Error("local")
          /\ fulfils'[c] = fulfils[c] + 1 /\ events'[c] = events[c] /\ reply'[c] = reply[c] /\ unheard'[c] = unheard[c]
      BY <1>0 DEF Inv, TypeOK
    <2>2. Good(c) /\ kind[c] = "none"
      BY DEF Inv
    <2> QED
      BY <2>1, <2>2, AnswersDiffer DEF Good, Sends, Errors
  <1>4. UNCHANGED service
    OBVIOUS
  <1> QED
    BY <1>1, <1>2, <1>3, <1>4, OneCall

\* Requests that are sent.
LEMMA RequestGood ==
  ASSUME Inv, NEW c \in Call, NEW k \in {"query", "commits"}, NEW q,
         Request(c, k, q)
  PROVE  Inv'
PROOF
  <1> USE DEF Request, Begin, Open, NotFulfilled, NotTold
  <1>1. TypeOK'
    BY DEF Inv, TypeOK, CallStates, Promises, Streams
  <1>2. OthersStay(c)
    BY DEF Inv, TypeOK, OthersStay, Row
  <1>3. Good(c)'
    <2>1. /\ kind'[c] = k /\ asked'[c] = asked[c] /\ sent'[c] = sent[c] /\ call'[c] = "open"
          /\ result'[c] = result[c] /\ fulfils'[c] = fulfils[c] /\ events'[c] = events[c]
          /\ reply'[c] = reply[c] /\ unheard'[c] = unheard[c]
      BY DEF Inv, TypeOK
    <2>2. Good(c) /\ kind[c] = "none"
      BY DEF Inv
    <2> QED
      BY <2>1, <2>2, AnswersDiffer DEF Good, Sends, Errors
  <1>4. UNCHANGED service
    OBVIOUS
  <1> QED
    BY <1>1, <1>2, <1>3, <1>4, OneCall

\* A query that cannot be sent.
LEMMA QueryFailsGood ==
  ASSUME Inv, NEW c \in Call, NEW q,
         QueryFails(c, q)
  PROVE  Inv'
PROOF
  <1> USE DEF QueryFails, Fulfil, Begin, Open, NotFulfilled, NotTold
  <1>0. fulfils[c] = 0
    BY DEF Inv, Good
  <1>1. TypeOK'
    BY <1>0, AnswersDiffer DEF Inv, TypeOK, CallStates, Promises, Errors
  <1>2. OthersStay(c)
    BY DEF Inv, TypeOK, OthersStay, Row
  <1>3. Good(c)'
    <2>1. /\ kind'[c] = "query" /\ asked'[c] = asked[c] /\ sent'[c] = sent[c]
          /\ call'[c] = call[c] /\ result'[c] = Error("local")
          /\ fulfils'[c] = fulfils[c] + 1 /\ events'[c] = events[c] /\ reply'[c] = reply[c] /\ unheard'[c] = unheard[c]
      BY <1>0 DEF Inv, TypeOK
    <2>2. Good(c) /\ kind[c] = "none"
      BY DEF Inv
    <2> QED
      BY <2>1, <2>2, AnswersDiffer DEF Good, Sends, Errors
  <1>4. UNCHANGED service
    OBVIOUS
  <1> QED
    BY <1>1, <1>2, <1>3, <1>4, OneCall

\* A request for commits that cannot be sent.
LEMMA CommitsFailGood ==
  ASSUME Inv, NEW c \in Call, NEW q,
         CommitsFail(c, q)
  PROVE  Inv'
PROOF
  <1> USE DEF CommitsFail, Tell, Begin, Open, NotFulfilled, NotTold
  <1>0. Event(Nil, TRUE, "local") \in Events
    BY DEF Event, Events, Errors
  <1>1. TypeOK'
    <2>1. events' \in [Call -> Seq(Events)]
      BY <1>0, ToldMore DEF Inv, TypeOK
    <2> QED
      BY <2>1 DEF Inv, TypeOK, CallStates, Streams
  <1>2. OthersStay(c)
    BY DEF Inv, TypeOK, OthersStay, Row
  <1>3. Good(c)'
    <2>1. /\ kind'[c] = "commits" /\ asked'[c] = asked[c] /\ sent'[c] = sent[c]
          /\ call'[c] = call[c] /\ result'[c] = result[c] /\ fulfils'[c] = fulfils[c]
          /\ events'[c] = Append(events[c], Event(Nil, TRUE, "local"))
          /\ reply'[c] = reply[c] /\ unheard'[c] = unheard[c]
      BY DEF Inv, TypeOK
    <2>2. Good(c) /\ kind[c] = "none"
      BY DEF Inv
    <2> QED
      BY <2>1, <2>2, AnswersDiffer DEF Good, Sends, Errors, Event
  <1>4. UNCHANGED service
    OBVIOUS
  <1> QED
    BY <1>1, <1>2, <1>3, <1>4, OneCall

\* Statuses that are asked for.
LEMMA AskStatusGood ==
  ASSUME Inv, NEW c \in Call, NEW k \in {"fetch", "status"},
         AskStatus(c, k)
  PROVE  Inv'
PROOF
  <1> USE DEF AskStatus, Begin, Open, NotFulfilled, NotTold
  <1>1. TypeOK'
    BY DEF Inv, TypeOK, CallStates, Promises, Streams
  <1>2. OthersStay(c)
    BY DEF Inv, TypeOK, OthersStay, Row
  <1>3. Good(c)'
    <2>1. /\ kind'[c] = k /\ asked'[c] = asked[c] /\ sent'[c] = sent[c] /\ call'[c] = "open"
          /\ result'[c] = result[c] /\ fulfils'[c] = fulfils[c] /\ events'[c] = events[c]
          /\ reply'[c] = reply[c] /\ unheard'[c] = unheard[c]
      BY DEF Inv, TypeOK
    <2>2. Good(c) /\ kind[c] = "none"
      BY DEF Inv
    <2> QED
      BY <2>1, <2>2, AnswersDiffer DEF Good, Sends, Errors
  <1>4. UNCHANGED service
    OBVIOUS
  <1> QED
    BY <1>1, <1>2, <1>3, <1>4, OneCall

\* Transactions the peer took.
LEMMA TakenGood ==
  ASSUME Inv, NEW c \in Call,
         Taken(c)
  PROVE  Inv'
PROOF
  <1> USE DEF Taken, Answered, Close, Fulfil, NotTold, NotFulfilled
  <1>0. fulfils[c] = 0
    BY DEF Inv, Good
  <1>1. TypeOK'
    BY <1>0, AnswersDiffer DEF Inv, TypeOK, CallStates
  <1>2. OthersStay(c)
    BY DEF Inv, TypeOK, OthersStay, Row
  <1>3. Good(c)'
    <2>1. /\ kind'[c] = kind[c] /\ asked'[c] = asked[c] /\ sent'[c] = sent[c]
          /\ call'[c] = "closed" /\ result'[c] = Hashes(sent[c])
          /\ fulfils'[c] = fulfils[c] + 1 /\ events'[c] = events[c] /\ reply'[c] = reply[c] /\ unheard'[c] = unheard[c]
      BY <1>0 DEF Inv, TypeOK
    <2>2. Good(c) /\ kind[c] \in Sends /\ call[c] = "open" /\ sent[c] \in Seq(Transactions)
      BY DEF Inv, TypeOK
    <2> QED
      BY <2>1, <2>2, AnswersDiffer DEF Good, Sends, Errors
  <1>4. UNCHANGED service
    OBVIOUS
  <1> QED
    BY <1>1, <1>2, <1>3, <1>4, OneCall

\* A query the peer answered.
LEMMA QueryAnsweredGood ==
  ASSUME Inv, NEW c \in Call, NEW m \in Answers,
         QueryAnswered(c, m)
  PROVE  Inv'
PROOF
  <1> USE DEF QueryAnswered, Answered, Close, Fulfil, NotTold, NotFulfilled
  <1> DEFINE read == QueryResponseOf(m)
             r == IF read.value # Nil THEN Response(read.value)
                  ELSE IF read.error THEN Error("parsing") ELSE Nil
  <1>0. fulfils[c] = 0
    BY DEF Inv, Good
  <1>r. /\ r \in Settled \cup {Nil} /\ r # Pending
        /\ r = Nil => HidesError(m)
    <2>1. CASE read.value # Nil
      BY <2>1, QueryReads, AnswersDiffer
    <2>2. CASE read.value = Nil
      BY <2>2, QueryReads, AnswersDiffer DEF Errors
    <2> QED
      BY <2>1, <2>2
  <1>1. TypeOK'
    BY <1>0, <1>r DEF Inv, TypeOK, CallStates
  <1>2. OthersStay(c)
    BY DEF Inv, TypeOK, OthersStay, Row
  <1>3. Good(c)'
    <2>1. /\ kind'[c] = kind[c] /\ asked'[c] = asked[c] /\ sent'[c] = sent[c]
          /\ call'[c] = "closed" /\ result'[c] = r /\ fulfils'[c] = fulfils[c] + 1
          /\ events'[c] = events[c] /\ reply'[c] = m /\ unheard'[c] = unheard[c]
      BY <1>0 DEF Inv, TypeOK
    <2>2. Good(c) /\ kind[c] = "query" /\ call[c] = "open"
      BY DEF Inv
    <2> QED
      BY <2>1, <2>2, <1>0, <1>r, ServiceAssumption DEF Good, Sends, Errors
  <1>4. UNCHANGED service
    OBVIOUS
  <1> QED
    BY <1>1, <1>2, <1>3, <1>4, OneCall

\* A query the peer answered with a bad batch hash.
LEMMA QueryRaisesGood ==
  ASSUME Inv, NEW c \in Call, NEW m \in Answers,
         QueryRaises(c, m)
  PROVE  Inv'
PROOF
  <1> USE DEF QueryRaises, Answered, Close, NotTold, NotFulfilled
  <1>1. TypeOK'
    BY DEF Inv, TypeOK, CallStates
  <1>2. OthersStay(c)
    BY DEF Inv, TypeOK, OthersStay, Row
  <1>3. Good(c)'
    <2>1. /\ kind'[c] = kind[c] /\ asked'[c] = asked[c] /\ sent'[c] = sent[c]
          /\ call'[c] = "closed" /\ result'[c] = result[c] /\ fulfils'[c] = fulfils[c]
          /\ events'[c] = events[c] /\ reply'[c] = m /\ unheard'[c] = unheard[c]
      BY DEF Inv, TypeOK
    <2>2. Good(c) /\ kind[c] = "query" /\ call[c] = "open"
      BY DEF Inv
    <2>3. LosesAnswer(m) /\ m # Nil
      BY QueryReads, ServiceAssumption
    <2>4. Abandoned(c)'
      BY <2>1, <2>2, <2>3 DEF Abandoned
    <2> QED
      BY <2>1, <2>2, <2>4, AnswersDiffer DEF Good, Sends, Errors
  <1>4. UNCHANGED service
    OBVIOUS
  <1> QED
    BY <1>1, <1>2, <1>3, <1>4, OneCall

\* A status the peer answered with.
LEMMA FetchedGood ==
  ASSUME Inv, NEW c \in Call, NEW m \in Statuses,
         Fetched(c, m)
  PROVE  Inv'
PROOF
  <1> USE DEF Fetched, Answered, Close, Fulfil, NotTold, NotFulfilled
  <1> DEFINE read == StatusResponseOf(m)
             r == IF read.value # Nil THEN Response(read.value) ELSE Error("parsing")
  <1>0. fulfils[c] = 0
    BY DEF Inv, Good
  <1>r. r \in Settled \ {Pending, Nil}
    BY StatusReads, AnswersDiffer DEF Errors
  <1>1. TypeOK'
    BY <1>0, <1>r DEF Inv, TypeOK, CallStates
  <1>2. OthersStay(c)
    BY DEF Inv, TypeOK, OthersStay, Row
  <1>3. Good(c)'
    <2>1. /\ kind'[c] = kind[c] /\ asked'[c] = asked[c] /\ sent'[c] = sent[c]
          /\ call'[c] = "closed" /\ result'[c] = r /\ fulfils'[c] = fulfils[c] + 1
          /\ events'[c] = events[c] /\ reply'[c] = reply[c] /\ unheard'[c] = unheard[c]
      BY <1>0 DEF Inv, TypeOK
    <2>2. Good(c) /\ kind[c] = "fetch" /\ call[c] = "open"
      BY DEF Inv
    <2> QED
      BY <2>1, <2>2, <1>0, <1>r DEF Good, Sends, Errors
  <1>4. UNCHANGED service
    OBVIOUS
  <1> QED
    BY <1>1, <1>2, <1>3, <1>4, OneCall

\* A unary call that gRPC ends with an error.
LEMMA FailsGood ==
  ASSUME Inv, NEW c \in Call,
         Fails(c)
  PROVE  Inv'
PROOF
  <1> USE DEF Fails, Answered, Close, Fulfil, NotTold, NotFulfilled
  <1>0. fulfils[c] = 0
    BY DEF Inv, Good
  <1>1. TypeOK'
    BY <1>0, AnswersDiffer DEF Inv, TypeOK, CallStates, Errors
  <1>2. OthersStay(c)
    BY DEF Inv, TypeOK, OthersStay, Row
  <1>3. Good(c)'
    <2>1. /\ kind'[c] = kind[c] /\ asked'[c] = asked[c] /\ sent'[c] = sent[c]
          /\ call'[c] = "closed" /\ result'[c] = Error("rpc")
          /\ fulfils'[c] = fulfils[c] + 1 /\ events'[c] = events[c] /\ reply'[c] = reply[c] /\ unheard'[c] = unheard[c]
      BY <1>0 DEF Inv, TypeOK
    <2>2. Good(c) /\ kind[c] \in Promises /\ call[c] = "open"
      BY DEF Inv
    <2>3. Error("rpc") \in Settled \ {Pending, Nil} /\ Error("local") # Error("rpc")
      BY AnswersDiffer DEF Errors
    <2>4. kind[c] # "none"
      BY <2>2 DEF Promises, Sends
    <2> HIDE DEF Fails, Answered, Close, Fulfil, NotTold, NotFulfilled
    <2>5. kind'[c] \in Sends =>
            /\ result'[c] \in {Pending, Error("local"), Error("rpc"), Hashes(asked'[c])}
            /\ result'[c] # Error("local")
            /\ sent'[c] = asked'[c]
      BY <2>1, <2>2, <2>3 DEF Good
    <2>6. /\ fulfils'[c] = 1 /\ result'[c] # Pending /\ result'[c] # Nil
      BY <1>0, <2>1, <2>3
    <2>7. \A i \in DOMAIN events'[c] :
            /\ events'[c][i].done => i = Len(events'[c])
            /\ events'[c][i].response = Nil /\ events'[c][i].error = Nil => events'[c][i].done
            /\ events'[c][i].response # Nil /\ events'[c][i].error # Nil =>
                 kind'[c] = "commits" /\ KeepsError(events'[c][i].response)
      BY <2>1, <2>2 DEF Good
    <2>8. kind'[c] # "none" /\ call'[c] \notin {"open", "cancelled"}
      BY <2>1, <2>4
    <2>9. fulfils'[c] \in {0, 1} /\ (fulfils'[c] = 0 <=> result'[c] = Pending)
      BY <2>6
    <2>10. (kind[c] \in Sends =>
              /\ result[c] \in {Pending, Error("local"), Error("rpc"), Hashes(asked[c])}
              /\ result[c] = Error("local") => call[c] = "none" /\ sent[c] = << >>
              /\ call[c] # "none" => sent[c] = asked[c])'
      BY <2>5
    <2>11. (result[c] = Nil => reply[c] # Nil /\ HidesError(reply[c]))'
      BY <2>6
    <2>12. /\ (kind[c] \in Promises /\ call[c] = "closed" => result[c] # Pending \/ Abandoned(c))'
           /\ (unheard[c] # Nil => LosesCommit(unheard[c]))'
      <3>1. unheard[c] # Nil => LosesCommit(unheard[c])
        BY <2>2 DEF Good
      <3> QED
        BY <2>1, <2>6, <3>1
    <2> QED
      BY <2>7, <2>8, <2>9, <2>10, <2>11, <2>12 DEF Good
  <1>4. UNCHANGED service
    OBVIOUS
  <1> QED
    BY <1>1, <1>2, <1>3, <1>4, OneCall

\* A status that comes after the service was released.
LEMMA FetchIgnoredGood ==
  ASSUME Inv, NEW c \in Call,
         FetchIgnored(c)
  PROVE  Inv'
PROOF
  <1> USE DEF FetchIgnored, Answered, Close, Fulfil, NotTold, NotFulfilled
  <1>1. TypeOK'
    BY DEF Inv, TypeOK, CallStates
  <1>2. OthersStay(c)
    BY DEF Inv, TypeOK, OthersStay, Row
  <1>3. Good(c)'
    <2>1. /\ kind'[c] = kind[c] /\ asked'[c] = asked[c] /\ sent'[c] = sent[c]
          /\ call'[c] = "closed" /\ result'[c] = result[c] /\ fulfils'[c] = fulfils[c]
          /\ events'[c] = events[c] /\ reply'[c] = reply[c] /\ unheard'[c] = unheard[c]
      BY DEF Inv, TypeOK
    <2>2. Good(c) /\ kind[c] = "fetch" /\ call[c] = "open"
      BY DEF Inv
    <2>3. Abandoned(c)'
      BY <2>1, <2>2 DEF Abandoned
    <2> QED
      BY <2>1, <2>2, <2>3, AnswersDiffer DEF Good, Sends, Errors
  <1>4. UNCHANGED service
    OBVIOUS
  <1> QED
    BY <1>1, <1>2, <1>3, <1>4, OneCall

\* A message of a stream.
LEMMA ReportGood ==
  ASSUME Inv, NEW c \in Call, NEW k \in Streams, NEW read,
         read.value \in StatusObject \cup CommitObject \cup {Nil},
         read.error \in BOOLEAN,
         read.value = Nil /\ ~ read.raises => read.error,
         read.value # Nil /\ read.error =>
           k = "commits" /\ KeepsError(read.value),
         Report(c, k, read)
  PROVE  Inv'
PROOF
  <1> USE DEF Report, Heard, Tell, NotTold, NotFulfilled
  <1> DEFINE event == Outcome(read, FALSE)
  <1>0. /\ event \in Events /\ ~ event.done
        /\ ~ (event.response = Nil /\ event.error = Nil)
        /\ event.response # Nil /\ event.error # Nil =>
             k = "commits" /\ KeepsError(event.response)
    BY AnswersDiffer DEF Outcome, Event, Events, Errors
  <1>1. TypeOK'
    <2>1. events' \in [Call -> Seq(Events)]
      BY <1>0, ToldMore DEF Inv, TypeOK
    <2> QED
      BY <2>1 DEF Inv, TypeOK
  <1>2. OthersStay(c)
    BY DEF Inv, TypeOK, OthersStay, Row
  <1>3. Good(c)'
    <2>1. /\ kind'[c] = kind[c] /\ asked'[c] = asked[c] /\ sent'[c] = sent[c]
          /\ call'[c] = call[c] /\ result'[c] = result[c] /\ fulfils'[c] = fulfils[c]
          /\ events'[c] = events[c] \/ events'[c] = Append(events[c], event)
          /\ reply'[c] = reply[c] /\ unheard'[c] = unheard[c]
      BY DEF Inv, TypeOK
    <2>2. Good(c) /\ kind[c] = k /\ call[c] = "open" /\ events[c] \in Seq(Events)
      BY DEF Inv, TypeOK
    <2>3. kind[c] \notin Sends /\ kind[c] # "none"
      BY <2>2 DEF Sends, Streams
    <2> HIDE DEF event, Report, Heard, Tell, NotTold, NotFulfilled
    <2>4. CASE events'[c] = events[c]
      BY <2>1, <2>2, <2>3, <2>4 DEF Good
    <2>5. CASE events'[c] = Append(events[c], event)
      <3>1. /\ Len(events'[c]) = Len(events[c]) + 1
            /\ \A i \in DOMAIN events'[c] :
                 \/ i \in DOMAIN events[c] /\ events'[c][i] = events[c][i]
                 \/ i = Len(events[c]) + 1 /\ events'[c][i] = event
        BY <1>0, <2>2, <2>5, Appended
      <3>2. \A i \in DOMAIN events[c] : ~ events[c][i].done
        BY <2>2 DEF Good
      <3>3. \A i \in DOMAIN events'[c] : ~ events'[c][i].done
        BY <1>0, <3>1, <3>2
      <3>4. \A i \in DOMAIN events'[c] :
              /\ events'[c][i].response = Nil /\ events'[c][i].error = Nil => events'[c][i].done
              /\ events'[c][i].response # Nil /\ events'[c][i].error # Nil =>
                   kind'[c] = "commits" /\ KeepsError(events'[c][i].response)
        BY <1>0, <2>1, <2>2, <3>1 DEF Good
      <3> QED
        BY <2>1, <2>2, <2>3, <3>3, <3>4 DEF Good
    <2> QED
      BY <2>1, <2>4, <2>5
  <1>4. UNCHANGED service
    OBVIOUS
  <1> QED
    BY <1>1, <1>2, <1>3, <1>4, OneCall

\* A commit with a bad batch hash.
LEMMA CommitRaisesGood ==
  ASSUME Inv, NEW c \in Call, NEW m \in Commits,
         CommitRaises(c, m)
  PROVE  Inv'
PROOF
  <1> USE DEF CommitRaises, NotTold, NotFulfilled
  <1>1. TypeOK'
    BY DEF Inv, TypeOK
  <1>2. OthersStay(c)
    BY DEF Inv, TypeOK, OthersStay, Row
  <1>3. Good(c)'
    <2>1. /\ kind'[c] = kind[c] /\ asked'[c] = asked[c] /\ sent'[c] = sent[c]
          /\ call'[c] = call[c] /\ result'[c] = result[c] /\ fulfils'[c] = fulfils[c]
          /\ events'[c] = events[c] /\ reply'[c] = reply[c] /\ unheard'[c] = m
      BY DEF Inv, TypeOK
    <2>2. Good(c) /\ kind[c] = "commits" /\ call[c] = "open"
      BY DEF Inv
    <2>3. LosesCommit(m)
      BY CommitReads
    <2> QED
      BY <2>1, <2>2, <2>3 DEF Good, Sends, Promises
  <1>4. UNCHANGED service
    OBVIOUS
  <1> QED
    BY <1>1, <1>2, <1>3, <1>4, OneCall

\* The last event of a stream.
LEMMA EndsGood ==
  ASSUME Inv, NEW c \in Call, NEW e \in {Nil, "rpc"},
         Ends(c, e)
  PROVE  Inv'
PROOF
  <1> USE DEF Ends, Close, Heard, Tell, NotTold, NotFulfilled
  <1> DEFINE event == Event(Nil, TRUE, e)
  <1>0. event \in Events /\ event.done /\ event.response = Nil
    BY DEF Event, Events, Errors
  <1>1. TypeOK'
    <2>1. events' \in [Call -> Seq(Events)]
      BY <1>0, ToldMore DEF Inv, TypeOK
    <2> QED
      BY <2>1 DEF Inv, TypeOK, CallStates
  <1>2. OthersStay(c)
    BY DEF Inv, TypeOK, OthersStay, Row
  <1>3. Good(c)'
    <2>1. /\ kind'[c] = kind[c] /\ asked'[c] = asked[c] /\ sent'[c] = sent[c]
          /\ call'[c] = "closed" /\ result'[c] = result[c] /\ fulfils'[c] = fulfils[c]
          /\ events'[c] = events[c] \/ events'[c] = Append(events[c], event)
          /\ reply'[c] = reply[c] /\ unheard'[c] = unheard[c]
      BY DEF Inv, TypeOK
    <2>2. /\ Good(c) /\ kind[c] \in Streams /\ call[c] \in {"open", "cancelled"}
          /\ events[c] \in Seq(Events)
      BY DEF Inv, TypeOK
    <2>3. kind[c] \notin Sends /\ kind[c] \notin Promises /\ kind[c] # "none"
      BY <2>2 DEF Sends, Promises, Streams
    <2> HIDE DEF event, Ends, Close, Heard, Tell, NotTold, NotFulfilled
    <2>4. CASE events'[c] = events[c]
      BY <2>1, <2>2, <2>3, <2>4 DEF Good
    <2>5. CASE events'[c] = Append(events[c], event)
      <3>1. /\ Len(events'[c]) = Len(events[c]) + 1
            /\ \A i \in DOMAIN events'[c] :
                 \/ i \in DOMAIN events[c] /\ events'[c][i] = events[c][i]
                 \/ i = Len(events[c]) + 1 /\ events'[c][i] = event
        BY <1>0, <2>2, <2>5, Appended
      <3>2. \A i \in DOMAIN events[c] : ~ events[c][i].done
        BY <2>2 DEF Good
      <3>3. \A i \in DOMAIN events'[c] : events'[c][i].done => i = Len(events'[c])
        BY <1>0, <3>1, <3>2
      <3>4. \A i \in DOMAIN events'[c] :
              /\ events'[c][i].response = Nil /\ events'[c][i].error = Nil => events'[c][i].done
              /\ events'[c][i].response # Nil /\ events'[c][i].error # Nil =>
                   kind'[c] = "commits" /\ KeepsError(events'[c][i].response)
        BY <1>0, <2>1, <2>2, <3>1 DEF Good
      <3> QED
        BY <2>1, <2>2, <2>3, <3>3, <3>4 DEF Good
    <2> QED
      BY <2>1, <2>4, <2>5
  <1>4. UNCHANGED service
    OBVIOUS
  <1> QED
    BY <1>1, <1>2, <1>3, <1>4, OneCall

\* A stream that is cancelled.
LEMMA CancelGood ==
  ASSUME Inv, NEW c \in Call,
         Cancel(c)
  PROVE  Inv'
PROOF
  <1> USE DEF Cancel, NotTold, NotFulfilled
  <1>1. TypeOK'
    BY DEF Inv, TypeOK, CallStates
  <1>2. OthersStay(c)
    BY DEF Inv, TypeOK, OthersStay, Row
  <1>3. Good(c)'
    <2>1. /\ kind'[c] = kind[c] /\ asked'[c] = asked[c] /\ sent'[c] = sent[c]
          /\ call'[c] = "cancelled" /\ result'[c] = result[c] /\ fulfils'[c] = fulfils[c]
          /\ events'[c] = events[c] /\ reply'[c] = reply[c] /\ unheard'[c] = unheard[c]
      BY DEF Inv, TypeOK
    <2>2. Good(c) /\ kind[c] \in Streams /\ call[c] = "open"
      BY DEF Inv
    <2> QED
      BY <2>1, <2>2 DEF Good, Sends, Streams
  <1>4. UNCHANGED service
    OBVIOUS
  <1> QED
    BY <1>1, <1>2, <1>3, <1>4, OneCall

\* What is said of a call stays true when the service is released.
LEMMA ReleaseServiceGood ==
  ASSUME Inv, ReleaseService \/ UNCHANGED vars
  PROVE  Inv'
PROOF
  <1>1. /\ UNCHANGED <<kind, asked, sent, call, result, fulfils, events, reply, unheard>>
        /\ service' \in BOOLEAN /\ (~ service => ~ service')
    <2>1. CASE ReleaseService
      BY <2>1 DEF ReleaseService
    <2>2. CASE UNCHANGED vars
      <3>1. service \in BOOLEAN
        BY DEF Inv, TypeOK
      <3>2. UNCHANGED <<kind, asked, sent, call, result, fulfils, events, reply, unheard>>
        BY <2>2 DEF vars
      <3>3. service' = service
        BY <2>2 DEF vars
      <3> QED
        BY <3>1, <3>2, <3>3
    <2> QED
      BY <2>1, <2>2
  <1>2. TypeOK'
    BY <1>1 DEF Inv, TypeOK
  <1>3. ASSUME NEW c \in Call PROVE Good(c)'
    <2>1. Good(c)
      BY DEF Inv
    <2> QED
      BY <1>1, <2>1 DEF Good, Abandoned
  <1> QED
    BY <1>2, <1>3 DEF Inv

-----------------------------------------------------------------------------
(* Every step, and every behaviour                                           *)

LEMMA StepGood ==
  ASSUME Inv, [Next]_vars
  PROVE  Inv'
PROOF
  <1>1. ASSUME NEW c \in Call, NEW t \in Transactions,
               Submit(c, "transaction", <<t>>) \/ SubmitFails(c, "transaction", <<t>>)
        PROVE  Inv'
    <2>1. <<t>> \in Seq(Transactions) /\ "transaction" \in Sends
      BY DEF Sends
    <2> QED
      BY <1>1, <2>1, SubmitGood, SubmitFailsGood
  <1>2. ASSUME NEW c \in Call, NEW b \in Batches,
               Submit(c, "batch", b) \/ SubmitFails(c, "batch", b)
        PROVE  Inv'
    <2>1. b \in Seq(Transactions) /\ "batch" \in Sends
      BY ServiceAssumption DEF Sends
    <2> QED
      BY <1>2, <2>1, SubmitGood, SubmitFailsGood
  <1>3. ASSUME NEW c \in Call, NEW q \in Queries,
               \/ Request(c, "query", q) \/ QueryFails(c, q)
               \/ Request(c, "commits", q) \/ CommitsFail(c, q)
        PROVE  Inv'
    BY <1>3, RequestGood, QueryFailsGood, CommitsFailGood
  <1>4. ASSUME NEW c \in Call, AskStatus(c, "fetch") \/ AskStatus(c, "status")
        PROVE  Inv'
    BY <1>4, AskStatusGood
  <1>5. ASSUME NEW c \in Call, AnyAnswer(c)
        PROVE  Inv'
    BY <1>5, TakenGood, QueryAnsweredGood, QueryRaisesGood, FetchedGood, FailsGood, FetchIgnoredGood
       DEF AnyAnswer
  <1>6. ASSUME NEW c \in Call, NEW m \in Statuses, Report(c, "status", StatusResponseOf(m))
        PROVE  Inv'
    <2> DEFINE read == StatusResponseOf(m)
    <2>1. /\ read.value \in StatusObject \cup {Nil} /\ read.error \in BOOLEAN
          /\ read.value = Nil <=> read.error
      BY StatusReads
    <2>2. "status" \in Streams
      BY DEF Streams
    <2> HIDE DEF read
    <2> QED
      BY <1>6, <2>1, <2>2, ReportGood DEF read
  <1>7. ASSUME NEW c \in Call, NEW m \in Commits, Report(c, "commits", BlockQueryResponseOf(m))
        PROVE  Inv'
    <2> DEFINE read == BlockQueryResponseOf(m)
    <2>1. /\ read.value \in CommitObject \cup {Nil} /\ read.error \in BOOLEAN
          /\ read.value = Nil /\ ~ read.raises => read.error
          /\ read.value # Nil /\ read.error => KeepsError(read.value)
      BY CommitReads
    <2>2. "commits" \in Streams
      BY DEF Streams
    <2> HIDE DEF read
    <2> QED
      BY <1>7, <2>1, <2>2, ReportGood DEF read
  <1>r. ASSUME NEW c \in Call, NEW m \in Commits, CommitRaises(c, m)
        PROVE  Inv'
    BY <1>r, CommitRaisesGood
  <1>8. ASSUME NEW c \in Call, NEW e \in {Nil, "rpc"}, Ends(c, e)
        PROVE  Inv'
    BY <1>8, EndsGood
  <1>9. ASSUME NEW c \in Call, Cancel(c)
        PROVE  Inv'
    BY <1>9, CancelGood
  <1>10. CASE ReleaseService \/ UNCHANGED vars
    BY <1>10, ReleaseServiceGood
  <1> QED
    BY <1>1, <1>2, <1>3, <1>4, <1>5, <1>6, <1>7, <1>r, <1>8, <1>9, <1>10 DEF Next

LEMMA Invariance == Spec => []Inv
PROOF
  <1>1. Init => Inv
    BY InitGood
  <1>2. Inv /\ [Next]_vars => Inv'
    BY StepGood
  <1> QED
    BY <1>1, <1>2, PTL DEF Spec

\* What the service keeps of its calls has its type: an application is handed
\* no object with a part the library never checked, but for the hash of the
\* next batch, whatever IRQueryResponse+Proto.m, IRBlockQueryResponse+Proto.m
\* and IRTransactionStatusResponseImpl+Proto.m are given to read.
THEOREM TypeCorrect == Spec => []TypeOK
PROOF
  <1>1. Inv => TypeOK
    BY DEF Inv
  <1> QED
    BY <1>1, Invariance, PTL

\* No method of IRNetworkService.m ends a call twice or leaves one in flight
\* behind the end it reported, whatever its calls and however they interleave.
THEOREM CallsEndOnce == Spec => []EndsOnce
PROOF
  <1>1. Inv => EndsOnce
    <2> SUFFICES ASSUME Inv, NEW c \in Call
                 PROVE  /\ fulfils[c] <= 1
                        /\ fulfils[c] = 1 => call[c] \in {"none", "closed"}
                        /\ \A i \in DOMAIN events[c] :
                             events[c][i].done => i = Len(events[c]) /\ call[c] \in {"none", "closed"}
      BY DEF EndsOnce
    <2>1. Good(c) /\ call[c] \in CallStates
      BY DEF Inv, TypeOK
    <2> QED
      BY <2>1 DEF Good, CallStates
  <1> QED
    BY <1>1, Invariance, PTL

\* executeTransaction: and executeBatchTransactions: send all or nothing, and
\* answer with the hashes of what they were handed, for any batch.
THEOREM SentAllOrNone == Spec => []AllOrNothing
PROOF
  <1>1. Inv => AllOrNothing
    BY DEF Inv, Good, AllOrNothing
  <1> QED
    BY <1>1, Invariance, PTL

\* Whoever waits for an answer gets an object or an error, but for the four
\* kinds of message that ResponseOrError names and a status whose service is gone.
THEOREM AnswersAreSound == Spec => []ResponseOrError
PROOF
  <1>1. Inv => ResponseOrError
    BY DEF Inv, Good, ResponseOrError
  <1> QED
    BY <1>1, Invariance, PTL
=============================================================================
