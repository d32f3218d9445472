----------------------------- MODULE QueryResponse -----------------------------
(***************************************************************************)
(* What the library makes of the messages a peer answers with:             *)
(* IRQueryResponseProtoFactory reads the answers to queries,               *)
(* IRBlockQueryResponse those of a stream of commits and                   *)
(* IRTransactionStatusResponse the statuses of transactions.               *)
(*                                                                         *)
(* A reader answers an object or nil, and sets the error of its caller or  *)
(* does not: the caller sees the pair.  It may do both: the address of an  *)
(* addPeer is tried as an IP address first, which sets the error of one    *)
(* that is a domain, and so does the key of a createAccount.  Who asks a   *)
(* query looks at the error only when there is no object, so this is kept  *)
(* of the transactions of blocks only.  A transaction stands for the       *)
(* message it was read from.                                               *)
(*                                                                         *)
(* Or it does not come back at all: a batch hash that cannot be read is    *)
(* added to an array as nil, which raises an exception that no reader and  *)
(* no caller in the library catches.                                       *)
(***************************************************************************)
EXTENDS CommandCodec, ResponseMessages

CONSTANTS
  Answers,        \* the answers to queries a peer may give
  Statuses,       \* the statuses of transactions it may report
  Commits         \* the commits it may report

ASSUME MessageAssumption ==
  /\ Answers \subseteq PbQueryResponse
  /\ Statuses \subseteq PbToriiResponse
  /\ Commits \subseteq PbBlockQueryResponse

-----------------------------------------------------------------------------
(* What a caller gets: a value, an error, an exception; and the parts of     *)
(* messages                                                                  *)

Read(value) == [value |-> value, error |-> FALSE, raises |-> FALSE]
Refused     == [value |-> Nil, error |-> TRUE, raises |-> FALSE]
Silent      == [value |-> Nil, error |-> FALSE, raises |-> FALSE]
Raised      == [value |-> Nil, error |-> FALSE, raises |-> TRUE]

\* The early returns: the reader of a part that is refused has set the error.
\* A definition named Mutant... is a slip in the one that follows it; no
\* specification uses it.
MutantReadIfAll(parts, value) == IF Nil \in parts THEN Silent ELSE Read(value)
ReadIfAll(parts, value) == IF Nil \in parts THEN Refused ELSE Read(value)

Each(of(_), items) == [i \in DOMAIN items |-> of(items[i])]
Parts(of(_), items) == {of(items[i]) : i \in DOMAIN items}

BytesOf(text) == IF IsHex(text) THEN text ELSE Nil

\* Transactions are read in their order, up to the first that is refused or
\* raises.  Of one that raises there is no object either.
TransactionOf(pb) == IF pb \in Acceptable THEN pb ELSE Nil
RaisesAmong(transactions) ==
  \E i \in DOMAIN transactions :
    transactions[i] \in Raising /\ \A j \in 1 .. i - 1 : transactions[j] \in Acceptable

\* An answer with transactions, which are read before its other parts.
ReadTransactions(transactions, parts, value) ==
  IF RaisesAmong(transactions) THEN Raised
  ELSE ReadIfAll(Parts(TransactionOf, transactions) \cup parts, value)

\* Zero is a balance.
BalanceOf(text) == IF text \in AmountText THEN Plain(text) ELSE Nil

AccountAssetOf(a) ==
  IfAll({Account(a.accountId), Asset(a.assetId), BalanceOf(a.balance)},
        [accountId |-> Account(a.accountId), assetId |-> Asset(a.assetId),
         balance |-> BalanceOf(a.balance)])

MutantPeerOf(p) == IfAll({NameOf(p.address)}, [address |-> p.address, peerKey |-> KeyOf(p.peerKey)])
PeerOf(p) ==
  IfAll({NameOf(p.address), KeyOf(p.peerKey)}, [address |-> p.address, peerKey |-> KeyOf(p.peerKey)])

\* A signature of a block: its own bytes are as good as a key to the model.
PeerSignatureOf(s) ==
  IfAll({KeyOf(s.signature), KeyOf(s.publicKey)},
        [signature |-> KeyOf(s.signature), publicKey |-> KeyOf(s.publicKey)])

-----------------------------------------------------------------------------
(* IRQueryResponseProtoFactory: one reader for each case, of a message m that  *)
(* answers the query with the hash                                           *)

AssetResponse(m, hash) ==
  ReadIfAll({Asset(m.asset.assetId)},
            [type |-> m.type, queryHash |-> hash, assetId |-> Asset(m.asset.assetId),
             precision |-> m.asset.precision])

AccountResponse(m, hash) ==
  ReadIfAll({Account(m.account.accountId)} \cup Parts(NameOf, m.accountRoles),
            [type |-> m.type, queryHash |-> hash, accountId |-> Account(m.account.accountId),
             quorum |-> m.account.quorum, details |-> m.account.jsonData, roles |-> m.accountRoles])

ErrorResponse(m, hash) ==
  IF m.reason \in ErrorReason
  THEN Read([type |-> m.type, queryHash |-> hash, reason |-> m.reason, message |-> m.message,
             code |-> m.errorCode])
  ELSE Refused

RolesResponse(m, hash) ==
  ReadIfAll(Parts(NameOf, m.roles), [type |-> m.type, queryHash |-> hash, roles |-> m.roles])

SignatoriesResponse(m, hash) ==
  ReadIfAll(Parts(KeyOf, m.keys),
            [type |-> m.type, queryHash |-> hash, publicKeys |-> Each(KeyOf, m.keys)])

TransactionsResponse(m, hash) ==
  ReadTransactions(m.transactions, {},
                   [type |-> m.type, queryHash |-> hash, transactions |-> m.transactions])

\* The error of an unreadable nextAssetId goes to a variable that hides the
\* parameter of the same name: the caller gets neither object nor error.
AccountAssetsResponse(m, hash) ==
  IF Nil \in Parts(AccountAssetOf, m.accountAssets) THEN Refused
  ELSE IF m.nextAssetId # Empty /\ Asset(m.nextAssetId) = Nil THEN Silent
  ELSE Read([type |-> m.type, queryHash |-> hash,
             accountAssets |-> Each(AccountAssetOf, m.accountAssets), totalCount |-> m.totalNumber,
             nextAssetId |-> IF m.nextAssetId = Empty THEN Nil ELSE Asset(m.nextAssetId)])

\* The record of the next page is nil or two free texts.
AccountDetailResponse(m, hash) ==
  Read([type |-> m.type, queryHash |-> hash, detail |-> m.detail, totalCount |-> m.totalNumber,
        nextRecordId |-> m.nextRecordId])

RolePermissionsResponse(m, hash) ==
  ReadIfAll(Parts(RolePermissionOf, m.permissions),
            [type |-> m.type, queryHash |-> hash, permissions |-> m.permissions])

TransactionsPageResponse(m, hash) ==
  ReadTransactions(m.transactions, {BytesOf(m.nextTxHash)},
                   [type |-> m.type, queryHash |-> hash, transactions |-> m.transactions,
                    totalCount |-> m.allTransactionsSize,
                    nextTransactionHash |-> IF m.nextTxHash = Empty THEN Nil ELSE m.nextTxHash])

\* The hash of the next batch stays a text that nobody checks; a batch of size
\* zero is none.
PendingTransactionsPageResponse(m, hash) ==
  ReadTransactions(m.transactions, {},
                   [type |-> m.type, queryHash |-> hash, transactions |-> m.transactions,
                    totalCount |-> m.allTransactionsSize,
                    nextBatch |-> IF m.nextBatchInfo.batchSize > 0
                                  THEN [nextHash |-> m.nextBatchInfo.firstTxHash,
                                        batchSize |-> m.nextBatchInfo.batchSize]
                                  ELSE Nil])

PeersResponse(m, hash) ==
  ReadIfAll(Parts(PeerOf, m.peers),
            [type |-> m.type, queryHash |-> hash, peers |-> Each(PeerOf, m.peers)])

\* responseFromProtobuf:error:.  A block response, or none, is unexpected.
QueryResponseOf(answer) ==
  LET m    == answer.response
      hash == answer.queryHash
  IN  IF ~ IsHex(hash) THEN Refused
      ELSE CASE m.type = "asset"            -> AssetResponse(m, hash)
             [] m.type = "account"          -> AccountResponse(m, hash)
             [] m.type = "error"            -> ErrorResponse(m, hash)
             [] m.type = "roles"            -> RolesResponse(m, hash)
             [] m.type = "signatories"      -> SignatoriesResponse(m, hash)
             [] m.type = "transactions"     -> TransactionsResponse(m, hash)
             [] m.type = "accountAssets"    -> AccountAssetsResponse(m, hash)
             [] m.type = "accountDetail"    -> AccountDetailResponse(m, hash)
             [] m.type = "rolePermissions"  -> RolePermissionsResponse(m, hash)
             [] m.type = "transactionsPage" -> TransactionsPageResponse(m, hash)
             [] m.type = "pendingPage"      -> PendingTransactionsPageResponse(m, hash)
             [] m.type = "peers"            -> PeersResponse(m, hash)
             [] OTHER                       -> Refused

-----------------------------------------------------------------------------
(* IRBlockQueryResponse and IRTransactionStatusResponse                      *)

\* A submessage that is not there reads as an empty one, never as nil.  The
\* number of transactions is not read.
BlockOf(pbBlock) ==
  LET signatures == pbBlock.blockV1.signatures
      b          == pbBlock.blockV1.payload
  IN  IF \/ Nil \in Parts(PeerSignatureOf, signatures) \/ Nil \in Parts(TransactionOf, b.transactions)
         \/ Nil \in Parts(BytesOf, b.rejectedTransactionsHashes) \/ ~ IsHex(b.prevBlockHash)
      THEN Nil
      ELSE [height |-> b.height, previousBlockHash |-> b.prevBlockHash, createdAt |-> b.createdTime,
            transactions |-> b.transactions,
            rejectedTransactionHashes |-> b.rejectedTransactionsHashes,
            peerSignatures |-> Each(PeerSignatureOf, signatures)]

\* The transactions come after the signatures and before the hashes.
BlockRaises(pbBlock) ==
  /\ Nil \notin Parts(PeerSignatureOf, pbBlock.blockV1.signatures)
  /\ RaisesAmong(pbBlock.blockV1.payload.transactions)

LeavesError(block) == \E i \in DOMAIN block.transactions : block.transactions[i] \in Stray

\* A block that cannot be read is wrapped all the same: the caller gets an
\* object with neither block nor error in it, and an error beside it.
BlockQueryResponseOf(m) ==
  CASE m.type = "block"      -> IF BlockRaises(m.block) THEN Raised
                                ELSE LET block == BlockOf(m.block) IN
                                     [value |-> [block |-> block, error |-> Nil],
                                      error |-> block = Nil \/ LeavesError(block),
                                      raises |-> FALSE]
    [] m.type = "blockError" -> Read([block |-> Nil, error |-> [message |-> m.message]])
    [] OTHER                 -> Refused

\* The description is there if the peer named an error or a command.
StatusResponseOf(m) ==
  IF IsHex(m.txHash) /\ m.txStatus \in TxStatus
  THEN Read([status |-> m.txStatus, transactionHash |-> m.txHash,
             statusDescription |-> IF m.errOrCmdName = Empty THEN Nil
                                   ELSE [name |-> m.errOrCmdName, code |-> m.errorCode]])
  ELSE Refused

-----------------------------------------------------------------------------
(* The objects an application may get.  No part of them is unchecked, but for *)
(* the hash of the next batch, which may be any text.                        *)

Bytes         == {Empty} \cup ({"hex"} \X RawBytes)
RecordId      == [writer : Text, key : Text]
AccountAsset  == [accountId : AccountId, assetId : AssetId,
                  balance : [units : Units, spelled : {"plain"}]]
Peer          == [address : Name, peerKey : Key]
PeerSignature == [signature : Key, publicKey : Key]
BatchInfo     == [nextHash : HexText, batchSize : UInt32]

AssetObject           == [type : {"asset"}, queryHash : Bytes, assetId : AssetId, precision : UInt32]
AccountObject         == [type : {"account"}, queryHash : Bytes, accountId : AccountId,
                          quorum : UInt32, details : Text, roles : Seq(Name)]
ErrorObject           == [type : {"error"}, queryHash : Bytes, reason : ErrorReason, message : Text,
                          code : UInt32]
RolesObject           == [type : {"roles"}, queryHash : Bytes, roles : Seq(Name)]
SignatoriesObject     == [type : {"signatories"}, queryHash : Bytes, publicKeys : Seq(Key)]
TransactionsObject    == [type : {"transactions"}, queryHash : Bytes, transactions : Seq(Acceptable)]
AccountAssetsObject   == [type : {"accountAssets"}, queryHash : Bytes,
                          accountAssets : Seq(AccountAsset), totalCount : UInt32,
                          nextAssetId : AssetId \cup {Nil}]
AccountDetailObject   == [type : {"accountDetail"}, queryHash : Bytes, detail : Text,
                          totalCount : UInt64, nextRecordId : RecordId \cup {Nil}]
RolePermissionsObject == [type : {"rolePermissions"}, queryHash : Bytes,
                          permissions : Seq(RolePermission)]
TransactionsPageObject ==
  [type : {"transactionsPage"}, queryHash : Bytes, transactions : Seq(Acceptable),
   totalCount : UInt32, nextTransactionHash : Bytes \cup {Nil}]
PendingPageObject ==
  [type : {"pendingPage"}, queryHash : Bytes, transactions : Seq(Acceptable), totalCount : UInt32,
   nextBatch : BatchInfo \cup {Nil}]
PeersObject           == [type : {"peers"}, queryHash : Bytes, peers : Seq(Peer)]

QueryObject ==
  AssetObject \cup AccountObject \cup ErrorObject \cup RolesObject \cup SignatoriesObject \cup
  TransactionsObject \cup AccountAssetsObject \cup AccountDetailObject \cup
  RolePermissionsObject \cup TransactionsPageObject \cup PendingPageObject \cup PeersObject

Block ==
  [height : UInt64, previousBlockHash : Bytes, createdAt : UInt64, transactions : Seq(Acceptable),
   rejectedTransactionHashes : Seq(Bytes), peerSignatures : Seq(PeerSignature)]

CommitObject == [block : Block \cup {Nil}, error : [message : Text] \cup {Nil}]
StatusObject ==
  [status : TxStatus, transactionHash : Bytes,
   statusDescription : [name : Text, code : UInt32] \cup {Nil}]

ASSUME ObjectAssumption ==
  /\ Nil \notin PbTransaction \cup Bytes
  /\ Nil \notin AccountAsset /\ Nil \notin PeerSignature /\ Nil \notin Peer
  /\ Nil \notin QueryObject /\ Nil \notin CommitObject /\ Nil \notin StatusObject
=============================================================================
