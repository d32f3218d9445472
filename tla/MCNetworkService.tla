---------------------------- MODULE MCNetworkService ----------------------------
(* Of every kind of message one that is read, and one for each part that can   *)
(* be refused.                                                                 *)
EXTENDS NetworkService

CONSTANTS alice, wonderland, pk, good, other, bad, tx, odd, junk, trap

MCName    == {alice, wonderland}
MCUInt32  == 0 .. 2
MCBatches == {<< >>, <<good, other>>, <<good, bad>>}

AnId(sep)  == <<alice, sep, wonderland>>
Raw(bytes) == <<"hex", bytes>>

MCAccount(id) == [accountId |-> id, domainId |-> wonderland, quorum |-> 1, jsonData |-> Empty]
MCAsset(id)   == [assetId |-> id, domainId |-> wonderland, precision |-> 2]
Balance(text) == [accountId |-> AnId("@"), assetId |-> AnId("#"), balance |-> text]
Zero          == [units |-> 0, spelled |-> "padded"]

Responses ==
  [type : {"asset"}, asset : {MCAsset(AnId("#")), MCAsset(Garbled)}]
    \cup [type : {"account"}, account : {MCAccount(AnId("@")), MCAccount(Garbled)},
          accountRoles : {<< >>, <<alice, Garbled>>}]
    \cup [type : {"error"}, reason : {2, 9}, message : {Empty}, errorCode : {1}]
    \cup [type : {"roles"}, roles : {<<alice>>, <<Garbled>>}]
    \cup [type : {"signatories"}, keys : {<<Raw(pk)>>, <<Raw(pk), Raw(Short)>>}]
    \cup [type : {"transactions"},
          transactions : {<<tx>>, <<tx, junk>>, <<tx, trap>>, <<junk, trap>>}]
    \cup [type : {"accountAssets"}, totalNumber : {1},
          accountAssets : {<< >>, <<Balance(Zero)>>, <<Balance(Garbled)>>},
          nextAssetId : {Empty, AnId("#"), Garbled}]
    \cup [type : {"accountDetail"}, detail : {Empty}, totalNumber : {1},
          nextRecordId : {Nil, [writer |-> Empty, key |-> Empty]}]
    \cup [type : {"rolePermissions"}, permissions : {<<0, 46>>, <<47>>}]
    \cup [type : {"transactionsPage"}, transactions : {<<tx>>, <<trap>>}, allTransactionsSize : {1},
          nextTxHash : {Empty, Raw(Short), Garbled}]
    \cup [type : {"pendingPage"}, transactions : {<<tx>>, <<trap>>}, allTransactionsSize : {1},
          nextBatchInfo : [firstTxHash : {Garbled}, batchSize : {0, 2}]]
    \cup [type : {"peers"}, peers : {<<[address |-> alice, peerKey |-> Raw(pk)]>>,
                                     <<[address |-> alice, peerKey |-> Raw(Short)]>>}]
    \cup Unset

MCAnswers ==
  [queryHash : {Empty}, response : Responses] \cup [queryHash : {Garbled}, response : Unset]

MCStatuses ==
  [txStatus : {5}, txHash : {Raw(Short), Garbled}, errOrCmdName : {Empty}, failedCmdIndex : {0},
   errorCode : {0}]
    \cup [txStatus : {4, 10}, txHash : {Raw(Short)}, errOrCmdName : {Garbled}, failedCmdIndex : {0},
          errorCode : {1}]

\* Signed with a key that is one or not.
BlockOver(key, transactions) ==
  [blockV1 |->
     [signatures |-> <<[signature |-> Raw(key), publicKey |-> Raw(pk)]>>,
      payload |-> [transactions |-> transactions, txNumber |-> 1, height |-> 1, createdTime |-> 0,
                   rejectedTransactionsHashes |-> << >>, prevBlockHash |-> Raw(Short)]]]

MCCommits ==
  [type : {"block"},
   block : {BlockOver(pk, <<tx>>), BlockOver(pk, <<odd>>), BlockOver(pk, <<junk, trap>>),
            BlockOver(pk, <<odd, trap>>), BlockOver(Short, <<trap>>)}]
    \cup [type : {"blockError"}, message : {Empty}] \cup Unset
=============================================================================
