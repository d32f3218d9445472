----------------------------- MODULE MCTransaction -----------------------------
(* One account, which adds a compare-and-set that may be given no old value,   *)
(* two signatories, and five pending transactions with a transfer: one signed  *)
(* by bob, one whose transfer does not parse, one with a batch type the library *)
(* does not know, one with a batch hash and one with a key that is none.       *)
(* 32 bits hold 0..3, and the date is not a whole number of milliseconds.      *)
EXTENDS Transaction

CONSTANTS alice, wonderland, coin, pk, hello, alicesKey, bobsKey, WithOldValue

MCName       == {alice, wonderland, coin}
MCText       == {hello, Empty}
MCUInt32     == 0 .. Width - 1
MCUnits      == 0 .. 1
Me           == [name |-> alice, domain |-> wonderland]

Transfer ==
  [type |-> "transferAsset", sourceAccountId |-> Me, destinationAccountId |-> Me,
   assetId |-> [name |-> coin, domain |-> wonderland], transferDescription |-> hello,
   amount |-> [units |-> 1, spelled |-> "plain"]]

Compare ==
  [type |-> "compareAndSetAccountDetail", accountId |-> Me, key |-> hello, value |-> hello,
   oldValue |-> IF WithOldValue THEN hello ELSE Nil]

MCCommands == {Compare}
MCCreators == {Me}
MCSignings == {<< >>, <<alicesKey, bobsKey>>, <<alicesKey, Broken>>}
MCDates    == {TicksPerMillisecond + 1}
MCQuorums  == {Width + 2}

Pending(command, batch) ==
  [reducedPayload |-> [commands |-> <<command>>, creatorAccountId |-> <<alice, "@", wonderland>>,
                       createdTime |-> 1, quorum |-> 2],
   batch |-> batch]

SignedBy(signatory, payload) ==
  [payload |-> payload, signatures |-> <<[by |-> signatory, over |-> payload]>>]

MCPendingForms ==
  {SignedBy(bobsKey, Pending(FormOf(Transfer), Nil)),
   SignedBy(bobsKey, Pending([FormOf(Transfer) EXCEPT !.amount = Garbled], Nil)),
   SignedBy(bobsKey, Pending(FormOf(Transfer), [type |-> Garbled, reducedHashes |-> << >>])),
   SignedBy(bobsKey, Pending(FormOf(Transfer), [type |-> Atomic, reducedHashes |-> <<Garbled>>])),
   SignedBy(Garbled, Pending(FormOf(Transfer), Nil))}
=============================================================================
