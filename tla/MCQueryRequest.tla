----------------------------- MODULE MCQueryRequest -----------------------------
(* One account, which asks every query: the ones with pages with and without   *)
(* one, and the first page and a later one; the details of its account, of a   *)
(* writer and on a page.  A millisecond has two ticks, and two ticks pass.   *)
EXTENDS QueryRequest

CONSTANTS alice, wonderland, coin, admin, foo, hash, list, alicesKey

MCName  == {alice, wonderland, coin, admin}
MCText  == {foo, Empty}
MCUInt32 == 0 .. 3
MCUnits == 0 .. 1

Me   == [name |-> alice, domain |-> wonderland]
Coin == [name |-> coin, domain |-> wonderland]

Page(first)      == [pageSize |-> 2, firstItemHash |-> first]
AssetPage(first) == [pageSize |-> 2, startingAssetId |-> first]

Paged ==
  {[type |-> "getAccountTransactions", accountId |-> Me, pagination |-> page] :
     page \in {Nil, Page(Nil)}} \cup
  {[type |-> "getAccountAssetTransactions", accountId |-> Me, assetId |-> Coin,
    pagination |-> Page(hash)]} \cup
  {[type |-> "getPendingTransactions", pagination |-> page] : page \in {Page(Nil), Page(hash)}} \cup
  {[type |-> "getAccountAssets", accountId |-> Me, pagination |-> AssetPage(first)] :
     first \in {Nil, Coin}}

Details ==
  {[type |-> "getAccountDetail", accountId |-> Me, writer |-> foo, key |-> foo, pagination |-> Nil],
   [type |-> "getAccountDetail", accountId |-> Nil, writer |-> Nil, key |-> Nil,
    pagination |-> [pageSize |-> 2, nextRecordId |-> [writer |-> foo, key |-> Empty]]]}

Others ==
  {[type |-> "getAccount", accountId |-> Me], [type |-> "getSignatories", accountId |-> Me],
   [type |-> "getTransactions", transactionHashes |-> list], [type |-> "getRoles"],
   [type |-> "getRolePermissions", roleName |-> admin], [type |-> "getAssetInfo", assetId |-> Coin],
   [type |-> "getPeers"]}

MCQueries  == Paged \cup Details \cup Others \cup {Foreign}
MCCreators == {Me}
=============================================================================
