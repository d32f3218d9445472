------------------------------ MODULE QueryRequest ------------------------------
(***************************************************************************)
(* Queries on a device: an application fills an IRQueryBuilder or an       *)
(* IRBlockQueryBuilder, builds requests, signs them, and sends them or not *)
(* while it goes on using the builder and its own objects.                 *)
(*                                                                         *)
(* A request keeps the query, the date and the counter, and makes its      *)
(* protobuf form of them each time anew: once to sign it, and again to     *)
(* send it.  The library copies none of the arguments it keeps.  Of those  *)
(* that an application may go on changing the model has one: the array of  *)
(* hashes a getTransactions is given, which only grows here.  A hash that  *)
(* is replaced in it, a page whose first hash is mutable data, and mutable *)
(* texts (the writer and key of a getAccountDetail or of the record its    *)
(* page starts at, and the names within identifiers) would change a request *)
(* in the same way; they are taken to be immutable.                        *)
(*                                                                         *)
(* SHA-3 and the encoding of protobuf are taken to be injective (they are  *)
(* external): what is signed is the payload.  Time goes in ticks, of which *)
(* a millisecond has several.                                              *)
(***************************************************************************)
EXTENDS CommandCodec, QueryMessages, FiniteSets

CONSTANTS
  Queries,       \* the queries the application asks
  Foreign,       \* a query of its own, which has no protobuf form
  Creators,      \* the accounts it asks for
  Counters,      \* the counters it sets
  Dates,         \* the dates it sets
  Lists,         \* the mutable arrays of hashes it keeps
  TicksPerMillisecond,
  Signatory,     \* who can sign, as a key pair
  Broken,        \* a signatory that fails to sign
  MaxBuilt, MaxRequests, MaxHashes, MaxTime  \* bounds

DefaultQueryCounter == 1

VARIABLES
  builder,   \* its kind, and what it was filled with
  lists,     \* the hashes in each mutable array
  requests,  \* every request made so far
  now,       \* the time
  dated,     \* history: did the application set a date?
  origin     \* history: of each request, which built one it comes from, and the
             \* time, the arrays and the payload when it was made

vars == <<builder, lists, requests, now, dated, origin>>

-----------------------------------------------------------------------------
(* The queries and their protobuf forms.  A form is the message inside the    *)
(* payload; its type is the case of the oneof.  A part that is nil in the    *)
(* code and has presence in protobuf is Nil in the form.                     *)

Pagination              == [pageSize : UInt32, firstItemHash : Hash \cup {Nil}]
AssetPagination         == [pageSize : UInt32, startingAssetId : AssetId \cup {Nil}]
AccountDetailRecordId   == [writer : Text, key : Text]
AccountDetailPagination == [pageSize : UInt32, nextRecordId : AccountDetailRecordId]

GetAccount                  == [type : {"getAccount"}, accountId : AccountId]
GetSignatories              == [type : {"getSignatories"}, accountId : AccountId]
GetAccountTransactions      == [type : {"getAccountTransactions"}, accountId : AccountId,
                                pagination : Pagination \cup {Nil}]
GetAccountAssetTransactions == [type : {"getAccountAssetTransactions"}, accountId : AccountId,
                                assetId : AssetId, pagination : Pagination \cup {Nil}]
GetTransactions             == [type : {"getTransactions"}, transactionHashes : Lists]
GetAccountAssets            == [type : {"getAccountAssets"}, accountId : AccountId,
                                pagination : AssetPagination \cup {Nil}]
\* With a writer and a key, or with a pagination; a pagination of no record is
\* nil, and then neither is there.
GetAccountDetail            == [type : {"getAccountDetail"}, accountId : AccountId \cup {Nil},
                                writer : Text, key : Text, pagination : {Nil}]
GetAccountDetailPage        == [type : {"getAccountDetail"}, accountId : AccountId \cup {Nil},
                                writer : {Nil}, key : {Nil},
                                pagination : AccountDetailPagination \cup {Nil}]
GetRoles                    == [type : {"getRoles"}]
GetRolePermissions          == [type : {"getRolePermissions"}, roleName : Name]
GetAssetInfo                == [type : {"getAssetInfo"}, assetId : AssetId]
GetPendingTransactions      == [type : {"getPendingTransactions"},
                                pagination : Pagination \cup {Nil}]
GetPeers                    == [type : {"getPeers"}]

Query ==
  GetAccount \cup GetSignatories \cup GetAccountTransactions \cup GetAccountAssetTransactions \cup
  GetTransactions \cup GetAccountAssets \cup GetAccountDetail \cup GetAccountDetailPage \cup
  GetRoles \cup GetRolePermissions \cup GetAssetInfo \cup GetPendingTransactions \cup GetPeers

ASSUME QueryAssumption ==
  /\ Queries \subseteq Query \cup {Foreign}
  /\ Nil \notin Query
  /\ Foreign \notin Query \cup {Nil}
  /\ Creators \subseteq AccountId
  /\ Counters \cup Dates \subseteq Nat
  /\ Nil \notin Nat
  /\ TicksPerMillisecond \in Nat \ {0}
  /\ Broken \notin Signatory
  /\ {MaxBuilt, MaxRequests, MaxHashes, MaxTime} \subseteq Nat

\* What stands for nil is no page, no text and no message.
ASSUME NilIsNoForm ==
  /\ Nil \notin Pagination \cup AssetPagination \cup AccountDetailPagination
  /\ Nil \notin IdText("@") \cup IdText("#") \cup HexText
  /\ Nil \notin PbTxPaginationMeta \cup PbAssetPaginationMeta \cup PbAccountDetailPaginationMeta

TxPaginationMeta(page) ==
  IF page = Nil THEN Nil
  ELSE [pageSize |-> page.pageSize,
        firstTxHash |-> IF page.firstItemHash = Nil THEN Nil ELSE Hex(page.firstItemHash)]

MutantAssetPaginationMeta(page) ==
  IF page = Nil THEN Nil ELSE [pageSize |-> page.pageSize, firstAssetId |-> Nil]
AssetPaginationMeta(page) ==
  IF page = Nil THEN Nil
  ELSE [pageSize |-> page.pageSize,
        firstAssetId |-> IF page.startingAssetId = Nil THEN Nil
                         ELSE Identifier(page.startingAssetId, "#")]

\* getAccount and getSignatories
FormOfAccountQuery(q) == [type |-> q.type, accountId |-> Identifier(q.accountId, "@")]

FormOfGetAccountTransactions(q) ==
  [type |-> q.type, accountId |-> Identifier(q.accountId, "@"),
   paginationMeta |-> TxPaginationMeta(q.pagination)]

FormOfGetAccountAssetTransactions(q) ==
  [type |-> q.type, accountId |-> Identifier(q.accountId, "@"),
   assetId |-> Identifier(q.assetId, "#"), paginationMeta |-> TxPaginationMeta(q.pagination)]

FormOfGetTransactions(q) ==
  [type |-> q.type,
   txHashes |-> [i \in DOMAIN lists[q.transactionHashes] |-> Hex(lists[q.transactionHashes][i])]]

FormOfGetAccountAssets(q) ==
  [type |-> q.type, accountId |-> Identifier(q.accountId, "@"),
   paginationMeta |-> AssetPaginationMeta(q.pagination)]

\* A writer and a key of nil are left out: they have presence.
FormOfGetAccountDetail(q) ==
  [type |-> q.type,
   accountId |-> IF q.accountId = Nil THEN Nil ELSE Identifier(q.accountId, "@"),
   writer |-> q.writer, key |-> q.key,
   paginationMeta |-> IF q.pagination = Nil THEN Nil
                      ELSE [pageSize |-> q.pagination.pageSize,
                            firstRecordId |-> q.pagination.nextRecordId]]

FormOfGetRolePermissions(q) == [type |-> q.type, roleId |-> q.roleName]

FormOfGetAssetInfo(q) == [type |-> q.type, assetId |-> Identifier(q.assetId, "#")]

FormOfGetPendingTransactions(q) ==
  [type |-> q.type, paginationMeta |-> TxPaginationMeta(q.pagination)]

\* getRoles and getPeers have no fields.
QueryForm(q) ==
  CASE q.type \in {"getAccount", "getSignatories"} -> FormOfAccountQuery(q)
    [] q.type = "getAccountTransactions"           -> FormOfGetAccountTransactions(q)
    [] q.type = "getAccountAssetTransactions"      -> FormOfGetAccountAssetTransactions(q)
    [] q.type = "getTransactions"                  -> FormOfGetTransactions(q)
    [] q.type = "getAccountAssets"                 -> FormOfGetAccountAssets(q)
    [] q.type = "getAccountDetail"                 -> FormOfGetAccountDetail(q)
    [] q.type \in {"getRoles", "getPeers"}         -> [type |-> q.type]
    [] q.type = "getRolePermissions"               -> FormOfGetRolePermissions(q)
    [] q.type = "getAssetInfo"                     -> FormOfGetAssetInfo(q)
    [] q.type = "getPendingTransactions"           -> FormOfGetPendingTransactions(q)

-----------------------------------------------------------------------------
(* Requests                                                                  *)

\* Of a query or, with no query, of blocks.
QueryRequest(creator, createdAt, query, counter, signature) ==
  [creator |-> creator, createdAt |-> createdAt, query |-> query, queryCounter |-> counter,
   peerSignature |-> signature]

\* What is finer than a millisecond is cut off.  (The product on line 11 is of
\* binary fractions: from January 2038 to September 2039 it may be a millisecond
\* less, the same each time.)
Milliseconds(date) == date \div TicksPerMillisecond

Meta(r) ==
  [creatorAccountId |-> Identifier(r.creator, "@"), createdTime |-> Milliseconds(r.createdAt),
   queryCounter |-> r.queryCounter]

\* createPayload: of both kinds of request
Payload(r) ==
  CASE r.query = Foreign -> Nil
    [] r.query = Nil     -> Meta(r)
    [] OTHER             -> [meta |-> Meta(r), query |-> QueryForm(r.query)]

\* transform: of both kinds
Form(r) ==
  CASE Payload(r) = Nil -> Nil
    [] r.query = Nil    -> [meta |-> Payload(r), signature |-> r.peerSignature]
    [] OTHER            -> [payload |-> Payload(r), signature |-> r.peerSignature]

\* signWithSignatory:signatoryPublicKey:error:
MutantSignature(r, signatory) ==
  IF Payload(r) = Nil \/ signatory = Broken THEN Nil
  ELSE [by |-> signatory, over |-> Meta(r)]
SignatureBy(r, signatory) ==
  IF Payload(r) = Nil \/ signatory = Broken THEN Nil
  ELSE [by |-> signatory, over |-> Payload(r)]

\* signedWithSignatory:signatoryPublicKey:error: makes a request with the new
\* signature in the place of an earlier one.
MutantSigned(r, signatory) ==
  IF SignatureBy(r, signatory) = Nil THEN Nil
  ELSE QueryRequest(r.creator, now, r.query, r.queryCounter,
                    SignatureBy([r EXCEPT !.createdAt = now], signatory))
Signed(r, signatory) ==
  IF SignatureBy(r, signatory) = Nil THEN Nil
  ELSE QueryRequest(r.creator, r.createdAt, r.query, r.queryCounter, SignatureBy(r, signatory))

-----------------------------------------------------------------------------
(* What the application does                                                 *)

Init ==
  /\ builder \in [kind : {"query", "blocks"}, creator : {Nil}, createdAt : {Nil}, query : {Nil},
                  queryCounter : {DefaultQueryCounter}]
  /\ lists = [l \in Lists |-> << >>]
  /\ requests = << >>
  /\ now = 0
  /\ dated = FALSE
  /\ origin = << >>

Built == {i \in DOMAIN origin : origin[i].of = i}

\* A bound: the application uses the builder as long as it may build once more.
MayBuild == Cardinality(Built) < MaxBuilt /\ Len(requests) < MaxRequests

Fill(filled) ==
  /\ MayBuild
  /\ builder' = filled
  /\ UNCHANGED <<lists, requests, now, origin>>

WithCreatorAccountId(creator) ==
  /\ Fill([builder EXCEPT !.creator = creator])
  /\ UNCHANGED dated

WithCreatedDate(date) ==
  /\ Fill([builder EXCEPT !.createdAt = date])
  /\ dated' = TRUE

MutantWithQueryCounter(counter) ==
  /\ Fill([builder EXCEPT !.queryCounter = counter])
  /\ UNCHANGED dated
WithQueryCounter(counter) ==
  /\ Fill([builder EXCEPT !.queryCounter = IF counter > 0 THEN counter ELSE DefaultQueryCounter])
  /\ UNCHANGED dated

\* Every method that asks a query; the builder of block queries has none.
WithQuery(query) ==
  /\ builder.kind = "query"
  /\ Fill([builder EXCEPT !.query = query])
  /\ UNCHANGED dated

\* build: makes nothing without a creator, or without the query it needs.
Buildable == builder.creator # Nil /\ (builder.kind = "query" => builder.query # Nil)

DateOfBuild == IF builder.createdAt = Nil THEN now ELSE builder.createdAt

Request ==
  QueryRequest(builder.creator, DateOfBuild, builder.query, builder.queryCounter, Nil)

Make(request, of) ==
  /\ Len(requests) < MaxRequests
  /\ requests' = Append(requests, request)
  /\ origin' = Append(origin, [of |-> of, at |-> now, dated |-> dated, lists |-> lists,
                              payload |-> Payload(request)])

MutantBuild ==
  /\ MayBuild
  /\ Buildable
  /\ Make(Request, Len(requests) + 1)
  /\ builder' = [builder EXCEPT !.createdAt = DateOfBuild]
  /\ UNCHANGED <<lists, now, dated>>
Build ==
  /\ MayBuild
  /\ Buildable
  /\ Make(Request, Len(requests) + 1)
  /\ UNCHANGED <<builder, lists, now, dated>>

Sign(i, signatory) ==
  /\ Signed(requests[i], signatory) # Nil
  /\ Make(Signed(requests[i], signatory), origin[i].of)
  /\ UNCHANGED <<builder, lists, now, dated>>

\* The application adds a hash to an array of its own.
AddHash(list, hash) ==
  /\ Len(lists[list]) < MaxHashes
  /\ lists' = [lists EXCEPT ![list] = Append(@, hash)]
  /\ UNCHANGED <<builder, requests, now, dated, origin>>

Tick ==
  /\ now < MaxTime
  /\ now' = now + 1
  /\ UNCHANGED <<builder, lists, requests, dated, origin>>

Next ==
  \/ \E creator \in Creators : WithCreatorAccountId(creator)
  \/ \E date \in Dates : WithCreatedDate(date)
  \/ \E counter \in Counters : WithQueryCounter(counter)
  \/ \E query \in Queries : WithQuery(query)
  \/ Build
  \/ \E i \in DOMAIN requests, signatory \in Signatory \cup {Broken} : Sign(i, signatory)
  \/ \E list \in Lists, hash \in Hash : AddHash(list, hash)
  \/ Tick

Spec == Init /\ [][Next]_vars

-----------------------------------------------------------------------------
(* Properties                                                                *)

\* What may be signed is a message that a peer can read.
Signable == PbQueryPayload \cup PbQueryPayloadMeta

Signature == [by : Signatory, over : Signable]

\* What is sent to a peer, or that there is nothing to send
Sent == PbQuery(Signature) \cup PbBlocksQuery(Signature) \cup {Nil}

RequestType ==
  [creator : Creators, createdAt : Nat, query : Queries \cup {Nil}, queryCounter : Nat \ {0},
   peerSignature : Signature \cup {Nil}]

OriginType ==
  [of : Nat, at : Nat, dated : BOOLEAN, lists : [Lists -> Seq(Hash)],
   payload : Signable \cup {Nil}]

SendsMessages == \A i \in DOMAIN requests : Form(requests[i]) \in Sent

\* The types.  No request has the counter 0, whatever was set, a request of a
\* builder of queries has one, and what is signed and what is sent are messages of
\* queries.proto.
TypeOK ==
  /\ builder \in [kind : {"query", "blocks"}, creator : Creators \cup {Nil},
                  createdAt : Nat \cup {Nil}, query : Queries \cup {Nil},
                  queryCounter : Nat \ {0}]
  /\ builder.kind = "blocks" => builder.query = Nil
  /\ lists \in [Lists -> Seq(Hash)]
  /\ requests \in Seq(RequestType)
  /\ SendsMessages
  /\ \A i \in DOMAIN requests : requests[i].query = Nil <=> builder.kind = "blocks"
  /\ now \in Nat
  /\ dated \in BOOLEAN
  /\ origin \in Seq(OriginType)
  /\ Len(origin) = Len(requests)
  /\ \A i \in DOMAIN origin : origin[i].of \in 1 .. i /\ origin[i].of \in Built

\* Has the application added to the array a request keeps since the lists were these?
AddedTo(r, before) ==
  /\ r.query \in GetTransactions
  /\ lists[r.query.transactionHashes] # before[r.query.transactionHashes]

\* What a peer checks the signature of a message over
SignedPart(form) == IF "meta" \in DOMAIN form THEN form.meta ELSE form.payload

\* The signature that is sent is over the payload that is sent, though the two
\* are made at different times, and nothing an application does between the two
\* can part them (fill or build again, sign again, let time pass) but changing
\* what it gave to the library, which copies nothing: adding to the array that
\* IRGetTransactions keeps stands for every such change.
StaleOnlyByCaller ==
  \A i \in DOMAIN requests :
    requests[i].peerSignature # Nil =>
      \/ requests[i].peerSignature.over = SignedPart(Form(requests[i]))
      \/ AddedTo(requests[i], origin[i].lists)

\* A request, and every signed one made of it, asks what was built, at the
\* time and with the counter it was built with, for good.
AsksAsBuilt ==
  \A i \in DOMAIN requests :
    LET built == origin[origin[i].of]
    IN  \/ Payload(requests[i]) = built.payload
        \/ AddedTo(requests[i], built.lists)

\* Without a date a request bears the time of its own build:, to the millisecond,
\* however long its builder is used: a peer refuses a query that is too old.
DatedAtBuild ==
  \A i \in Built :
    ~origin[i].dated => Meta(requests[i]).createdTime = Milliseconds(origin[i].at)

\* What a query asks for, the array it keeps at its contents
Asked(q) ==
  IF q \in GetTransactions THEN [type |-> q.type, hashes |-> lists[q.transactionHashes]] ELSE q

\* Queries that ask for different things, if only for another page or another
\* asset, differ in the payload: no part of any of the queries is dropped.
QueriesDiffer ==
  \A i, j \in DOMAIN requests :
    LET one == requests[i].query
        two == requests[j].query
    IN  ({one, two} \subseteq Query /\ QueryForm(one) = QueryForm(two)) => Asked(one) = Asked(two)
=============================================================================
