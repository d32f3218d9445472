------------------------------- MODULE Primitive -------------------------------
(***************************************************************************)
(* The values that messages and objects are made of, and the messages of   *)
(* primitive.proto.                                                        *)
(*                                                                         *)
(* Texts are abstract: a text is a name, an identifier (two names around a *)
(* separator), the hexadecimal of some bytes, an amount, a free text,      *)
(* Empty (the default a proto3 string field reads as when nobody set it)   *)
(* or Garbled (any text no format accepts).  An amount is its number and   *)
(* whether it is spelled with needless zeros, as in "1.50": the only thing *)
(* that parsing and printing it again changes.                             *)
(***************************************************************************)
EXTENDS Integers, Sequences

CONSTANTS
  Name,        \* the valid names of domains, accounts, assets, roles and peers
  Key,         \* bytes of the length of a public key, which is that of a hash
  Text,        \* free texts: the details of accounts, descriptions
  UInt32,      \* the numbers 32 bits hold
  Units,       \* the numbers an amount may be
  Nil, Empty, Garbled,
  Short        \* bytes of another length

Hash     == Key
RawBytes == Key \cup {Short}

-----------------------------------------------------------------------------
(* What may be in a field of each kind, whoever filled it                    *)

IdText(sep) == (Name \X {sep} \X Name) \cup {Empty, Garbled}
NameText    == Name \cup {Empty, Garbled}
HexText     == ({"hex"} \X RawBytes) \cup {Empty, Garbled}
AmountText  == [units : Units, spelled : {"plain", "padded"}]
AmountField == AmountText \cup {Empty, Garbled}
UInt64      == Nat

(* An enumeration by its numbers; a field of one may hold a number it does   *)
(* not define, which the first one past its end stands for.                  *)

RolePermission           == 0 .. 46
RolePermissionField      == 0 .. 47
GrantablePermission      == 0 .. 4
GrantablePermissionField == 0 .. 5

\* The case of a oneof that nobody set, or one this library does not know
Unset == [type : {"unset"}]

PbSignature             == [publicKey : HexText, signature : HexText]
PbPeer                  == [address : NameText, peerKey : HexText]
PbAccountDetailRecordId == [writer : Text, key : Text]

ASSUME CodecAssumption ==
  /\ Units \subseteq Nat
  /\ Nil \notin Name \cup Key \cup Text \cup RolePermission
  /\ Nil \notin [name : Name, domain : Name]
  /\ Nil \notin AmountText
  /\ {Empty, Garbled} \cap Name = {}
  /\ Short \notin Key
  /\ Empty \in Text
  /\ Empty \notin {"hex"} \X RawBytes
=============================================================================
