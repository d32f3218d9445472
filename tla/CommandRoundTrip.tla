--------------------------- MODULE CommandRoundTrip ---------------------------
(***************************************************************************)
(* A command on its way through the library: made by the builder or sent   *)
(* by a peer, written as protobuf, read back and written again, as happens *)
(* to the commands of a transaction that is stored, restored, fetched from *)
(* a peer, signed and sent on.                                             *)
(***************************************************************************)
EXTENDS CommandCodec

VARIABLES
  madeBy,     \* "builder" or "peer"
  pbForm,     \* the protobuf form, or Nil before the command is first written
  irCommand,  \* the command object, or Nil when the form was not accepted
  trips       \* how many times it was written, counted up to MaxTrips

tripVars == <<madeBy, pbForm, irCommand, trips>>

MaxTrips == 2

TripInit ==
  /\ trips = 0
  /\ \/ madeBy = "builder" /\ irCommand \in Command /\ pbForm = Nil
     \/ madeBy = "peer" /\ irCommand = Nil /\ pbForm \in PbCommand

Written == pbForm # Nil /\ irCommand = Nil

\* transform:, and the bytes are all that is kept of the command.
Write ==
  /\ irCommand # Nil
  /\ pbForm' = FormOf(irCommand)
  /\ irCommand' = Nil
  /\ trips' = IF trips < MaxTrips THEN trips + 1 ELSE MaxTrips
  /\ UNCHANGED madeBy

\* commandFromPbCommand:error:
Read ==
  /\ Written
  /\ CommandOf(pbForm) # Nil
  /\ irCommand' = CommandOf(pbForm)
  /\ UNCHANGED <<madeBy, pbForm, trips>>

\* The form is refused, and the transaction it is part of with it.
Refuse ==
  /\ Written
  /\ CommandOf(pbForm) = Nil
  /\ UNCHANGED tripVars

TripNext == Write \/ Read \/ Refuse

TripSpec == TripInit /\ [][TripNext]_tripVars

-----------------------------------------------------------------------------
(* Properties                                                                *)

\* A form the library accepts but writes in another way: an amount with
\* needless zeros, an oldValue that is not there, a key that is no key.
Respelled(f) ==
  \/ "amount" \in DOMAIN f /\ f.amount \in AmountText /\ f.amount.spelled = "padded"
  \/ f.type = "compareAndSetAccountDetail" /\ f.oldValue = Nil
  \/ f.type = "createAccount" /\ f.publicKey = <<"hex", Short>>

\* What the transform: of a command writes is always accepted by
\* IRCommandProtoFactory: no command the builder made, and none that was read
\* once, is lost when its transaction is stored and restored.  The account
\* without a key is among them: its key is written as an empty text.
OwnFormsParse == Written /\ trips > 0 => CommandOf(pbForm) # Nil

\* Reading a command and writing it again keeps its form, on which every hash
\* and every signature depends, but for the three kinds of respelled forms;
\* and the form a respelled one turns into is kept from then on.
FormSettles ==
  [][pbForm # Nil /\ pbForm' # pbForm => Respelled(pbForm) /\ ~Respelled(pbForm')]_tripVars

\* IRCommandProtoFactory makes no command the builder could not have made: every
\* name, identifier, key, permission and amount of a command was checked.  The
\* one exception is createAccount, whose key it does not check.
PartsChecked ==
  irCommand # Nil =>
    \/ irCommand \in Command
    \/ irCommand \in KeylessAccount /\ madeBy = "peer"
=============================================================================
