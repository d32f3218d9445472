-------------------------- MODULE MCCommandRoundTrip --------------------------
(* Two names, so that swapped parts show; one key.          *)
EXTENDS CommandRoundTrip

CONSTANTS alice, wonderland, pk, hello

MCName       == {alice, wonderland}
MCKey        == {pk}
MCText       == {hello, Empty}
MCUInt32     == 0..1
MCUnits      == 0..1
=============================================================================
