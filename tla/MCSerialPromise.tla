---------------------------- MODULE MCSerialPromise ----------------------------
(* An instance of SerialPromise.  Two promises of the application's own and    *)
(* three links are enough for a chain of two links whose handler writes an     *)
(* inner chain and returns the end of it.                                     *)
EXTENDS SerialPromise

EnoughLinks == MaxLinks > MaxPromises

ASSUME EnoughLinks
=============================================================================
