------------------------------ MODULE MCIRPromise ------------------------------
(* Instances of IRPromise: the .cfg files say how many links and threads.     *)
(* A chain of N links on one root allocates at most one promise per link and  *)
(* one per handler call, so 2N + 1 objects never run out.                     *)
EXTENDS IRPromise, FiniteSets

EnoughPromises == Cardinality(Promise) >= 2 * N + 1

ASSUME EnoughPromises
=============================================================================
