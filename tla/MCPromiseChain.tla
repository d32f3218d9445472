---------------------------- MODULE MCPromiseChain ----------------------------
(* Four links: the shortest chain in which an error can skip two handlers    *)
(* and the handler that catches it can feed a further one.                   *)
EXTENDS PromiseChain
=============================================================================
