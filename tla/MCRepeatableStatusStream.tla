----------------------- MODULE MCRepeatableStatusStream -----------------------
(* The three final statuses and two that are not, of which any may be        *)
(* expected: enough for an expected status to be followed by a final one, and *)
(* for a status to be repeated by a later attempt.                            *)
EXTENDS RepeatableStatusStream

MCStatus == Final \cup {"statelessValidationSuccess", "notReceived"}
=============================================================================
