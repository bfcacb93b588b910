------------------------------ MODULE Command ------------------------------
(***************************************************************************)
(* What a call of scsi_cmd() promises its caller, on every platform: the   *)
(* device carries out the command once when the call succeeds, once or not *)
(* at all when it fails, and never if the call is refused; no command is   *)
(* sent twice and none but the one asked for.  The toolbox functions rely  *)
(* on it: they take a call for one step with these outcomes.               *)
(***************************************************************************)
EXTENDS Integers, Sequences

CONSTANTS Requests,    \* what a caller may ask for
          NoError,     \* the result of a call that succeeds
          Errors       \* the results of one that does not

VARIABLES busy,        \* whether a call is being made
          request,     \* what it asks for
          result,      \* the result of the last call
          carriedOut   \* what the device has carried out, in order

vars == <<busy, request, result, carriedOut>>

Init ==
    /\ busy = FALSE /\ request \in Requests
    /\ result = NoError /\ carriedOut = <<>>

Call ==
    /\ ~busy /\ busy' = TRUE
    /\ request' \in Requests
    /\ UNCHANGED <<result, carriedOut>>

\* A call without a device.
Refuse ==
    /\ ~busy /\ UNCHANGED busy
    /\ request' \in Requests
    /\ result' \in Errors
    /\ UNCHANGED carriedOut

Succeed ==
    /\ busy /\ busy' = FALSE
    /\ result' = NoError
    /\ carriedOut' = Append(carriedOut, request)
    /\ UNCHANGED request

Fail ==
    /\ busy /\ busy' = FALSE
    /\ result' \in Errors
    /\ carriedOut' \in {carriedOut, Append(carriedOut, request)}
    /\ UNCHANGED request

Next == Call \/ Refuse \/ Succeed \/ Fail

Spec == Init /\ [][Next]_vars
=============================================================================
