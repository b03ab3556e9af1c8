---------------------------- MODULE RequestThreads ----------------------------
(***************************************************************************)
(* What the services of one server share in these models: FastAPI runs     *)
(* each endpoint on a worker thread of its own, and every thread has its   *)
(* own session and transaction.                                            *)
(***************************************************************************)
CONSTANTS
    Requests,  \* the requests that may be in flight together
    Serial,    \* TRUE: the callers of one record wait for each other
    None       \* NULL

ASSUME RequestAssumption == Serial \in BOOLEAN
=============================================================================
