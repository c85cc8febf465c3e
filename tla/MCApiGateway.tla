---------------------------- MODULE MCApiGateway ----------------------------
(* Small sets of calls for TLC. *)
EXTENDS ApiGateway, TLC

CONSTANTS payment, approval

\* A create the backend finds again by its key, and an approval.
WorkingPath == (payment :> "transactions") @@ (approval :> "loans/approve")
=============================================================================
