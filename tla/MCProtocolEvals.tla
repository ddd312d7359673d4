-------------------------- MODULE MCProtocolEvals --------------------------
(***************************************************************************)
(* The suite as it runs: one buyer, an empty store with the seeded catalog. *)
(***************************************************************************)
EXTENDS ProtocolEvals

NoScript == driver :> <<>>
EmptyLog == <<>>
=============================================================================
