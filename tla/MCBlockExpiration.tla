-------------------------- MODULE MCBlockExpiration --------------------------
(* Model-checking instance of the block expiration tracker.                  *)
EXTENDS BlockExpiration
=============================================================================
